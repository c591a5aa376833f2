------------------------------ MODULE Dispatch ------------------------------
(***************************************************************************)
(* DispatchService (src/src/dispatch) on top of the payment component,     *)
(* which is taken at its word: the module PaymentLedger, with one payment  *)
(* reference DSP_<id> for each dispatch, so that a dispatch stands for its *)
(* own reference.                                                          *)
(*                                                                         *)
(* Two ways of writing meet here. completeDispatch works inside a          *)
(* transaction: what it saves is seen by nobody before the commit, and the *)
(* UPDATE locks the row.  The payment row it causes is written through a   *)
(* repository outside of that transaction, and the gateway knows of no     *)
(* transaction at all.                                                     *)
(*                                                                         *)
(* save(entity) is TypeORM's: a SELECT finds the columns in which the      *)
(* entity differs from the stored row, then an UPDATE sets just those. An  *)
(* entity read long ago therefore also puts back, in every column, what    *)
(* it was when it was read.                                                *)
(*                                                                         *)
(* Every query takes a connection of the process's pool, of which there    *)
(* are as many as pg's default says (10), and waits for one without end.   *)
(***************************************************************************)
EXTENDS Naturals, FiniteSets

CONSTANTS
    Dispatches,  \* ids of dispatches
    Calls,       \* slots for calls being served
    Wanted,      \* statuses that status updates ask for
    Addressed,   \* dispatches whose user has an email address
    Connections  \* size of the connection pool

VARIABLES
    rows,   \* rows[d]: the committed row of d
    calls,  \* calls[c]: the call in slot c
    txn,    \* txn[d]: the payment row of reference DSP_d
    facts,  \* facts[d]: what the gateway knows of reference DSP_d
    told    \* what users were told of which dispatch, in mails that left

vars == <<rows, calls, txn, facts, told>>

Ledger == INSTANCE PaymentLedger WITH Refs <- Dispatches

-----------------------------------------------------------------------------
(***************************************************************************)
(* A row: its status, whether the payment columns (reference, url, amount, *)
(* initiated at: always set together) are filled, and paymentVerifiedAt.   *)
(* The statuses no code here tests are one: "other".                       *)
(***************************************************************************)
DispatchStatus == {"in_progress", "payment_pending", "payment_completed", "other"}

ASSUME DispatchAssumption ==
    /\ Dispatches # {}
    /\ Wanted \subseteq DispatchStatus
    /\ Addressed \subseteq Dispatches
    /\ Connections \in Nat

Row == [status : DispatchStatus \cup {"none"}, ref : BOOLEAN, verified : BOOLEAN]

NoRow == [status |-> "none", ref |-> FALSE, verified |-> FALSE]

Column == {"status", "ref", "verified"}

(***************************************************************************)
(* A call: the entity in its memory (ent), the columns its UPDATE is about *)
(* to set (cols), and, for completeDispatch, whether its transaction holds *)
(* the lock on the row, and the uncommitted row it wrote (work).           *)
(***************************************************************************)
Op == {"update", "complete", "verify"}
At == {"idle", "read", "save", "write", "gateway", "insert", "save_ref",
       "write_ref", "notify", "commit", "verify_payment"}

Call == [op : Op, d : Dispatches, want : DispatchStatus, at : At, ent : Row,
         cols : SUBSET Column, holds : BOOLEAN, work : Row]

NoCall == [op |-> "update", d |-> CHOOSE d \in Dispatches : TRUE, want |-> "other",
           at |-> "idle", ent |-> NoRow, cols |-> {}, holds |-> FALSE, work |-> NoRow]

InTransaction(c) == calls[c].op = "complete"

(* The row as call c sees it: its own writes, else what is committed. *)
Visible(c) == IF calls[c].holds THEN calls[c].work ELSE rows[calls[c].d]

(* The row of c is not locked by another transaction. *)
Unlocked(c) ==
    \A e \in Calls \ {c} : ~(calls[e].holds /\ calls[e].d = calls[c].d)

(* Calls with a connection of the pool: a transaction keeps its own until it *)
(* ends, a save outside of one from its SELECT to its UPDATE.                *)
Connected ==
    {c \in Calls : \/ InTransaction(c) /\ calls[c].at \notin {"idle", "read"}
                   \/ calls[c].at = "write"}

(* A query outside of any transaction gets a connection. *)
FreeConnection == Cardinality(Connected) < Connections

(* Call c is at a query for which it needs a connection. *)
NeedsConnection(c) ==
    calls[c].at \in {"read", "insert"} \/ (calls[c].at = "save" /\ ~InTransaction(c))

(* Mutant: a call that is over never gives its slot back. *)
NeverReturn(c) == calls' = [calls EXCEPT ![c].at = "over"]

(* The call is over. *)
Return(c) == calls' = [calls EXCEPT ![c] = NoCall]

-----------------------------------------------------------------------------
(* createDispatch: the INSERT of a pending dispatch. *)
CreateDispatch(d) ==
    /\ rows[d] = NoRow
    /\ rows' = [rows EXCEPT ![d].status = "other"]
    /\ UNCHANGED <<calls, txn, facts, told>>

(* A method is called; s is the status an update asks for. *)
Start(c, op, d, s) ==
    /\ calls[c].at = "idle"
    /\ calls' = [calls EXCEPT ![c] = [NoCall EXCEPT
          !.op = op, !.d = d, !.at = "read",
          !.want = IF op = "update" THEN s ELSE @]]
    /\ UNCHANGED <<rows, txn, facts, told>>

(* Only a dispatch in progress can be completed. *)
Completable(row) == row.status = "in_progress"

(* updateDispatchStatus: findOne, and the asked status set in the entity.    *)
(* Here and below, without the guard the call can only end with an error.    *)
ReadForUpdate(c) ==
    LET row == rows[calls[c].d] IN
    /\ calls[c].at = "read" /\ calls[c].op = "update" /\ FreeConnection
    /\ row # NoRow
    /\ calls' = [calls EXCEPT ![c].at = "save",
                              ![c].ent = [row EXCEPT !.status = calls[c].want]]
    /\ UNCHANGED <<rows, txn, facts, told>>

(* completeDispatch: findOne and the check that the dispatch is in progress. *)
ReadForCompletion(c) ==
    LET row == rows[calls[c].d] IN
    /\ calls[c].at = "read" /\ calls[c].op = "complete" /\ FreeConnection
    /\ Completable(row)
    /\ calls' = [calls EXCEPT ![c].at = "save",
                              ![c].ent = [row EXCEPT !.status = "payment_pending"]]
    /\ UNCHANGED <<rows, txn, facts, told>>

(* verifyDispatchPayment: findOne and the check that there is a payment.     *)
ReadForVerification(c) ==
    LET row == rows[calls[c].d] IN
    /\ calls[c].at = "read" /\ calls[c].op = "verify" /\ FreeConnection
    /\ row.ref
    /\ calls' = [calls EXCEPT ![c].at = "verify_payment", ![c].ent = row]
    /\ UNCHANGED <<rows, txn, facts, told>>

(* The SELECT of save. *)
Diff(c) ==
    LET k == calls[c] IN
    /\ k.at \in {"save", "save_ref"}
    /\ NeedsConnection(c) => FreeConnection
    /\ calls' = [calls EXCEPT
          ![c].at = IF k.at = "save" THEN "write" ELSE "write_ref",
          ![c].cols = {x \in Column : k.ent[x] # Visible(c)[x]}]
    /\ UNCHANGED <<rows, txn, facts, told>>

(* The entity has its user, to whose address a mail would go: only           *)
(* completeDispatch reads the relation.                                      *)
HasAddress(c) == InTransaction(c) /\ calls[c].d \in Addressed

(* sendStatusUpdate after an update, sendPaymentNotification in a            *)
(* completion, sendPaymentConfirmation after a verification: nothing is sent *)
(* when the entity comes without its user, or the user has no address.       *)
Tell(c) ==
    LET what == CASE calls[c].op = "update" -> "status"
                  [] calls[c].op = "complete" -> "payment"
                  [] calls[c].op = "verify" -> "confirmation"
    IN  told' = IF HasAddress(c) THEN told \cup {<<calls[c].d, what>>} ELSE told

(* Mutant: every save commits, as it would without the transaction. *)
AutocommitAlways(c, new) ==
    /\ rows' = [rows EXCEPT ![calls[c].d] = new]
    /\ IF InTransaction(c)
       THEN calls' = [calls EXCEPT
               ![c].at = IF calls[c].at = "write" THEN "gateway" ELSE "notify",
               ![c].cols = {}]
       ELSE Return(c)
    /\ UNCHANGED told

(* Where the UPDATE of save goes: into the open transaction, which from then *)
(* on holds the lock, or, outside of one, straight into the table, and the   *)
(* call has no more state to change. Nothing is sent if no column differs.   *)
(* A call outside of one then tells the user, and returns.                   *)
Store(c, new) ==
    IF InTransaction(c)
    THEN /\ calls' = [calls EXCEPT
               ![c].at = IF calls[c].at = "write" THEN "gateway" ELSE "notify",
               ![c].holds = @ \/ calls[c].cols # {},
               ![c].work = IF calls[c].cols = {} THEN @ ELSE new,
               ![c].cols = {}]
         /\ UNCHANGED <<rows, told>>
    ELSE /\ rows' = [rows EXCEPT ![calls[c].d] = new]
         /\ Tell(c)
         /\ Return(c)

(* The UPDATE of save: it waits for the lock, then sets the columns found to *)
(* differ in the row as it is by then.                                       *)
Write(c) ==
    LET k == calls[c] IN
    /\ k.at \in {"write", "write_ref"}
    /\ k.cols = {} \/ Unlocked(c)
    /\ Store(c, [x \in Column |-> IF x \in k.cols THEN k.ent[x] ELSE Visible(c)[x]])
    /\ UNCHANGED <<txn, facts>>

(* Mutant: the result of initializePayment is not checked. *)
AssumePaymentOpened(c) ==
    /\ calls[c].at = "gateway"
    /\ calls' = [calls EXCEPT ![c].at = "save_ref", ![c].ent.ref = TRUE]
    /\ UNCHANGED <<rows, txn, facts, told>>

(* initializePayment, first half: the gateway opens the payment. *)
OpenPayment(c) ==
    LET d == calls[c].d IN
    /\ calls[c].at = "gateway"
    /\ facts' = [facts EXCEPT ![d] = @ \cup {"opened"}]
    /\ calls' = [calls EXCEPT ![c].at = "insert"]
    /\ UNCHANGED <<rows, txn, told>>

(* Mutant: no unique index on the column reference. *)
NoUniqueIndex(d) == TRUE

Insertable(d) == txn[d] = "none"

(* initializePayment, second half: the payment row, committed at once by the *)
(* payment service's own repository; then the entity gets its payment data.  *)
InsertPayment(c) ==
    LET d == calls[c].d IN
    /\ calls[c].at = "insert" /\ FreeConnection
    /\ Insertable(d)
    /\ txn' = [txn EXCEPT ![d] = "pending"]
    /\ calls' = [calls EXCEPT ![c].at = "save_ref", ![c].ent.ref = TRUE]
    /\ UNCHANGED <<rows, facts, told>>

(* sendPaymentNotification: the mail. The SMS after it, for who has a number, *)
(* and the commit may both still fail.                                       *)
Notify(c) ==
    /\ calls[c].at = "notify"
    /\ Tell(c)
    /\ calls' = [calls EXCEPT ![c].at = "commit"]
    /\ UNCHANGED <<rows, txn, facts>>

(* Mutant: the connection goes back to the pool with its lock. *)
CommitLocked(c) ==
    /\ calls[c].at = "commit"
    /\ rows' = [rows EXCEPT ![calls[c].d] = Visible(c)]
    /\ calls' = [calls EXCEPT ![c].at = "idle"]
    /\ UNCHANGED <<txn, facts, told>>

(* The transaction commits and its lock is released. *)
Commit(c) ==
    /\ calls[c].at = "commit"
    /\ rows' = [rows EXCEPT ![calls[c].d] = Visible(c)]
    /\ Return(c)
    /\ UNCHANGED <<txn, facts, told>>

(* Mutant: any answer of verifyPayment is taken for a payment. *)
AnyAnswerPays(d) == "opened" \in facts[d]

(* verifyPayment can report a success. *)
ReportsSuccess(d) == "charged" \in facts[d]

(* verifyDispatchPayment: verifyPayment reports a success, having recorded   *)
(* it in the payment row; the entity is marked paid. The report and its      *)
(* record are one step because what is reported stays true in between.       *)
(* Without a success the method returns and changes nothing.                 *)
VerifyPayment(c) ==
    LET d == calls[c].d IN
    /\ calls[c].at = "verify_payment" /\ FreeConnection
    /\ ReportsSuccess(d)
    /\ txn' = [txn EXCEPT ![d] = IF @ = "none" THEN @ ELSE "success"]
    /\ calls' = [calls EXCEPT ![c].at = "save",
                              ![c].ent = [@ EXCEPT !.status = "payment_completed",
                                                   !.verified = TRUE]]
    /\ UNCHANGED <<rows, facts, told>>

(* The call waits in PostgreSQL for a row lock, or in pg's pool for a        *)
(* connection.                                                               *)
Waiting(c) ==
    \/ calls[c].at \in {"write", "write_ref"} /\ ~Unlocked(c)
    \/ NeedsConnection(c) /\ ~FreeConnection

(* Mutant: the catch block's save is not part of the transaction. *)
FailOutside(c) ==
    /\ calls[c].at # "idle" /\ ~Waiting(c)
    /\ Return(c)
    /\ rows' = IF InTransaction(c) /\ calls[c].at # "read"
               THEN [rows EXCEPT ![calls[c].d] = [calls[c].ent EXCEPT !.status = "in_progress"]]
               ELSE rows
    /\ UNCHANGED <<txn, facts, told>>

(* Any await may throw instead: a failed check, query, gateway call, mail,   *)
(* SMS or commit ends the call. In completeDispatch the catch block saves    *)
(* the status set back, and rethrows. That save is awaited, but it is made   *)
(* in the transaction that is rolled back next, and nobody else sees it:     *)
(* save and rollback are one step here. Only who waits for a lock or for a   *)
(* connection waits until it is granted: no timeout is set for either.       *)
Fail(c) ==
    /\ calls[c].at # "idle" /\ ~Waiting(c)
    /\ Return(c)
    /\ UNCHANGED <<rows, txn, facts, told>>

(* The process dies: open transactions are rolled back. *)
Crash ==
    /\ calls' = [c \in Calls |-> NoCall]
    /\ UNCHANGED <<rows, txn, facts, told>>

(* Everything else that happens to a payment, by the ledger's word: the      *)
(* customer pays or is declined, the merchant refunds, and webhooks and      *)
(* verifications of the payment component record it. Nobody but             *)
(* completeDispatch initialises a payment under a reference DSP_<id>.        *)
Payments ==
    /\ \E d \in Dispatches :
          \/ \E f \in {"charged", "declined", "refunded"} : Ledger!Happen(d, f)
          \/ \E s \in Ledger!Status : Ledger!Record(d, s)
    /\ UNCHANGED <<rows, calls, told>>

-----------------------------------------------------------------------------
Init ==
    /\ rows = [d \in Dispatches |-> NoRow]
    /\ calls = [c \in Calls |-> NoCall]
    /\ told = {}
    /\ Ledger!LedgerInit

Step(c) ==
    \/ ReadForUpdate(c) \/ ReadForCompletion(c) \/ ReadForVerification(c)
    \/ Diff(c) \/ Write(c)
    \/ OpenPayment(c) \/ InsertPayment(c) \/ Notify(c) \/ Commit(c)
    \/ VerifyPayment(c)
    \/ Fail(c)

Next ==
    \/ \E d \in Dispatches : CreateDispatch(d)
    \/ \E c \in Calls, op \in Op, d \in Dispatches, s \in Wanted :
          Start(c, op, d, s)
    \/ \E c \in Calls : Step(c)
    \/ Payments
    \/ Crash

Spec == Init /\ [][Next]_vars

(* Node resumes a call when what it awaits is there, every await answers or  *)
(* fails, and PostgreSQL grants a row lock in the order of the requests.     *)
FairSpec == Spec /\ \A c \in Calls : WF_vars(Step(c)) /\ SF_vars(Write(c))

-----------------------------------------------------------------------------
(* Every variable has its type. *)
TypeOK ==
    /\ rows \in [Dispatches -> Row]
    /\ calls \in [Calls -> Call]
    /\ told \subseteq Dispatches \X {"status", "payment", "confirmation"}
    /\ Ledger!LedgerTypeOK

(* A dispatch that carries a payment reference has a payment row, although   *)
(* the two are written by different transactions.                            *)
ReferenceHasPayment ==
    \A d \in Dispatches : rows[d].ref => txn[d] # "none"

(* Who was mailed a payment link can pay and be recorded as having paid:     *)
(* the mail leaves before the commit and stays sent when the completion is   *)
(* rolled back after all, but the payment's row stays, too.                  *)
LinkIsPayable ==
    \A d \in Dispatches :
        <<d, "payment">> \in told => "opened" \in facts[d] /\ txn[d] # "none"

(* A dispatch marked verified was really charged, however stale the entity   *)
(* that carried the mark into the table.                                     *)
VerifiedIsPaid ==
    \A d \in Dispatches : rows[d].verified => "charged" \in facts[d]

(* Past the payment, a completion is alone with its dispatch: no other one   *)
(* is on its way to commit, and none has committed before.                   *)
Completing(c) == calls[c].at \in {"save_ref", "write_ref", "notify", "commit"}

CompletedOnce ==
    \A c \in Calls : Completing(c) =>
        /\ ~rows[calls[c].d].ref
        /\ \A e \in Calls \ {c} : Completing(e) => calls[e].d # calls[c].d

(* What a completion publishes, it publishes in one step, and with its       *)
(* payment reference.                                                        *)
PublishedTogether ==
    [][\A d \in Dispatches :
          /\ rows'[d] # rows[d]
          /\ \E c \in Calls : InTransaction(c) /\ calls[c].d = d /\ calls'[c] # calls[c]
          => rows'[d].ref]_vars

(* A payment reference, once committed, is erased by nothing but a status    *)
(* update whose entity was read before the commit.                           *)
OnlyStaleUpdateErases ==
    [][\A d \in Dispatches : rows[d].ref /\ ~rows'[d].ref =>
          \E c \in Calls : /\ calls[c].op = "update" /\ calls[c].d = d
                           /\ calls[c].at = "write" /\ ~calls[c].ent.ref]_vars

(* Nobody waits for a row lock forever: with a connection to spare, every    *)
(* call ends.                                                                *)
CallsFinish == \A c \in Calls : calls[c].at # "idle" ~> calls[c].at = "idle"

(* completeDispatch "@returns The updated dispatch with payment information" *)
(* (dispatch.service.ts 201), or throws: it ends.                            *)
CompletionReturns ==
    \A c \in Calls : InTransaction(c) /\ calls[c].at # "idle" ~> calls[c].at = "idle"

(* "Use transaction to ensure data consistency" (dispatch.service.ts 206):   *)
(* with no call under way, a dispatch whose payment was created carries its  *)
(* reference.                                                                *)
DataConsistency ==
    \A d \in Dispatches :
        txn[d] # "none" /\ (\A c \in Calls : calls[c].at # "idle" => calls[c].d # d)
            => rows[d].ref

=============================================================================
