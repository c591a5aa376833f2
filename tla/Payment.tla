------------------------------ MODULE Payment ------------------------------
(***************************************************************************)
(* PaymentController and PaymentService over the table transactions and    *)
(* the Paystack gateway (src/src/payment).                                 *)
(*                                                                         *)
(* A request is a process: it runs from one await to the next, so every    *)
(* database statement and every gateway call is a step, and between two    *)
(* steps other requests, webhooks, customers and crashes may intervene.    *)
(* What a request keeps in local variables across an await is kept here in *)
(* its record, which is how a stale answer comes to be written later.      *)
(***************************************************************************)
EXTENDS Naturals

CONSTANTS
    Refs,           \* payment references
    Calls,          \* slots for requests being served; a slot is reused
    VerifyRetries,  \* retryOperation's maxRetries in verifyPayment (3)
    RefundRetries,  \* retryOperation's maxRetries in refundPayment (2)
    MaxRefunds      \* refunds the gateway accepts for one reference at most:
                    \* partial refunds until the amount is used up

ASSUME PaymentAssumption ==
    /\ Refs # {}
    /\ VerifyRetries \in Nat
    /\ RefundRetries \in Nat
    /\ MaxRefunds \in Nat

VARIABLES
    txn,      \* txn[r]: status of the row of r in transactions, or "none"
    facts,    \* facts[r]: what has happened to r at the gateway
    refunds,  \* refunds[r]: refunds of r the gateway accepted from us
    calls     \* calls[c]: the request in slot c

vars == <<txn, facts, refunds, calls>>

Ledger == INSTANCE PaymentLedger

Fact == Ledger!Fact
Status == Ledger!Status
Backs(F, s) == Ledger!Backs(F, s)

-----------------------------------------------------------------------------
(***************************************************************************)
(* A request: the operation, its reference, where it stands (at), the      *)
(* failed attempts of the retry loop it is in (tries), the status the      *)
(* gateway reported to it (seen), and its answer once it is at "done":     *)
(* "error", "created" for an initialisation, or the status it reports.     *)
(***************************************************************************)
Op == {"init", "details", "verify", "refund"}
Report == {"success", "failed", "other"}
Answer == {"none", "error", "created"} \cup Status \cup Report
At == {"idle", "init_check", "init_gateway", "init_save", "details_read",
       "refund_check", "verify_call", "verify_write", "refund_call",
       "refund_write", "done"}

Call == [op : Op, ref : Refs, at : At, tries : Nat,
         seen : Report \cup {"none"}, answer : Answer]

NoCall == [op |-> "verify", ref |-> CHOOSE r \in Refs : TRUE, at |-> "idle",
           tries |-> 0, seen |-> "none", answer |-> "none"]

FirstStep(op) == CASE op = "init"    -> "init_check"
                   [] op = "details" -> "details_read"
                   [] op = "verify"  -> "verify_call"
                   [] op = "refund"  -> "refund_check"

(* Request c moves on to step s, entering it with a fresh retry count. *)
Goto(c, s) == calls' = [calls EXCEPT ![c] = [@ EXCEPT !.at = s, !.tries = 0]]

(* Request c is about to answer with a. *)
Reply(c, a) ==
    calls' = [calls EXCEPT ![c] = [@ EXCEPT !.at = "done", !.tries = 0,
                                            !.seen = "none", !.answer = a]]

(* Mutant: the loop of retryOperation starts over instead of giving up. *)
RetryForever(c, maxRetries) ==
    calls' = [calls EXCEPT ![c].tries = IF @ < maxRetries THEN @ + 1 ELSE 0]

(* An attempt of the loop retryOperation failed: the next one, or, after    *)
(* the last, the error, which handlePaymentError turns into an answer.      *)
Retry(c, maxRetries) ==
    \/ /\ calls[c].tries < maxRetries
       /\ calls' = [calls EXCEPT ![c].tries = @ + 1]
    \/ /\ calls[c].tries >= maxRetries
       /\ Reply(c, "error")

(* Mutant: the update inserts the row when it is missing. *)
UpsertRow(r, s) == txn' = [txn EXCEPT ![r] = s]

(* UPDATE transactions SET status = s WHERE reference = r: without a row it *)
(* changes nothing and does not fail.                                       *)
UpdateRow(r, s) ==
    txn' = [txn EXCEPT ![r] = IF @ = "none" THEN @ ELSE s]

-----------------------------------------------------------------------------
(* A client sends a request; the controller's method begins. *)
Start(c, op, r) ==
    /\ calls[c].at = "idle"
    /\ calls' = [calls EXCEPT ![c] = [op |-> op, ref |-> r, at |-> FirstStep(op),
                                      tries |-> 0, seen |-> "none", answer |-> "none"]]
    /\ UNCHANGED <<txn, facts, refunds>>

(* What the lookup of a reference may return: the status of its row, or      *)
(* null, which is the answer to a failed query as well as to a missing row.  *)
FindTransactionByReference(r) == {txn[r], "none"}

(* The controller looks the reference up: a row is a conflict. *)
InitCheck(c) ==
    /\ calls[c].at = "init_check"
    /\ \E found \in FindTransactionByReference(calls[c].ref) :
          \/ found = "none" /\ Goto(c, "init_gateway")
          \/ found # "none" /\ Reply(c, "error")
    /\ UNCHANGED <<txn, facts, refunds>>

(* transaction.initialize, called once. The gateway may take the request and *)
(* answer, take it while its answer is lost or unusable, or refuse it.       *)
InitGateway(c) ==
    LET r == calls[c].ref IN
    /\ calls[c].at = "init_gateway"
    /\ \/ /\ facts' = [facts EXCEPT ![r] = @ \cup {"opened"}]
          /\ Goto(c, "init_save") \/ Reply(c, "error")
       \/ /\ Reply(c, "error")
          /\ UNCHANGED facts
    /\ UNCHANGED <<txn, refunds>>

(* Mutant: no unique index on the column reference. *)
NoUniqueIndex(r) == TRUE

(* The column reference is unique: the INSERT fails when r has a row. *)
Insertable(r) == txn[r] = "none"

(* INSERT of the pending row. *)
InitSave(c) ==
    LET r == calls[c].ref IN
    /\ calls[c].at = "init_save"
    /\ \/ /\ Insertable(r)
          /\ txn' = [txn EXCEPT ![r] = "pending"]
          /\ Reply(c, "created")
       \/ Reply(c, "error") /\ UNCHANGED txn
    /\ UNCHANGED <<facts, refunds>>

(* getPaymentDetails: a settled row is the answer, a pending one is verified. *)
DetailsRead(c) ==
    LET s == txn[calls[c].ref] IN
    /\ calls[c].at = "details_read"
    /\ \/ s = "pending" /\ Goto(c, "verify_call")
       \/ s \notin {"none", "pending"} /\ Reply(c, s)
       \/ Reply(c, "error")  \* no row, or the query failed
    /\ UNCHANGED <<txn, facts, refunds>>

(* What the gateway's verify may say of a reference with history F: a charge *)
(* that was refunded in full is no longer reported as a success.             *)
ReportsOf(F) ==
    {s \in Report :
        \/ s = "success" /\ "charged" \in F
        \/ s = "failed"  /\ "declined" \in F /\ "charged" \notin F
        \/ s = "other"   /\ "opened" \in F
                         /\ ("charged" \notin F \/ "refunded" \in F)}

(* transaction.verify under retryOperation. *)
VerifyCall(c) ==
    /\ calls[c].at = "verify_call"
    /\ \/ \E s \in ReportsOf(facts[calls[c].ref]) :
            calls' = [calls EXCEPT ![c] = [@ EXCEPT !.at = "verify_write",
                                                    !.tries = 0, !.seen = s]]
       \/ Reply(c, "error")          \* an answer without data
       \/ Retry(c, VerifyRetries)    \* the call threw
    /\ UNCHANGED <<txn, facts, refunds>>

(* Mutants: any status that is not a failure taken for a success, and the   *)
(* gateway's own word stored as it came.                                     *)
NotFailedIsSuccess(s) == IF s = "failed" THEN "failed" ELSE "success"
RawStatus(s) == s

(* The status verifyPayment writes for the gateway's report. *)
RowStatus(s) == IF s = "other" THEN "pending" ELSE s

(* The reported status is written, whatever the row holds by now; then       *)
(* verifyPayment's answer goes to the client or, inside refundPayment, back  *)
(* to the caller, which goes on only with a success.                         *)
VerifyWrite(c) ==
    LET s == calls[c].seen IN
    /\ calls[c].at = "verify_write"
    /\ \/ /\ UpdateRow(calls[c].ref, RowStatus(s))
          /\ IF calls[c].op # "refund" THEN Reply(c, s)
             ELSE IF s = "success" THEN Goto(c, "refund_call")
             ELSE Reply(c, "error")
       \/ Reply(c, "error") /\ UNCHANGED txn  \* the UPDATE failed
    /\ UNCHANGED <<facts, refunds>>

(* Mutant: a refund needs no more than a row. *)
RefundUnchecked(c) ==
    /\ calls[c].at = "refund_check"
    /\ txn[calls[c].ref] # "none"
    /\ Goto(c, "refund_call")
    /\ UNCHANGED <<txn, facts, refunds>>

(* The controller's precondition of a refund. *)
RefundCheck(c) ==
    /\ calls[c].at = "refund_check"
    /\ \E found \in FindTransactionByReference(calls[c].ref) :
          \/ found = "success" /\ Goto(c, "verify_call")
          \/ found # "success" /\ Reply(c, "error")
    /\ UNCHANGED <<txn, facts, refunds>>

(* The gateway accepts a refund of r. It is not assumed to check anything   *)
(* but the amount: that r was charged is for the service to make sure of.   *)
AcceptRefund(r) ==
    /\ refunds[r] < MaxRefunds
    /\ refunds' = [refunds EXCEPT ![r] = @ + 1]
    /\ facts' = [facts EXCEPT ![r] = @ \cup {"refunded"}]

(* refund.create under retryOperation. An attempt whose answer is lost       *)
(* counts as failed and is repeated although the gateway has accepted it.    *)
RefundCall(c) ==
    /\ calls[c].at = "refund_call"
    /\ \/ /\ AcceptRefund(calls[c].ref)
          /\ \/ Goto(c, "refund_write")
             \/ Reply(c, "error")         \* an answer without data or status
             \/ Retry(c, RefundRetries)   \* the answer is lost
       \/ /\ Reply(c, "error") \/ Retry(c, RefundRetries)
          /\ UNCHANGED <<refunds, facts>>
    /\ UNCHANGED txn

RefundWrite(c) ==
    /\ calls[c].at = "refund_write"
    /\ \/ UpdateRow(calls[c].ref, "refunded") /\ Reply(c, "refunded")
       \/ Reply(c, "error") /\ UNCHANGED txn
    /\ UNCHANGED <<facts, refunds>>

(* The response leaves and the slot is free. *)
Respond(c) ==
    /\ calls[c].at = "done"
    /\ calls' = [calls EXCEPT ![c] = NoCall]
    /\ UNCHANGED <<txn, facts, refunds>>

-----------------------------------------------------------------------------
(***************************************************************************)
(* Webhooks. The gateway sends an event for each thing that happened;      *)
(* deliveries may be lost, repeated and reordered, so any fact may be      *)
(* delivered at any time. Anybody else may call the endpoint too, with any *)
(* payload. An event that is refused, here or by the validation of its     *)
(* payload, and an update that fails, which is swallowed, change nothing:  *)
(* they are steps that stutter. Events of other kinds leave the status     *)
(* alone.                                                                  *)
(***************************************************************************)
EventFact == {"charged", "declined", "refunded"}

(* A request to the endpoint: what its payload says of which reference, its  *)
(* signature header (missing, the HMAC under our key of the payload as the   *)
(* service writes it out again, or anything else), and whether its address   *)
(* is one of the gateway's. A genuine event whose text does not survive      *)
(* validation and JSON.stringify has "other", too.                           *)
Event == [ref : Refs, fact : EventFact,
          signature : {"none", "other", "hmac"}, listed : BOOLEAN]

(* Only the gateway has the key besides us, and it signs what happened. *)
Sent(e) == e.signature = "hmac" => e.fact \in facts[e.ref]

(* The list is in the code, and the cached copy of it is the same list. That *)
(* a development build may be told to accept every address is left out.      *)
IsValidPaystackIp(e) == e.listed

TimingSafeEqual(a, b) == a = b

VerifyWebhookSignature(e) == TimingSafeEqual("hmac", e.signature)

EventStatus(f) == CASE f = "charged"  -> "success"
                    [] f = "declined" -> "failed"
                    [] f = "refunded" -> "refunded"

ProcessWebhookEvent(r, f) == UpdateRow(r, EventStatus(f))

Webhook(e) ==
    /\ Sent(e)
    /\ e.signature # "none"
    /\ IsValidPaystackIp(e)
    /\ VerifyWebhookSignature(e)
    /\ ProcessWebhookEvent(e.ref, e.fact)
    /\ UNCHANGED <<facts, refunds, calls>>

(* At the gateway the customer pays, a payment attempt is declined (another *)
(* may follow), or the merchant refunds a charge from the dashboard.        *)
Gateway(r) ==
    /\ \E f \in EventFact :
          /\ IF f = "refunded" THEN "charged" \in facts[r]
                               ELSE "opened" \in facts[r] /\ "charged" \notin facts[r]
          /\ facts' = [facts EXCEPT ![r] = @ \cup {f}]
    /\ UNCHANGED <<txn, refunds, calls>>

(* The process dies and comes back: every request in progress is forgotten. *)
Crash ==
    /\ calls' = [c \in Calls |-> NoCall]
    /\ UNCHANGED <<txn, facts, refunds>>

-----------------------------------------------------------------------------
Init ==
    /\ Ledger!LedgerInit
    /\ refunds = [r \in Refs |-> 0]
    /\ calls = [c \in Calls |-> NoCall]

(* A step of the request in slot c. *)
Step(c) ==
    \/ InitCheck(c) \/ InitGateway(c) \/ InitSave(c)
    \/ DetailsRead(c)
    \/ VerifyCall(c) \/ VerifyWrite(c)
    \/ RefundCheck(c) \/ RefundCall(c) \/ RefundWrite(c)
    \/ Respond(c)

Next ==
    \/ \E c \in Calls, op \in Op, r \in Refs : Start(c, op, r)
    \/ \E c \in Calls : Step(c)
    \/ \E e \in Event : Webhook(e)
    \/ \E r \in Refs : Gateway(r)
    \/ Crash

Spec == Init /\ [][Next]_vars

(* Node resumes a request when what it awaits is there, and a database      *)
(* statement or a gateway call sooner or later answers or fails.            *)
FairSpec == Spec /\ \A c \in Calls : WF_vars(Step(c))

-----------------------------------------------------------------------------
(* Requests are well formed, and no retry count exceeds its limit. *)
RetryLimit(at) == CASE at = "verify_call" -> VerifyRetries
                    [] at = "refund_call" -> RefundRetries
                    [] OTHER -> 0

CallsTyped ==
    /\ calls \in [Calls -> Call]
    /\ \A c \in Calls : calls[c].tries <= RetryLimit(calls[c].at)

(* Every variable has its type: in particular a row's status is one of the   *)
(* four the entity declares.                                                 *)
TypeOK ==
    /\ Ledger!LedgerTypeOK
    /\ refunds \in [Refs -> 0..MaxRefunds]
    /\ CallsTyped

(* A refund reaches the gateway only for a reference that was charged, with  *)
(* the row read before the verification and the verification before the     *)
(* refund, each in a step of its own.                                        *)
RefundOnlyCharged ==
    \A r \in Refs : refunds[r] > 0 => "charged" \in facts[r]

(* Two requests that both passed the lookup of initializePayment are never   *)
(* both told that they created the reference, and whoever is told so has a   *)
(* row.                                                                      *)
CreatedOnce ==
    \A c \in Calls : calls[c].answer = "created" =>
        /\ txn[calls[c].ref] # "none"
        /\ \A d \in Calls \ {c} :
              calls[d].answer = "created" => calls[d].ref # calls[c].ref

(* A settled status in an answer (of a verification, of the row read by      *)
(* getPaymentDetails, of a refund) is something that happened at the         *)
(* gateway, however old the snapshot the answer was made from.               *)
AnswerIsReal ==
    \A c \in Calls : calls[c].answer \in Status =>
        Backs(facts[calls[c].ref], calls[c].answer)

(* The gateway's own order of events, and rows that it bears out. *)
RowInv(r) ==
    /\ txn[r] # "none" => "opened" \in facts[r] /\ Backs(facts[r], txn[r])
    /\ facts[r] \cap {"charged", "declined"} # {} => "opened" \in facts[r]
    /\ "refunded" \in facts[r] => "charged" \in facts[r]
    /\ refunds[r] > 0 => "refunded" \in facts[r]

(* What request c relies on across its awaits: each status it was told or    *)
(* is about to write, refund or report has happened, and stays so.           *)
CallInv(c) ==
    LET k == calls[c]
        F == facts[k.ref]
    IN  /\ k.at = "init_save" => "opened" \in F
        /\ k.at = "verify_write" => Backs(F, RowStatus(k.seen))
        /\ k.at = "refund_call" => "charged" \in F
        /\ k.at = "refund_write" => "refunded" \in F
        /\ k.answer # "none" => k.at = "done"
        /\ k.answer \in Status => Backs(F, k.answer)

(* The inductive invariant behind the safety properties: rows, gateway and   *)
(* the requests in progress agree at every step.                             *)
Consistent ==
    /\ \A r \in Refs : RowInv(r)
    /\ \A c \in Calls : CallInv(c)
    /\ CreatedOnce

(* The service implements the ledger: rows appear once, as pending, after    *)
(* the gateway knows the reference, never disappear, and hold only statuses  *)
(* that happened, whatever the interleaving of requests and webhooks.        *)
LedgerSpec == Ledger!LedgerSpec

(* Every request is answered, or lost in a crash: retries end.               *)
CallsFinish ==
    \A c \in Calls : calls[c].at # "idle" ~> calls[c].at = "idle"

(* "Only successful transactions can be refunded" (payment.controller.ts     *)
(* 188): the gateway accepts a refund only while the row says success. The   *)
(* code checks before two awaits, and does not look again.                   *)
OnlySuccessfulRefunded ==
    [][\A r \in Refs : refunds'[r] # refunds[r] => txn[r] = "success"]_vars

=============================================================================
