--------------------------- MODULE PaymentProofs ---------------------------
(***************************************************************************)
(* Theorems about Payment, for every set of references and of request      *)
(* slots, every number of retries and every refund limit.                  *)
(***************************************************************************)
EXTENDS Payment, TLAPS



(* An idle slot holds a well-formed request. *)
LEMMA NoCallType == NoCall \in Call /\ NoCall.at = "idle" /\ NoCall.tries = 0
                    /\ NoCall.seen = "none" /\ NoCall.answer = "none"
  <1>1. (CHOOSE r \in Refs : TRUE) \in Refs
    BY PaymentAssumption
  <1> QED
    BY <1>1 DEF NoCall, Call, Op, At, Answer

LEMMA TypeInit == Init => TypeOK
  BY NoCallType, PaymentAssumption
  DEF Init, TypeOK, CallsTyped, RetryLimit, Ledger!LedgerInit,
      Ledger!LedgerTypeOK, Ledger!Fact

LEMMA RetryLimitNat == ASSUME NEW s PROVE RetryLimit(s) \in Nat
  BY PaymentAssumption DEF RetryLimit

(* Replacing a request by a well-formed one keeps the requests well formed; *)
(* the ways a request moves on are instances of it.                         *)
LEMMA CallType ==
  ASSUME CallsTyped, NEW c \in Calls, NEW k \in Call, k.tries <= RetryLimit(k.at),
         calls' = [calls EXCEPT ![c] = k]
  PROVE  CallsTyped'
  <1>1. calls' \in [Calls -> Call]
    BY DEF CallsTyped
  <1>2. \A d \in Calls : calls'[d] = IF d = c THEN k ELSE calls[d]
    BY DEF CallsTyped
  <1> QED
    BY <1>1, <1>2 DEF CallsTyped

LEMMA GotoType ==
  ASSUME CallsTyped, NEW c \in Calls, NEW s \in At, Goto(c, s)
  PROVE  CallsTyped'
  <1> DEFINE k == [calls[c] EXCEPT !.at = s, !.tries = 0]
  <1>1. k \in Call /\ k.at = s /\ k.tries = 0
    BY DEF CallsTyped, Call
  <1>2. k.tries <= RetryLimit(k.at)
    BY <1>1, RetryLimitNat
  <1>3. calls' = [calls EXCEPT ![c] = k]
    BY DEF Goto
  <1> QED
    BY <1>1, <1>2, <1>3, CallType

LEMMA ReplyType ==
  ASSUME CallsTyped, NEW c \in Calls, NEW a \in Answer, Reply(c, a)
  PROVE  CallsTyped'
  <1> DEFINE k == [calls[c] EXCEPT !.at = "done", !.tries = 0,
                                   !.seen = "none", !.answer = a]
  <1>1. k \in Call /\ k.at = "done" /\ k.tries = 0
    BY DEF CallsTyped, Call, At
  <1>2. k.tries <= RetryLimit(k.at)
    BY <1>1, RetryLimitNat
  <1>3. calls' = [calls EXCEPT ![c] = k]
    BY DEF Reply
  <1> QED
    BY <1>1, <1>2, <1>3, CallType

LEMMA RetryType ==
  ASSUME CallsTyped, NEW c \in Calls, NEW m \in Nat,
         m = RetryLimit(calls[c].at), Retry(c, m)
  PROVE  CallsTyped'
  <1>1. CASE Reply(c, "error")
    BY <1>1, ReplyType DEF Answer
  <1>2. CASE calls[c].tries < m /\ calls' = [calls EXCEPT ![c].tries = @ + 1]
    <2>1. calls[c] \in Call /\ calls[c].tries \in Nat
      BY DEF CallsTyped, Call
    <2>2. calls[c].tries + 1 <= m /\ calls[c].tries + 1 \in Nat
      BY <1>2, <2>1
    <2> QED
      BY <1>2, <2>1, <2>2 DEF CallsTyped, RetryLimit, Call
  <1> QED
    BY <1>1, <1>2 DEF Retry

LEMMA TypeNext == TypeOK /\ [Next]_vars => TypeOK'
  <1> SUFFICES ASSUME TypeOK, [Next]_vars PROVE TypeOK'
    OBVIOUS
  <1>0. CallsTyped
    BY DEF TypeOK
  <1>t. /\ \A s \in {"init_gateway", "init_save", "verify_call", "verify_write",
                     "refund_call", "refund_write"} : s \in At
        /\ {"error", "created"} \cup Status \cup Report \subseteq Answer
    BY DEF At, Answer
  <1>c. \A c \in Calls : calls[c].ref \in Refs /\ calls[c].seen \in Report \cup {"none"}
    BY <1>0 DEF CallsTyped, Call
  <1> USE PaymentAssumption
      DEF TypeOK, Ledger!LedgerTypeOK, Fact, Status, Ledger!Fact, Ledger!Status
  <1>1. ASSUME NEW c \in Calls, NEW op \in Op, NEW r \in Refs, Start(c, op, r)
        PROVE  TypeOK'
    <2>1. FirstStep(op) \in At
      BY DEF FirstStep, Op, At
    <2>2. FirstStep(op) \notin {"verify_call", "refund_call"} => RetryLimit(FirstStep(op)) = 0
      BY DEF RetryLimit
    <2> QED
      BY <1>0, <1>1, <2>1, <2>2 DEF Start, CallsTyped, RetryLimit, Call, Answer
  <1>2. ASSUME NEW c \in Calls, InitCheck(c) PROVE TypeOK'
    BY <1>0, <1>t, <1>2, GotoType, ReplyType DEF InitCheck
  <1>3. ASSUME NEW c \in Calls, InitGateway(c) PROVE TypeOK'
    BY <1>0, <1>t, <1>c, <1>3, GotoType, ReplyType DEF InitGateway
  <1>4. ASSUME NEW c \in Calls, InitSave(c) PROVE TypeOK'
    BY <1>0, <1>t, <1>4, ReplyType DEF InitSave
  <1>5. ASSUME NEW c \in Calls, DetailsRead(c) PROVE TypeOK'
    BY <1>0, <1>t, <1>c, <1>5, GotoType, ReplyType DEF DetailsRead
  <1>6. ASSUME NEW c \in Calls, VerifyCall(c) PROVE TypeOK'
    <2>1. ASSUME NEW s \in Report,
                 calls' = [calls EXCEPT ![c] = [@ EXCEPT !.at = "verify_write",
                                                         !.tries = 0, !.seen = s]]
          PROVE  CallsTyped'
      <3> DEFINE k == [calls[c] EXCEPT !.at = "verify_write", !.tries = 0, !.seen = s]
      <3>1. k \in Call /\ k.tries = 0 /\ calls' = [calls EXCEPT ![c] = k]
        BY <1>0, <1>t, <2>1 DEF CallsTyped, Call
      <3>2. k.tries <= RetryLimit(k.at)
        BY <3>1, RetryLimitNat
      <3> QED
        BY <1>0, <3>1, <3>2, CallType
    <2>2. Retry(c, VerifyRetries) => CallsTyped'
      BY <1>0, <1>6, RetryType DEF VerifyCall, RetryLimit
    <2> QED
      BY <1>0, <1>t, <1>6, <2>1, <2>2, ReplyType DEF VerifyCall, ReportsOf
  <1>7. ASSUME NEW c \in Calls, VerifyWrite(c) PROVE TypeOK'
    <2>1. RowStatus(calls[c].seen) \in Status \cup {"none"}
      BY <1>c DEF RowStatus, Report
    <2>2. Ledger!LedgerTypeOK' /\ refunds' = refunds
      BY <1>7, <1>c, <2>1 DEF VerifyWrite, UpdateRow
    <2>3. Goto(c, "refund_call") \/ \E a \in Answer : Reply(c, a)
      BY <1>7, <1>c, <1>t DEF VerifyWrite, Answer
    <2> QED
      BY <1>0, <1>t, <2>2, <2>3, GotoType, ReplyType
  <1>8. ASSUME NEW c \in Calls, RefundCheck(c) PROVE TypeOK'
    BY <1>0, <1>t, <1>8, GotoType, ReplyType DEF RefundCheck
  <1>9. ASSUME NEW c \in Calls, RefundCall(c) PROVE TypeOK'
    <2>1. Retry(c, RefundRetries) => CallsTyped'
      BY <1>0, <1>9, RetryType DEF RefundCall, RetryLimit
    <2>2. CallsTyped'
      BY <1>0, <1>t, <1>9, <2>1, GotoType, ReplyType DEF RefundCall
    <2>3. Ledger!LedgerTypeOK' /\ refunds' \in [Refs -> 0..MaxRefunds]
      BY <1>9, <1>c DEF RefundCall, AcceptRefund
    <2> QED
      BY <2>2, <2>3
  <1>10. ASSUME NEW c \in Calls, RefundWrite(c) PROVE TypeOK'
    BY <1>0, <1>t, <1>c, <1>10, ReplyType DEF RefundWrite, UpdateRow
  <1>11. ASSUME NEW c \in Calls, Respond(c) PROVE TypeOK'
    BY <1>0, <1>11, NoCallType DEF Respond, CallsTyped, RetryLimit
  <1>12. ASSUME NEW e \in Event, Webhook(e) PROVE TypeOK'
    BY <1>12 DEF Webhook, Event, EventFact, ProcessWebhookEvent, EventStatus, UpdateRow,
                 CallsTyped
  <1>13. ASSUME NEW r \in Refs, Gateway(r) PROVE TypeOK'
    BY <1>13 DEF Gateway, EventFact, CallsTyped
  <1>14. CASE Crash
    BY <1>14, NoCallType DEF Crash, CallsTyped, RetryLimit
  <1>15. CASE UNCHANGED vars
    BY <1>15 DEF vars, CallsTyped
  <1> QED
    BY <1>1, <1>2, <1>3, <1>4, <1>5, <1>6, <1>7, <1>8, <1>9, <1>10, <1>11,
       <1>12, <1>13, <1>14, <1>15 DEF Next, Step

(* Payment keeps its type: in particular no retry loop exceeds its limit and *)
(* no status outside the entity's four is ever stored.                       *)
THEOREM TypeCorrect == Spec => []TypeOK
  BY TypeInit, TypeNext, PTL DEF Spec

-----------------------------------------------------------------------------
(* The safety properties. Consistent is inductive relative to TypeOK; that   *)
(* each step is a step of the ledger is proved first and gives the rows.     *)

LEMMA BacksGrow ==
  ASSUME NEW F, NEW G, F \subseteq G, NEW s, Backs(F, s)
  PROVE  Backs(G, s)
  BY DEF Backs, Ledger!Backs

LEMMA UpdateRefines ==
  ASSUME TypeOK, NEW r \in Refs, NEW s \in Status, Backs(facts[r], s),
         UpdateRow(r, s), UNCHANGED facts
  PROVE  [Ledger!LedgerNext]_(Ledger!ledgerVars)
  <1> USE DEF TypeOK, Ledger!LedgerTypeOK
  <1>1. CASE txn[r] = "none"
    BY <1>1 DEF UpdateRow, Ledger!ledgerVars
  <1>2. CASE txn[r] # "none"
    <2>1. Ledger!Record(r, s)
      BY <1>2 DEF UpdateRow, Ledger!Record, Backs
    <2> QED
      BY <2>1 DEF Ledger!LedgerNext, Status
  <1> QED
    BY <1>1, <1>2

LEMMA HappenRefines ==
  ASSUME NEW r \in Refs, NEW f \in Fact,
         f \in {"charged", "declined"} => "opened" \in facts[r],
         f = "refunded" => "charged" \in facts[r],
         facts' = [facts EXCEPT ![r] = @ \cup {f}], UNCHANGED txn
  PROVE  [Ledger!LedgerNext]_(Ledger!ledgerVars)
  <1>1. Ledger!Happen(r, f)
    BY DEF Ledger!Happen
  <1> QED
    BY <1>1 DEF Ledger!LedgerNext, Fact

(* Each step of the service is a step of the ledger or leaves it alone. *)
LEMMA StepRefines ==
  ASSUME TypeOK, Consistent, [Next]_vars
  PROVE  [Ledger!LedgerNext]_(Ledger!ledgerVars)
  <1>c. \A c \in Calls : /\ calls[c].ref \in Refs
                         /\ calls[c].seen \in Report \cup {"none"}
                         /\ CallInv(c)
    BY DEF TypeOK, CallsTyped, Call, Consistent
  <1>r. \A r \in Refs : RowInv(r)
    BY DEF Consistent
  <1>1. ASSUME NEW c \in Calls, InitGateway(c)
        PROVE  [Ledger!LedgerNext]_(Ledger!ledgerVars)
    <2>1. CASE UNCHANGED <<txn, facts>>
      BY <2>1 DEF Ledger!ledgerVars
    <2>2. CASE facts' = [facts EXCEPT ![calls[c].ref] = @ \cup {"opened"}]
      BY <1>1, <1>c, <2>2, HappenRefines DEF InitGateway, Fact, Ledger!Fact
    <2> QED
      BY <1>1, <2>1, <2>2 DEF InitGateway
  <1>2. ASSUME NEW c \in Calls, InitSave(c)
        PROVE  [Ledger!LedgerNext]_(Ledger!ledgerVars)
    <2>1. CASE UNCHANGED <<txn, facts>>
      BY <2>1 DEF Ledger!ledgerVars
    <2>2. CASE Insertable(calls[c].ref) /\ txn' = [txn EXCEPT ![calls[c].ref] = "pending"]
      <3>1. Ledger!Create(calls[c].ref)
        BY <1>2, <1>c, <2>2 DEF InitSave, Insertable, CallInv, Ledger!Create
      <3> QED
        BY <1>c, <3>1 DEF Ledger!LedgerNext
    <2> QED
      BY <1>2, <2>1, <2>2 DEF InitSave
  <1>3. ASSUME NEW c \in Calls, VerifyWrite(c)
        PROVE  [Ledger!LedgerNext]_(Ledger!ledgerVars)
    <2>1. CASE UNCHANGED <<txn, facts>>
      BY <2>1 DEF Ledger!ledgerVars
    <2>2. CASE UpdateRow(calls[c].ref, RowStatus(calls[c].seen))
      <3>1. Backs(facts[calls[c].ref], RowStatus(calls[c].seen))
        BY <1>3, <1>c DEF VerifyWrite, CallInv
      <3>2. RowStatus(calls[c].seen) \in Status
        BY <3>1 DEF Backs, Ledger!Backs, Status, Ledger!Status
      <3> QED
        BY <1>3, <1>c, <2>2, <3>1, <3>2, UpdateRefines DEF VerifyWrite
    <2> QED
      BY <1>3, <2>1, <2>2 DEF VerifyWrite
  <1>4. ASSUME NEW c \in Calls, RefundCall(c)
        PROVE  [Ledger!LedgerNext]_(Ledger!ledgerVars)
    <2>1. CASE UNCHANGED <<txn, facts>>
      BY <2>1 DEF Ledger!ledgerVars
    <2>2. CASE AcceptRefund(calls[c].ref)
      BY <1>4, <1>c, <2>2, HappenRefines
      DEF RefundCall, AcceptRefund, CallInv, Fact, Ledger!Fact
    <2> QED
      BY <1>4, <2>1, <2>2 DEF RefundCall
  <1>5. ASSUME NEW c \in Calls, RefundWrite(c)
        PROVE  [Ledger!LedgerNext]_(Ledger!ledgerVars)
    <2>1. CASE UNCHANGED <<txn, facts>>
      BY <2>1 DEF Ledger!ledgerVars
    <2>2. CASE UpdateRow(calls[c].ref, "refunded")
      <3>1. Backs(facts[calls[c].ref], "refunded")
        BY <1>5, <1>c DEF RefundWrite, CallInv, Backs, Ledger!Backs
      <3> QED
        BY <1>5, <1>c, <2>2, <3>1, UpdateRefines DEF RefundWrite, Status, Ledger!Status
    <2> QED
      BY <1>5, <2>1, <2>2 DEF RefundWrite
  <1>6. ASSUME NEW e \in Event, Webhook(e)
        PROVE  [Ledger!LedgerNext]_(Ledger!ledgerVars)
    <2>1. e.ref \in Refs /\ e.fact \in EventFact
      BY DEF Event
    <2>2. PICK s \in Status : Backs(facts[e.ref], s) /\ UpdateRow(e.ref, s)
      BY <1>6, <2>1 DEF Webhook, Sent, VerifyWebhookSignature, TimingSafeEqual, EventFact,
                        ProcessWebhookEvent, EventStatus, Status, Ledger!Status, Backs,
                        Ledger!Backs
    <2> QED
      BY <1>6, <2>1, <2>2, UpdateRefines DEF Webhook
  <1>7. ASSUME NEW r \in Refs, Gateway(r)
        PROVE  [Ledger!LedgerNext]_(Ledger!ledgerVars)
    <2>1. PICK f \in EventFact :
            /\ IF f = "refunded" THEN "charged" \in facts[r]
                                 ELSE "opened" \in facts[r] /\ "charged" \notin facts[r]
            /\ facts' = [facts EXCEPT ![r] = @ \cup {f}]
      BY <1>7 DEF Gateway
    <2>2. f \in Fact
      BY DEF EventFact, Fact, Ledger!Fact
    <2> QED
      BY <1>7, <2>1, <2>2, HappenRefines DEF Gateway
  <1>8. ASSUME UNCHANGED <<txn, facts>>
        PROVE  [Ledger!LedgerNext]_(Ledger!ledgerVars)
    BY <1>8 DEF Ledger!ledgerVars
  <1> QED
    BY <1>1, <1>2, <1>3, <1>4, <1>5, <1>6, <1>7, <1>8
    DEF Next, Step, Start, InitCheck, DetailsRead, VerifyCall, RefundCheck,
        Respond, Crash, vars

(* What the ledger's steps do to a row and its history. *)
RowKept(r) ==
    /\ facts[r] \subseteq facts'[r]
    /\ txn[r] # "none" => txn'[r] # "none"
    /\ txn'[r] # "none" => "opened" \in facts'[r] /\ Backs(facts'[r], txn'[r])
    /\ facts'[r] \cap {"charged", "declined"} # {} => "opened" \in facts'[r]
    /\ "refunded" \in facts'[r] => "charged" \in facts'[r]

LEMMA LedgerKeeps ==
  ASSUME TypeOK, TypeOK', \A r \in Refs : RowInv(r), [Ledger!LedgerNext]_(Ledger!ledgerVars)
  PROVE  \A r \in Refs : RowKept(r)
  <1> USE DEF TypeOK, Ledger!LedgerTypeOK, RowInv, RowKept, Backs, Ledger!Backs
  <1>1. ASSUME NEW q \in Refs, NEW f \in Ledger!Fact, Ledger!Happen(q, f)
        PROVE  \A r \in Refs : RowKept(r)
    BY <1>1 DEF Ledger!Happen
  <1>2. ASSUME NEW q \in Refs, Ledger!Create(q)
        PROVE  \A r \in Refs : RowKept(r)
    BY <1>2 DEF Ledger!Create
  <1>3. ASSUME NEW q \in Refs, NEW s \in Ledger!Status, Ledger!Record(q, s)
        PROVE  \A r \in Refs : RowKept(r)
    BY <1>3 DEF Ledger!Record, Ledger!Status
  <1>4. CASE UNCHANGED Ledger!ledgerVars
    BY <1>4 DEF Ledger!ledgerVars
  <1> QED
    BY <1>1, <1>2, <1>3, <1>4 DEF Ledger!LedgerNext

(* A request that no step touches keeps what it relies on: facts only grow. *)
LEMMA CallKeeps ==
  ASSUME TypeOK, NEW d \in Calls, CallInv(d), calls'[d] = calls[d],
         \A r \in Refs : facts[r] \subseteq facts'[r]
  PROVE  CallInv(d)'
  <1>1. calls[d].ref \in Refs
    BY DEF TypeOK, CallsTyped, Call
  <1> QED
    BY <1>1 DEF CallInv, Backs, Ledger!Backs

(* The two ways a request moves on, and what each needs. *)
LEMMA GotoInv ==
  ASSUME TypeOK, NEW c \in Calls, CallInv(c), calls[c].at # "done",
         NEW s \in At \ {"verify_write"}, Goto(c, s),
         s = "init_save" => "opened" \in facts'[calls[c].ref],
         s = "refund_call" => "charged" \in facts'[calls[c].ref],
         s = "refund_write" => "refunded" \in facts'[calls[c].ref]
  PROVE  CallInv(c)' /\ calls'[c].answer = "none"
  <1>1. calls'[c] = [calls[c] EXCEPT !.at = s, !.tries = 0]
    BY DEF Goto, TypeOK, CallsTyped
  <1>2. /\ calls'[c].at = s
        /\ calls'[c].ref = calls[c].ref
        /\ calls'[c].answer = calls[c].answer
    BY <1>1 DEF TypeOK, CallsTyped, Call
  <1>3. calls[c].answer = "none"
    BY DEF CallInv
  <1> QED
    BY <1>2, <1>3 DEF CallInv, Status, Ledger!Status

LEMMA ReplyInv ==
  ASSUME TypeOK, NEW c \in Calls, NEW a \in Answer, Reply(c, a),
         a \in Status => Backs(facts'[calls[c].ref], a)
  PROVE  CallInv(c)' /\ calls'[c].answer = a /\ calls'[c].ref = calls[c].ref
  <1>1. calls'[c] = [calls[c] EXCEPT !.at = "done", !.tries = 0, !.seen = "none", !.answer = a]
    BY DEF Reply, TypeOK, CallsTyped
  <1>2. /\ calls'[c].at = "done"
        /\ calls'[c].ref = calls[c].ref
        /\ calls'[c].answer = a
    BY <1>1 DEF TypeOK, CallsTyped, Call
  <1> QED
    BY <1>2 DEF CallInv

LEMMA RetryInv ==
  ASSUME TypeOK, NEW c \in Calls, CallInv(c), NEW m \in Nat, Retry(c, m),
         calls[c].at # "done",
         \A r \in Refs : facts[r] \subseteq facts'[r]
  PROVE  CallInv(c)' /\ calls'[c].answer # "created"
  <1>1. CASE Reply(c, "error")
    BY <1>1, ReplyInv DEF Answer, Status, Ledger!Status
  <1>2. CASE calls' = [calls EXCEPT ![c].tries = @ + 1]
    <2>1. calls'[c] = [calls[c] EXCEPT !.tries = @ + 1]
      BY <1>2 DEF TypeOK, CallsTyped
    <2>2. /\ calls'[c].at = calls[c].at /\ calls'[c].ref = calls[c].ref
          /\ calls'[c].seen = calls[c].seen /\ calls'[c].answer = calls[c].answer
          /\ calls[c].ref \in Refs
      BY <2>1 DEF TypeOK, CallsTyped, Call
    <2> QED
      BY <2>2 DEF CallInv, Backs, Ledger!Backs, Status, Ledger!Status
  <1> QED
    BY <1>1, <1>2 DEF Retry

(* A step of one request: its own part of the invariant is the caller's to   *)
(* show; the other requests keep theirs, and no second creation is answered. *)
LEMMA OthersKeep ==
  ASSUME TypeOK, Consistent, NEW c \in Calls,
         \A r \in Refs : RowKept(r),
         \A d \in Calls \ {c} : calls'[d] = calls[d],
         CallInv(c)',
         calls'[c].answer # "created"
  PROVE  (\A d \in Calls : CallInv(d))' /\ CreatedOnce'
  <1>1. ASSUME NEW d \in Calls PROVE CallInv(d)'
    BY CallKeeps DEF Consistent, RowKept
  <1>2. \A d \in Calls : calls[d].ref \in Refs
    BY DEF TypeOK, CallsTyped, Call
  <1>3. CreatedOnce'
    BY <1>2 DEF Consistent, CreatedOnce, RowKept
  <1> QED
    BY <1>1, <1>3

LEMMA ConsistentInit == Init => Consistent
  BY NoCallType
  DEF Init, Ledger!LedgerInit, Consistent, RowInv, CallInv, CreatedOnce,
      Status, Ledger!Status

LEMMA ConsistentNext == TypeOK /\ Consistent /\ [Next]_vars => Consistent'
  <1> SUFFICES ASSUME TypeOK, Consistent, [Next]_vars PROVE Consistent'
    OBVIOUS
  <1>k. \A r \in Refs : RowKept(r)
    BY TypeNext, StepRefines, LedgerKeeps DEF Consistent
  <1>c. \A c \in Calls : calls[c].ref \in Refs /\ CallInv(c)
    BY DEF TypeOK, CallsTyped, Call, Consistent
  <1>r. \A r \in Refs : refunds'[r] > 0 => "refunded" \in facts'[r]
    <2>1. CASE UNCHANGED refunds
      BY <2>1, <1>k DEF Consistent, RowInv, RowKept
    <2>2. ASSUME NEW c \in Calls, AcceptRefund(calls[c].ref)
          PROVE  \A r \in Refs : refunds'[r] > 0 => "refunded" \in facts'[r]
      BY <2>2, <1>k, <1>c
      DEF AcceptRefund, TypeOK, Ledger!LedgerTypeOK, Consistent, RowInv, RowKept
    <2> QED
      BY <2>1, <2>2
      DEF Next, Step, Start, InitCheck, InitGateway, InitSave, DetailsRead, VerifyCall,
          VerifyWrite, RefundCheck, RefundCall, RefundWrite, Respond, Webhook,
          Gateway, Crash, vars
  <1>q. \A r \in Refs : RowInv(r)'
    BY <1>k, <1>r DEF RowInv, RowKept
  <1>s. Status \subseteq Answer /\ {"error", "created"} \cup Report \subseteq Answer
        /\ "error" \notin Status /\ "created" \notin Status
    BY DEF Answer, Status, Ledger!Status
  <1>g. \A c \in Calls : facts[calls[c].ref] \subseteq facts'[calls[c].ref]
    BY <1>c, <1>k DEF RowKept
  <1>o. \A c \in Calls : \A s : Goto(c, s) \/ Reply(c, s) \/ Retry(c, s)
            => \A d \in Calls \ {c} : calls'[d] = calls[d]
    BY DEF Goto, Reply, Retry, TypeOK, CallsTyped
  <1> USE DEF Consistent
  <1>1. ASSUME NEW c \in Calls, NEW op \in Op, NEW r \in Refs, Start(c, op, r)
        PROVE  Consistent'
    <2>1. /\ calls'[c].at = FirstStep(op)
          /\ calls'[c].answer = "none"
          /\ \A d \in Calls \ {c} : calls'[d] = calls[d]
      BY <1>1 DEF Start, TypeOK, CallsTyped
    <2>2. CallInv(c)'
      BY <2>1 DEF FirstStep, Op, CallInv, Status, Ledger!Status
    <2> QED
      BY <1>k, <1>q, <2>1, <2>2, OthersKeep
  <1>2. ASSUME NEW c \in Calls, InitCheck(c) PROVE Consistent'
    <2>1. CallInv(c)' /\ calls'[c].answer # "created"
      BY <1>2, <1>c, <1>s, GotoInv, ReplyInv DEF InitCheck, At
    <2> QED
      BY <1>2, <1>k, <1>q, <1>o, <2>1, OthersKeep DEF InitCheck
  <1>3. ASSUME NEW c \in Calls, InitGateway(c) PROVE Consistent'
    <2>1. CallInv(c)' /\ calls'[c].answer # "created"
      <3>1. CASE Reply(c, "error")
        BY <3>1, <1>s, ReplyInv
      <3>2. CASE Goto(c, "init_save") /\ facts' = [facts EXCEPT ![calls[c].ref] = @ \cup {"opened"}]
        <4>1. "opened" \in facts'[calls[c].ref]
          BY <3>2, <1>c DEF TypeOK, Ledger!LedgerTypeOK
        <4> QED
          BY <1>3, <3>2, <4>1, <1>c, GotoInv DEF InitGateway, At
      <3> QED
        BY <1>3, <3>1, <3>2 DEF InitGateway
    <2> QED
      BY <1>3, <1>k, <1>q, <1>o, <2>1, OthersKeep DEF InitGateway
  <1>4. ASSUME NEW c \in Calls, InitSave(c) PROVE Consistent'
    <2>1. CASE Reply(c, "error")
      <3>1. CallInv(c)' /\ calls'[c].answer # "created"
        BY <2>1, <1>s, ReplyInv
      <3> QED
        BY <2>1, <1>k, <1>q, <1>o, <3>1, OthersKeep
    <2>2. CASE /\ Insertable(calls[c].ref)
               /\ txn' = [txn EXCEPT ![calls[c].ref] = "pending"]
               /\ Reply(c, "created")
      <3>1. CallInv(c)' /\ calls'[c].answer = "created" /\ calls'[c].ref = calls[c].ref
        BY <2>2, <1>s, ReplyInv
      <3>2. \A d \in Calls \ {c} : calls'[d] = calls[d]
        BY <2>2, <1>o
      <3>3. ASSUME NEW d \in Calls PROVE CallInv(d)'
        BY <1>c, <1>k, <3>1, <3>2, CallKeeps DEF RowKept
      <3>4. CreatedOnce'
        <4>1. txn'[calls[c].ref] # "none" /\ txn[calls[c].ref] = "none"
          BY <2>2, <1>c DEF Insertable, TypeOK, Ledger!LedgerTypeOK
        <4>2. \A d \in Calls \ {c} : calls[d].answer = "created" =>
                 /\ calls[d].ref # calls[c].ref
                 /\ txn'[calls[d].ref] # "none"
          BY <4>1, <1>c, <1>k DEF CreatedOnce, RowKept
        <4> QED
          BY <3>1, <3>2, <4>1, <4>2 DEF CreatedOnce
      <3> QED
        BY <1>q, <3>3, <3>4
    <2> QED
      BY <1>4, <2>1, <2>2 DEF InitSave
  <1>5. ASSUME NEW c \in Calls, DetailsRead(c) PROVE Consistent'
    <2>1. CallInv(c)' /\ calls'[c].answer # "created"
      <3>1. CASE Reply(c, "error")
        BY <3>1, <1>s, ReplyInv
      <3>2. CASE Goto(c, "verify_call")
        BY <1>5, <3>2, <1>c, GotoInv DEF DetailsRead, At
      <3>3. CASE txn[calls[c].ref] # "none" /\ Reply(c, txn[calls[c].ref])
        <4>1. Backs(facts'[calls[c].ref], txn[calls[c].ref])
          BY <3>3, <1>c, <1>g, BacksGrow DEF RowInv
        <4>2. txn[calls[c].ref] \in Status
          BY <3>3, <1>c DEF TypeOK, Ledger!LedgerTypeOK, Status
        <4> QED
          BY <3>3, <4>1, <4>2, <1>s, ReplyInv
      <3> QED
        BY <1>5, <3>1, <3>2, <3>3 DEF DetailsRead
    <2> QED
      BY <1>5, <1>k, <1>q, <1>o, <2>1, OthersKeep DEF DetailsRead
  <1>6. ASSUME NEW c \in Calls, VerifyCall(c) PROVE Consistent'
    <2>1. ASSUME NEW s \in ReportsOf(facts[calls[c].ref]),
                 calls' = [calls EXCEPT ![c] = [@ EXCEPT !.at = "verify_write",
                                                         !.tries = 0, !.seen = s]]
          PROVE  Consistent'
      <3>1. /\ calls'[c].at = "verify_write" /\ calls'[c].seen = s
            /\ calls'[c].ref = calls[c].ref /\ calls'[c].answer = calls[c].answer
            /\ \A d \in Calls \ {c} : calls'[d] = calls[d]
        BY <2>1 DEF TypeOK, CallsTyped, Call
      <3>2. calls[c].answer = "none"
        BY <1>6, <1>c DEF VerifyCall, CallInv
      <3>3. Backs(facts[calls[c].ref], RowStatus(s))
        BY DEF ReportsOf, RowStatus, Report, Backs, Ledger!Backs
      <3>4. Backs(facts'[calls[c].ref], RowStatus(s))
        BY <3>3, <1>c, <1>g, BacksGrow
      <3>5. CallInv(c)'
        BY <3>1, <3>2, <3>4 DEF CallInv, Status, Ledger!Status
      <3> QED
        BY <1>k, <1>q, <3>1, <3>2, <3>5, OthersKeep
    <2>2. CASE Reply(c, "error")
      <3>1. CallInv(c)' /\ calls'[c].answer # "created"
        BY <2>2, <1>s, ReplyInv
      <3> QED
        BY <2>2, <1>k, <1>q, <1>o, <3>1, OthersKeep
    <2>3. CASE Retry(c, VerifyRetries)
      <3>1. CallInv(c)' /\ calls'[c].answer # "created"
        BY <1>6, <2>3, <1>c, <1>k, RetryInv, PaymentAssumption DEF VerifyCall, RowKept
      <3> QED
        BY <2>3, <1>k, <1>q, <1>o, <3>1, OthersKeep
    <2> QED
      BY <1>6, <2>1, <2>2, <2>3 DEF VerifyCall
  <1>7. ASSUME NEW c \in Calls, VerifyWrite(c) PROVE Consistent'
    <2>1. Backs(facts'[calls[c].ref], RowStatus(calls[c].seen))
      BY <1>7, <1>c, <1>g, BacksGrow DEF VerifyWrite, CallInv
    <2>2. CallInv(c)' /\ calls'[c].answer # "created"
      <3>1. CASE Reply(c, "error")
        BY <3>1, <1>s, ReplyInv
      <3>2. CASE Reply(c, calls[c].seen)
        <4>1. calls[c].seen \in Report \cup {"none"}
          BY DEF TypeOK, CallsTyped, Call
        <4>2. calls[c].seen \in Answer /\ calls[c].seen # "created"
          BY <4>1, <1>s DEF Answer, Report
        <4>3. calls[c].seen \in Status => Backs(facts'[calls[c].ref], calls[c].seen)
          BY <4>1, <2>1 DEF Report, Status, Ledger!Status, RowStatus
        <4> QED
          BY <3>2, <4>2, <4>3, ReplyInv
      <3>3. CASE calls[c].seen = "success" /\ Goto(c, "refund_call")
        <4>1. "charged" \in facts'[calls[c].ref]
          BY <3>3, <2>1 DEF RowStatus, Backs, Ledger!Backs
        <4> QED
          BY <1>7, <3>3, <4>1, <1>c, GotoInv DEF VerifyWrite, At
      <3> QED
        BY <1>7, <3>1, <3>2, <3>3 DEF VerifyWrite
    <2> QED
      BY <1>7, <1>k, <1>q, <1>o, <2>2, OthersKeep DEF VerifyWrite
  <1>8. ASSUME NEW c \in Calls, RefundCheck(c) PROVE Consistent'
    <2>1. CallInv(c)' /\ calls'[c].answer # "created"
      BY <1>8, <1>c, <1>s, GotoInv, ReplyInv DEF RefundCheck, At
    <2> QED
      BY <1>8, <1>k, <1>q, <1>o, <2>1, OthersKeep DEF RefundCheck
  <1>9. ASSUME NEW c \in Calls, RefundCall(c) PROVE Consistent'
    <2>1. CallInv(c)' /\ calls'[c].answer # "created"
      <3>1. CASE Reply(c, "error")
        BY <3>1, <1>s, ReplyInv
      <3>2. CASE Retry(c, RefundRetries)
        BY <1>9, <3>2, <1>c, <1>k, RetryInv, PaymentAssumption DEF RefundCall, RowKept
      <3>3. CASE Goto(c, "refund_write") /\ AcceptRefund(calls[c].ref)
        <4>1. "refunded" \in facts'[calls[c].ref]
          BY <3>3, <1>c DEF AcceptRefund, TypeOK, Ledger!LedgerTypeOK
        <4> QED
          BY <1>9, <3>3, <4>1, <1>c, GotoInv DEF RefundCall, At
      <3> QED
        BY <1>9, <3>1, <3>2, <3>3 DEF RefundCall
    <2> QED
      BY <1>9, <1>k, <1>q, <1>o, <2>1, OthersKeep DEF RefundCall
  <1>10. ASSUME NEW c \in Calls, RefundWrite(c) PROVE Consistent'
    <2>1. Backs(facts'[calls[c].ref], "refunded")
      BY <1>10, <1>c, <1>g DEF RefundWrite, CallInv, Backs, Ledger!Backs
    <2>2. CallInv(c)' /\ calls'[c].answer # "created"
      BY <1>10, <2>1, <1>s, ReplyInv DEF RefundWrite, Status, Ledger!Status
    <2> QED
      BY <1>10, <1>k, <1>q, <1>o, <2>2, OthersKeep DEF RefundWrite
  <1>11. ASSUME NEW c \in Calls, Respond(c) PROVE Consistent'
    <2>1. calls'[c] = NoCall /\ \A d \in Calls \ {c} : calls'[d] = calls[d]
      BY <1>11 DEF Respond, TypeOK, CallsTyped
    <2>2. CallInv(c)' /\ calls'[c].answer # "created"
      BY <2>1, NoCallType DEF CallInv, Status, Ledger!Status
    <2> QED
      BY <1>k, <1>q, <2>1, <2>2, OthersKeep
  <1>12. CASE UNCHANGED calls
    <2>1. ASSUME NEW d \in Calls PROVE CallInv(d)'
      BY <1>12, <1>c, <1>k, CallKeeps DEF RowKept
    <2>2. CreatedOnce'
      BY <1>12, <1>c, <1>k DEF CreatedOnce, RowKept
    <2> QED
      BY <1>q, <2>1, <2>2
  <1>13. CASE Crash
    <2>1. \A d \in Calls : calls'[d] = NoCall
      BY <1>13 DEF Crash
    <2>2. ASSUME NEW d \in Calls PROVE CallInv(d)'
      BY <2>1, NoCallType DEF CallInv, Status, Ledger!Status
    <2>3. CreatedOnce'
      BY <2>1, NoCallType DEF CreatedOnce
    <2> QED
      BY <1>q, <2>2, <2>3
  <1> QED
    BY <1>1, <1>2, <1>3, <1>4, <1>5, <1>6, <1>7, <1>8, <1>9, <1>10, <1>11,
       <1>12, <1>13 DEF Next, Step, Webhook, Gateway, vars

(* Rows, gateway and requests in progress agree in every reachable state. *)
THEOREM AlwaysConsistent == Spec => []Consistent
  BY TypeCorrect, ConsistentInit, ConsistentNext, PTL DEF Spec

(* Money is only given back where it was taken: a refund reaches the gateway *)
(* only for a charged reference.                                             *)
THEOREM RefundSafe == Spec => []RefundOnlyCharged
  <1>1. TypeOK /\ Consistent => RefundOnlyCharged
    BY DEF TypeOK, Consistent, RowInv, RefundOnlyCharged
  <1> QED
    BY <1>1, TypeCorrect, AlwaysConsistent, PTL

(* Of the requests that race to create a reference at most one is told it    *)
(* succeeded.                                                                *)
THEOREM CreateSafe == Spec => []CreatedOnce
  <1>1. Consistent => CreatedOnce
    BY DEF Consistent
  <1> QED
    BY <1>1, AlwaysConsistent, PTL

(* No answer reports a status that did not happen, however stale. *)
THEOREM AnswersSafe == Spec => []AnswerIsReal
  <1>1. Consistent => AnswerIsReal
    BY DEF Consistent, CallInv, AnswerIsReal
  <1> QED
    BY <1>1, AlwaysConsistent, PTL

(* The service implements the ledger. *)
THEOREM PaymentImplementsLedger == Spec => LedgerSpec
  <1>1. Init => Ledger!LedgerInit
    BY DEF Init
  <1> QED
    BY <1>1, StepRefines, TypeCorrect, AlwaysConsistent, PTL
    DEF Spec, LedgerSpec, Ledger!LedgerSpec

=============================================================================
