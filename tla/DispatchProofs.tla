--------------------------- MODULE DispatchProofs ---------------------------
(***************************************************************************)
(* Theorems about Dispatch, for every set of dispatches, calls, wanted     *)
(* statuses and addresses, and every size of the connection pool.          *)
(***************************************************************************)
EXTENDS Dispatch, TLAPS

(* Rows and calls as data: what a copy of one with some fields changed is.   *)
LEMMA RowType ==
  /\ NoRow \in Row /\ ~NoRow.ref /\ ~NoRow.verified
  /\ \A row \in Row, s \in DispatchStatus :
        LET new == [row EXCEPT !.status = s] IN
        new \in Row /\ new.ref = row.ref /\ new.verified = row.verified
  BY DEF Row, NoRow

(* The row after an UPDATE that sets the columns S: the entity's in S, the   *)
(* stored ones elsewhere.                                                    *)
LEMMA MergeType ==
  ASSUME NEW a \in Row, NEW b \in Row, NEW S, NEW m,
         m = [x \in Column |-> IF x \in S THEN a[x] ELSE b[x]]
  PROVE  /\ m \in Row
         /\ m.ref = IF "ref" \in S THEN a.ref ELSE b.ref
         /\ m.verified = IF "verified" \in S THEN a.verified ELSE b.verified
  <1>1. m = [status |-> m.status, ref |-> m.ref, verified |-> m.verified]
    BY DEF Column
  <1>2. /\ m.status \in DispatchStatus \cup {"none"}
        /\ m.ref = IF "ref" \in S THEN a.ref ELSE b.ref
        /\ m.verified = IF "verified" \in S THEN a.verified ELSE b.verified
    BY DEF Row, Column
  <1>3. m.ref \in BOOLEAN /\ m.verified \in BOOLEAN
    BY <1>2 DEF Row
  <1>4. m \in Row
    BY <1>1, <1>2, <1>3 DEF Row
  <1> QED
    BY <1>2, <1>4

LEMMA NoCallType ==
  /\ NoCall \in Call /\ NoCall.at = "idle" /\ NoCall.holds = FALSE
  /\ NoCall.ent = NoRow /\ NoCall.work = NoRow /\ NoCall.op = "update"
  <1>1. (CHOOSE d \in Dispatches : TRUE) \in Dispatches
    BY DispatchAssumption
  <1> QED
    BY <1>1, RowType DEF NoCall, Call, Op, At, DispatchStatus

(* A step of one call fills its slot anew and leaves the others alone.       *)
LEMMA SlotChange ==
  ASSUME calls \in [Calls -> Call], NEW c \in Calls, NEW k \in Call,
         calls' = [calls EXCEPT ![c] = k]
  PROVE  /\ calls' \in [Calls -> Call]
         /\ calls'[c] = k
         /\ \A e \in Calls \ {c} : calls'[e] = calls[e]
  OBVIOUS

LEMMA ReturnType ==
  ASSUME calls \in [Calls -> Call], NEW c \in Calls, Return(c)
  PROVE  /\ calls' \in [Calls -> Call]
         /\ calls'[c] = NoCall
         /\ \A e \in Calls \ {c} : calls'[e] = calls[e]
  BY NoCallType, SlotChange DEF Return

LEMMA VisibleType ==
  ASSUME TypeOK, NEW c \in Calls
  PROVE  Visible(c) \in Row /\ calls[c] \in Call /\ calls[c].d \in Dispatches
         /\ calls[c].ent \in Row /\ calls[c].work \in Row
         /\ rows[calls[c].d] \in Row
  BY DEF TypeOK, Visible, Call

-----------------------------------------------------------------------------
(* What the steps do to the slot of their call, field by field.              *)

Slot(c, op, d, at, ent, cols, holds, work) ==
    /\ calls' \in [Calls -> Call]
    /\ \A e \in Calls \ {c} : calls'[e] = calls[e]
    /\ calls'[c].op = op /\ calls'[c].d = d /\ calls'[c].at = at
    /\ calls'[c].ent = ent /\ calls'[c].cols = cols
    /\ calls'[c].holds = holds /\ calls'[c].work = work

LEMMA StartSlot ==
  ASSUME TypeOK, NEW c \in Calls, NEW op \in Op, NEW d \in Dispatches,
         NEW s \in Wanted, Start(c, op, d, s)
  PROVE  Slot(c, op, d, "read", NoRow, NoCall.cols, FALSE, NoRow)
  <1> DEFINE k == [NoCall EXCEPT !.op = op, !.d = d, !.at = "read",
                                 !.want = IF op = "update" THEN s ELSE @]
  <1>1. /\ k \in Call /\ k.op = op /\ k.d = d /\ k.at = "read"
        /\ k.ent = NoRow /\ k.cols = NoCall.cols
        /\ k.holds = FALSE /\ k.work = NoRow
    BY NoCallType, DispatchAssumption DEF Call, At
  <1>2. calls' = [calls EXCEPT ![c] = k]
    BY DEF Start
  <1> HIDE DEF k
  <1> QED
    BY <1>1, <1>2, SlotChange DEF TypeOK, Slot

(* A step that changes where the call is, its entity and its columns. *)
LEMMA EntitySlot ==
  ASSUME TypeOK, NEW c \in Calls, NEW at \in At, NEW ent \in Row,
         NEW cols \in SUBSET Column,
         calls' = [calls EXCEPT ![c].at = at, ![c].ent = ent, ![c].cols = cols]
  PROVE  Slot(c, calls[c].op, calls[c].d, at, ent, cols, calls[c].holds, calls[c].work)
  <1> DEFINE k == [calls[c] EXCEPT !.at = at, !.ent = ent, !.cols = cols]
  <1>1. /\ k \in Call /\ k.op = calls[c].op /\ k.d = calls[c].d /\ k.at = at
        /\ k.ent = ent /\ k.cols = cols
        /\ k.holds = calls[c].holds /\ k.work = calls[c].work
    BY VisibleType DEF Call
  <1>2. calls' = [calls EXCEPT ![c] = k]
    OBVIOUS
  <1> HIDE DEF k
  <1> QED
    BY <1>1, <1>2, SlotChange DEF TypeOK, Slot

LEMMA ReadSlot ==
  ASSUME TypeOK, NEW c \in Calls, NEW at \in At, NEW ent \in Row,
         calls' = [calls EXCEPT ![c].at = at, ![c].ent = ent]
  PROVE  Slot(c, calls[c].op, calls[c].d, at, ent, calls[c].cols,
              calls[c].holds, calls[c].work)
  <1>1. calls' = [calls EXCEPT ![c].at = at, ![c].ent = ent, ![c].cols = calls[c].cols]
    BY VisibleType DEF Call, TypeOK
  <1>2. calls[c].cols \in SUBSET Column
    BY VisibleType DEF Call
  <1> QED
    BY <1>1, <1>2, EntitySlot

LEMMA DiffSlot ==
  ASSUME TypeOK, NEW c \in Calls, Diff(c)
  PROVE  \E cols \in SUBSET Column :
            /\ cols = {x \in Column : calls[c].ent[x] # Visible(c)[x]}
            /\ Slot(c, calls[c].op, calls[c].d,
                    IF calls[c].at = "save" THEN "write" ELSE "write_ref",
                    calls[c].ent, cols, calls[c].holds, calls[c].work)
  <1> DEFINE at == IF calls[c].at = "save" THEN "write" ELSE "write_ref"
             cols == {x \in Column : calls[c].ent[x] # Visible(c)[x]}
  <1>1. at \in At /\ cols \in SUBSET Column
    BY DEF At
  <1>2. calls' = [calls EXCEPT ![c].at = at, ![c].cols = cols]
    BY DEF Diff
  <1> HIDE DEF cols, at
  <1>3. calls' = [calls EXCEPT ![c].at = at, ![c].ent = calls[c].ent, ![c].cols = cols]
    BY <1>2, VisibleType DEF Call, TypeOK
  <1>4. Slot(c, calls[c].op, calls[c].d, at, calls[c].ent, cols,
             calls[c].holds, calls[c].work)
    BY <1>1, <1>3, VisibleType, EntitySlot
  <1> QED
    BY <1>1, <1>4 DEF cols, at

(* The UPDATE of save takes the columns found to differ from the entity.      *)
LEMMA WriteMerges ==
  ASSUME TypeOK, NEW c \in Calls, Write(c)
  PROVE  \E new \in Row :
            /\ Store(c, new)
            /\ new.ref = IF "ref" \in calls[c].cols
                         THEN calls[c].ent.ref ELSE Visible(c).ref
            /\ new.verified = IF "verified" \in calls[c].cols
                              THEN calls[c].ent.verified ELSE Visible(c).verified
  <1> DEFINE m == [x \in Column |-> IF x \in calls[c].cols
                                    THEN calls[c].ent[x] ELSE Visible(c)[x]]
  <1>1. Store(c, m)
    BY Zenon DEF Write
  <1>2. calls[c].ent \in Row /\ Visible(c) \in Row
    BY VisibleType
  <1>3. m = [x \in Column |-> IF x \in calls[c].cols
                              THEN calls[c].ent[x] ELSE Visible(c)[x]]
    OBVIOUS
  <1> HIDE DEF m
  <1> QED
    BY <1>1, <1>2, <1>3, MergeType

(* An UPDATE in a transaction; what it writes, if anything, is in work.      *)
LEMMA StoreSlot ==
  ASSUME TypeOK, NEW c \in Calls, NEW new \in Row, InTransaction(c), Store(c, new)
  PROVE  /\ UNCHANGED <<rows, told>>
         /\ Slot(c, calls[c].op, calls[c].d,
                 IF calls[c].at = "write" THEN "gateway" ELSE "notify",
                 calls[c].ent, {}, calls[c].holds \/ calls[c].cols # {},
                 IF calls[c].cols = {} THEN calls[c].work ELSE new)
  <1> DEFINE at == IF calls[c].at = "write" THEN "gateway" ELSE "notify"
             holds == calls[c].holds \/ calls[c].cols # {}
             work == IF calls[c].cols = {} THEN calls[c].work ELSE new
             k == [calls[c] EXCEPT !.at = at, !.holds = holds, !.work = work, !.cols = {}]
  <1>1. at \in At /\ holds \in BOOLEAN /\ work \in Row
    BY VisibleType DEF At
  <1>2. calls' = [calls EXCEPT ![c] = k] /\ UNCHANGED <<rows, told>>
    BY DEF Store
  <1> HIDE DEF at, holds, work
  <1>3. /\ k \in Call /\ k.op = calls[c].op /\ k.d = calls[c].d /\ k.at = at
        /\ k.ent = calls[c].ent /\ k.cols = {} /\ k.holds = holds /\ k.work = work
    BY <1>1, VisibleType DEF Call
  <1> HIDE DEF k
  <1>4. Slot(c, calls[c].op, calls[c].d, at, calls[c].ent, {}, holds, work)
    BY <1>2, <1>3, SlotChange DEF TypeOK, Slot
  <1> QED
    BY <1>2, <1>4 DEF at, holds, work

LEMMA OpenSlot ==
  ASSUME TypeOK, NEW c \in Calls, NEW at \in At,
         calls' = [calls EXCEPT ![c].at = at]
  PROVE  Slot(c, calls[c].op, calls[c].d, at, calls[c].ent, calls[c].cols,
              calls[c].holds, calls[c].work)
  <1>1. calls' = [calls EXCEPT ![c].at = at, ![c].ent = calls[c].ent]
    BY VisibleType DEF Call, TypeOK
  <1> QED
    BY <1>1, VisibleType, ReadSlot

LEMMA InsertSlot ==
  ASSUME TypeOK, NEW c \in Calls, InsertPayment(c)
  PROVE  \E ent \in Row :
            /\ ent.ref /\ ent.verified = calls[c].ent.verified
            /\ Slot(c, calls[c].op, calls[c].d, "save_ref", ent, calls[c].cols,
                    calls[c].holds, calls[c].work)
  <1> DEFINE ent == [calls[c].ent EXCEPT !.ref = TRUE]
  <1>1. ent \in Row /\ ent.ref /\ ent.verified = calls[c].ent.verified
    BY VisibleType DEF Row
  <1>2. calls' = [calls EXCEPT ![c].at = "save_ref", ![c].ent = ent]
    BY DEF InsertPayment
  <1> HIDE DEF ent
  <1> QED
    BY <1>1, <1>2, ReadSlot DEF At

LEMMA VerifySlot ==
  ASSUME TypeOK, NEW c \in Calls, VerifyPayment(c)
  PROVE  \E ent \in Row :
            /\ ent.verified /\ ent.ref = calls[c].ent.ref
            /\ Slot(c, calls[c].op, calls[c].d, "save", ent, calls[c].cols,
                    calls[c].holds, calls[c].work)
  <1> DEFINE ent == [calls[c].ent EXCEPT !.status = "payment_completed",
                                         !.verified = TRUE]
  <1>1. ent \in Row /\ ent.verified /\ ent.ref = calls[c].ent.ref
    BY VisibleType DEF Row, DispatchStatus
  <1>2. calls' = [calls EXCEPT ![c].at = "save", ![c].ent = ent]
    BY DEF VerifyPayment
  <1> HIDE DEF ent
  <1> QED
    BY <1>1, <1>2, ReadSlot DEF At

(* The two reads that change the entity's status at once. *)
LEMMA StatusSlot ==
  ASSUME TypeOK, NEW c \in Calls, NEW s \in DispatchStatus,
         calls' = [calls EXCEPT ![c].at = "save",
                                ![c].ent = [rows[calls[c].d] EXCEPT !.status = s]]
  PROVE  \E ent \in Row :
            /\ ent.ref = rows[calls[c].d].ref
            /\ ent.verified = rows[calls[c].d].verified
            /\ Slot(c, calls[c].op, calls[c].d, "save", ent, calls[c].cols,
                    calls[c].holds, calls[c].work)
  <1> DEFINE ent == [rows[calls[c].d] EXCEPT !.status = s]
  <1>1. /\ ent \in Row /\ ent.ref = rows[calls[c].d].ref
        /\ ent.verified = rows[calls[c].d].verified
    BY VisibleType, RowType
  <1> HIDE DEF ent
  <1> QED
    BY <1>1, ReadSlot DEF At, ent

-----------------------------------------------------------------------------
LEMMA TellType ==
  ASSUME TypeOK, NEW c \in Calls, Tell(c)
  PROVE  told' \subseteq Dispatches \X {"status", "payment", "confirmation"}
  <1>1. calls[c].op \in {"update", "complete", "verify"}
    BY VisibleType DEF Call, Op
  <1> QED
    BY <1>1, VisibleType DEF Tell, TypeOK

LEMMA TypeInit == Init => TypeOK
  BY NoCallType, RowType
  DEF Init, TypeOK, Ledger!LedgerInit, Ledger!LedgerTypeOK

LEMMA TypeNext == TypeOK /\ [Next]_vars => TypeOK'
  <1> SUFFICES ASSUME TypeOK, [Next]_vars PROVE TypeOK'
    OBVIOUS
  <1>v. ASSUME NEW c \in Calls
        PROVE  /\ calls[c].d \in Dispatches /\ rows[calls[c].d] \in Row
               /\ calls[c].ent \in Row /\ Visible(c) \in Row
               /\ calls[c].want \in DispatchStatus
    BY VisibleType DEF Call
  <1>t. ASSUME calls' \in [Calls -> Call], UNCHANGED <<rows, told>>, Ledger!LedgerTypeOK'
        PROVE  TypeOK'
    BY <1>t DEF TypeOK
  <1>l. ASSUME UNCHANGED <<txn, facts>> PROVE Ledger!LedgerTypeOK'
    BY <1>l DEF TypeOK, Ledger!LedgerTypeOK
  <1>1. ASSUME NEW d \in Dispatches, CreateDispatch(d) PROVE TypeOK'
    BY <1>1 DEF CreateDispatch, TypeOK, Row, DispatchStatus, Ledger!LedgerTypeOK
  <1>2. ASSUME NEW c \in Calls, NEW op \in Op, NEW d \in Dispatches, NEW s \in Wanted,
               Start(c, op, d, s)
        PROVE  TypeOK'
    BY <1>2, <1>t, <1>l, StartSlot DEF Start, Slot
  <1>3. ASSUME NEW c \in Calls, ReadForUpdate(c) PROVE TypeOK'
    BY <1>3, <1>t, <1>l, <1>v, StatusSlot DEF ReadForUpdate, Slot
  <1>4. ASSUME NEW c \in Calls, ReadForCompletion(c) PROVE TypeOK'
    BY <1>4, <1>t, <1>l, StatusSlot DEF ReadForCompletion, Slot, DispatchStatus
  <1>5. ASSUME NEW c \in Calls, ReadForVerification(c) PROVE TypeOK'
    BY <1>5, <1>t, <1>l, <1>v, ReadSlot DEF ReadForVerification, Slot, At
  <1>6. ASSUME NEW c \in Calls, Diff(c) PROVE TypeOK'
    BY <1>6, <1>t, <1>l, DiffSlot DEF Diff, Slot
  <1>7. ASSUME NEW c \in Calls, Write(c) PROVE TypeOK'
    <2>1. PICK new \in Row : Store(c, new)
      BY <1>7, WriteMerges
    <2>2. CASE InTransaction(c)
      BY <1>7, <2>1, <2>2, <1>t, <1>l, StoreSlot DEF Write, Slot
    <2>3. CASE ~InTransaction(c)
      <3>1. rows' = [rows EXCEPT ![calls[c].d] = new] /\ Tell(c) /\ Return(c)
        BY <2>1, <2>3 DEF Store
      <3> QED
        BY <1>7, <1>l, <3>1, ReturnType, TellType DEF Write, TypeOK
    <2> QED
      BY <2>2, <2>3
  <1>8. ASSUME NEW c \in Calls, OpenPayment(c) PROVE TypeOK'
    <2>1. Ledger!LedgerTypeOK'
      BY <1>8 DEF OpenPayment, TypeOK, Ledger!LedgerTypeOK, Ledger!Fact
    <2> QED
      BY <1>8, <1>t, <2>1, OpenSlot DEF OpenPayment, Slot, At
  <1>9. ASSUME NEW c \in Calls, InsertPayment(c) PROVE TypeOK'
    <2>1. Ledger!LedgerTypeOK'
      BY <1>9 DEF InsertPayment, TypeOK, Ledger!LedgerTypeOK, Ledger!Status
    <2> QED
      BY <1>9, <1>t, <2>1, InsertSlot DEF InsertPayment, Slot
  <1>10. ASSUME NEW c \in Calls, Notify(c) PROVE TypeOK'
    BY <1>10, <1>l, TellType, OpenSlot DEF Notify, Slot, At, TypeOK
  <1>11. ASSUME NEW c \in Calls, Commit(c) PROVE TypeOK'
    BY <1>11, <1>l, <1>v, ReturnType DEF Commit, TypeOK
  <1>12. ASSUME NEW c \in Calls, VerifyPayment(c) PROVE TypeOK'
    <2>1. Ledger!LedgerTypeOK'
      BY <1>12, <1>v DEF VerifyPayment, TypeOK, Ledger!LedgerTypeOK, Ledger!Status
    <2> QED
      BY <1>12, <1>t, <2>1, VerifySlot DEF VerifyPayment, Slot
  <1>13. ASSUME NEW c \in Calls, Fail(c) PROVE TypeOK'
    BY <1>13, <1>t, <1>l, ReturnType DEF Fail, TypeOK
  <1>14. CASE Payments
    <2>1. Ledger!LedgerTypeOK'
      BY <1>14 DEF Payments, Ledger!Happen, Ledger!Record, TypeOK,
                   Ledger!LedgerTypeOK, Ledger!Fact, Ledger!Status
    <2> QED
      BY <1>14, <2>1 DEF Payments, TypeOK
  <1>15. CASE Crash
    BY <1>15, <1>t, <1>l, NoCallType DEF Crash
  <1>16. CASE UNCHANGED vars
    BY <1>16, <1>t, <1>l DEF vars, TypeOK
  <1> QED
    BY <1>1, <1>2, <1>3, <1>4, <1>5, <1>6, <1>7, <1>8, <1>9, <1>10, <1>11,
       <1>12, <1>13, <1>14, <1>15, <1>16 DEF Next, Step

(* Dispatch keeps its type, however calls, crashes and payments interleave.  *)
THEOREM TypeCorrect == Spec => []TypeOK
  BY TypeInit, TypeNext, PTL DEF Spec

-----------------------------------------------------------------------------
(***************************************************************************)
(* The inductive invariant. What the table promises of a row is also true  *)
(* of every copy of it that a call may yet write: the entity in its memory *)
(* and the uncommitted row of its transaction.                             *)
(***************************************************************************)
RowBacked(d, row) ==
    /\ row.ref => txn[d] # "none"
    /\ row.verified => "charged" \in facts[d]

(* Which call is where: only a completion goes past its first save, has a    *)
(* transaction and a lock, and only a verification asks for a payment.       *)
Placed(k) ==
    /\ k.at \in {"gateway", "insert", "save_ref", "write_ref", "notify", "commit"}
          => k.op = "complete"
    /\ k.at = "verify_payment" => k.op = "verify"
    /\ k.holds => k.op = "complete" /\ k.at # "idle"
    /\ k.op = "verify" /\ k.at \notin {"idle", "read"} => k.ent.ref

(* Past the payment the entity carries the reference. Until the second save  *)
(* is over it is either about to be written or already in the transaction;   *)
(* then the transaction has it, under the lock.                              *)
Carried(k) ==
    /\ k.at \in {"save_ref", "write_ref"} => k.ent.ref
    /\ k.at = "write_ref" => "ref" \in k.cols \/ (k.holds /\ k.work.ref)
    /\ k.at \in {"notify", "commit"} => k.holds /\ k.work.ref

CallInv(c) ==
    LET k == calls[c] IN
    /\ RowBacked(k.d, k.ent)
    /\ RowBacked(k.d, k.work)
    /\ Placed(k)
    /\ Carried(k)
    /\ k.at = "insert" => "opened" \in facts[k.d]
    /\ Completing(c) => txn[k.d] # "none"

(* No completion of d is past its payment. *)
NoneCompletes(d) == \A c \in Calls : Completing(c) => calls[c].d # d

(* Nobody else has seen the reference of a completion that is past its       *)
(* payment.                                                                  *)
Unseen ==
    \A c \in Calls : ~Completing(c) /\ calls[c].ent.ref => NoneCompletes(calls[c].d)

DispatchInv ==
    /\ \A d \in Dispatches : RowBacked(d, rows[d])
    /\ \A d \in Dispatches : txn[d] # "none" => "opened" \in facts[d]
    /\ LinkIsPayable
    /\ CompletedOnce
    /\ \A c \in Calls : CallInv(c)
    /\ Unseen


-----------------------------------------------------------------------------
(* The payments of a dispatch are a history of the ledger. *)

LEMMA StepRefines ==
  ASSUME TypeOK, DispatchInv, [Next]_vars
  PROVE  [Ledger!LedgerNext]_(Ledger!ledgerVars)
  <1>0. ASSUME UNCHANGED <<txn, facts>>
        PROVE  [Ledger!LedgerNext]_(Ledger!ledgerVars)
    BY <1>0 DEF Ledger!ledgerVars
  <1>1. ASSUME NEW c \in Calls, OpenPayment(c)
        PROVE  [Ledger!LedgerNext]_(Ledger!ledgerVars)
    <2>1. Ledger!Happen(calls[c].d, "opened")
      BY <1>1 DEF OpenPayment, Ledger!Happen
    <2> QED
      BY <2>1, VisibleType DEF Ledger!LedgerNext, Ledger!Fact
  <1>2. ASSUME NEW c \in Calls, InsertPayment(c)
        PROVE  [Ledger!LedgerNext]_(Ledger!ledgerVars)
    <2>1. "opened" \in facts[calls[c].d]
      BY <1>2 DEF InsertPayment, DispatchInv, CallInv
    <2>2. Ledger!Create(calls[c].d)
      BY <1>2, <2>1 DEF InsertPayment, Insertable, Ledger!Create
    <2> QED
      BY <2>2, VisibleType DEF Ledger!LedgerNext
  <1>3. ASSUME NEW c \in Calls, VerifyPayment(c)
        PROVE  [Ledger!LedgerNext]_(Ledger!ledgerVars)
    <2>1. CASE txn[calls[c].d] = "none"
      BY <1>0, <1>3, <2>1, VisibleType
      DEF VerifyPayment, TypeOK, Ledger!LedgerTypeOK
    <2>2. CASE txn[calls[c].d] # "none"
      <3>1. Ledger!Record(calls[c].d, "success")
        BY <1>3, <2>2, VisibleType
        DEF VerifyPayment, ReportsSuccess, Ledger!Record, Ledger!Backs, TypeOK,
            Ledger!LedgerTypeOK
      <3> QED
        BY <3>1, VisibleType DEF Ledger!LedgerNext, Ledger!Status
    <2> QED
      BY <2>1, <2>2
  <1>4. CASE Payments
    BY <1>4 DEF Payments, Ledger!LedgerNext, Ledger!Fact
  <1> QED
    BY <1>0, <1>1, <1>2, <1>3, <1>4
    DEF Next, Step, CreateDispatch, Start, ReadForUpdate, ReadForCompletion,
        ReadForVerification, Diff, Write, Notify, Commit, Fail, Crash, vars

(* What a step may do to the ledger as the others see it. *)
LedgerGrows ==
    \A d \in Dispatches :
        /\ txn[d] # "none" => txn'[d] # "none"
        /\ facts[d] \subseteq facts'[d]

LEMMA LedgerKeeps ==
  ASSUME TypeOK, \A d \in Dispatches : txn[d] # "none" => "opened" \in facts[d],
         [Ledger!LedgerNext]_(Ledger!ledgerVars)
  PROVE  /\ LedgerGrows
         /\ \A d \in Dispatches : txn'[d] # "none" => "opened" \in facts'[d]
  <1> USE DEF TypeOK, Ledger!LedgerTypeOK, LedgerGrows
  <1>1. CASE UNCHANGED Ledger!ledgerVars
    BY <1>1 DEF Ledger!ledgerVars
  <1>2. ASSUME NEW d \in Dispatches, NEW f \in Ledger!Fact, Ledger!Happen(d, f)
        PROVE  /\ LedgerGrows
               /\ \A e \in Dispatches : txn'[e] # "none" => "opened" \in facts'[e]
    BY <1>2 DEF Ledger!Happen
  <1>3. ASSUME NEW d \in Dispatches, Ledger!Create(d)
        PROVE  /\ LedgerGrows
               /\ \A e \in Dispatches : txn'[e] # "none" => "opened" \in facts'[e]
    BY <1>3 DEF Ledger!Create
  <1>4. ASSUME NEW d \in Dispatches, NEW s \in Ledger!Status, Ledger!Record(d, s)
        PROVE  /\ LedgerGrows
               /\ \A e \in Dispatches : txn'[e] # "none" => "opened" \in facts'[e]
    BY <1>4 DEF Ledger!Record, Ledger!Status
  <1> QED
    BY <1>1, <1>2, <1>3, <1>4 DEF Ledger!LedgerNext

-----------------------------------------------------------------------------
(* The step that keeps the invariant. *)

LEMMA OthersKeep ==
  ASSUME TypeOK, LedgerGrows, NEW e \in Calls, CallInv(e), calls'[e] = calls[e]
  PROVE  CallInv(e)'
  <1>1. calls[e].d \in Dispatches
    BY VisibleType
  <1> QED
    BY <1>1 DEF CallInv, RowBacked, Placed, Carried, Completing, LedgerGrows

LEMMA FreshInv ==
  ASSUME NEW c \in Calls, calls'[c] = NoCall
  PROVE  CallInv(c)' /\ ~Completing(c)' /\ ~calls'[c].ent.ref
  BY NoCallType, RowType DEF CallInv, RowBacked, Placed, Carried, Completing

(* A step of call c, apart from the one that creates a payment: what has to  *)
(* be shown of c itself, of the table and of the mails.                      *)
LEMMA CallKeeps ==
  ASSUME TypeOK, TypeOK', DispatchInv, LedgerGrows, NEW c \in Calls,
         \A d \in Dispatches : txn'[d] # "none" => "opened" \in facts'[d],
         \A e \in Calls \ {c} : calls'[e] = calls[e],
         CallInv(c)',
         LinkIsPayable',
         Completing(c)' => Completing(c) /\ calls'[c].d = calls[c].d,
         ~Completing(c)' /\ calls'[c].ent.ref => NoneCompletes(calls'[c].d),
         \A d \in Dispatches : RowBacked(d, rows[d])',
         \A d \in Dispatches : rows'[d].ref => NoneCompletes(d)'
  PROVE  DispatchInv'
  <1>1. \A e \in Calls : CallInv(e)'
    BY OthersKeep DEF DispatchInv
  <1>2. \A e \in Calls : Completing(e)' => Completing(e) /\ calls'[e].d = calls[e].d
    BY DEF Completing
  <1>3. \A d \in Dispatches : NoneCompletes(d) => NoneCompletes(d)'
    BY <1>2 DEF NoneCompletes
  <1>4. \A e \in Calls : calls[e].d \in Dispatches /\ calls'[e].d \in Dispatches
    BY DEF TypeOK, Call
  <1>5. CompletedOnce'
    <2>1. ASSUME NEW e \in Calls, Completing(e)' PROVE ~rows'[calls'[e].d].ref
      BY <2>1, <1>4 DEF NoneCompletes
    <2>2. ASSUME NEW e \in Calls, Completing(e)', NEW f \in Calls \ {e}, Completing(f)'
          PROVE  calls'[f].d # calls'[e].d
      BY <2>2, <1>2 DEF CompletedOnce, DispatchInv
    <2> QED
      BY <2>1, <2>2 DEF CompletedOnce
  <1>6. Unseen'
    <2>1. ASSUME NEW e \in Calls, ~Completing(e)', calls'[e].ent.ref
          PROVE  NoneCompletes(calls[e].d)'
      <3>1. CASE e = c
        BY <3>1, <2>1, <1>3, <1>4
      <3>2. CASE e # c
        <4>1. ~Completing(e) /\ calls'[e] = calls[e]
          BY <2>1, <3>2 DEF Completing
        <4>2. NoneCompletes(calls[e].d)
          BY <2>1, <4>1 DEF DispatchInv, Unseen
        <4> QED
          BY <4>1, <4>2, <1>3, <1>4
      <3> QED
        BY <3>1, <3>2
    <2> QED
      BY <2>1 DEF Unseen
  <1> QED
    BY <1>1, <1>5, <1>6 DEF DispatchInv

(* The same of a step that leaves the table and the mails alone. *)
LEMMA QuietKeeps ==
  ASSUME TypeOK, TypeOK', DispatchInv, LedgerGrows, NEW c \in Calls,
         UNCHANGED <<rows, told>>,
         \A d \in Dispatches : txn'[d] # "none" => "opened" \in facts'[d],
         \A e \in Calls \ {c} : calls'[e] = calls[e],
         CallInv(c)',
         Completing(c)' => Completing(c) /\ calls'[c].d = calls[c].d,
         ~Completing(c)' /\ calls'[c].ent.ref => NoneCompletes(calls'[c].d)
  PROVE  DispatchInv'
  <1>1. LinkIsPayable'
    BY DEF LinkIsPayable, DispatchInv, LedgerGrows
  <1>2. \A d \in Dispatches : RowBacked(d, rows[d])'
    BY DEF RowBacked, DispatchInv, LedgerGrows
  <1>3. ASSUME NEW d \in Dispatches, rows'[d].ref PROVE NoneCompletes(d)'
    <2>1. NoneCompletes(d)
      BY <1>3 DEF DispatchInv, CompletedOnce, NoneCompletes
    <2> QED
      BY <2>1 DEF NoneCompletes, Completing
  <1> QED
    BY <1>1, <1>2, <1>3, CallKeeps

LEMMA DispatchInit == Init => DispatchInv
  BY NoCallType, RowType
  DEF Init, DispatchInv, RowBacked, LinkIsPayable, CompletedOnce, Completing, CallInv,
      Placed, Carried, Unseen, Ledger!LedgerInit

LEMMA DispatchNext == TypeOK /\ DispatchInv /\ [Next]_vars => DispatchInv'
  <1> SUFFICES ASSUME TypeOK, DispatchInv, [Next]_vars PROVE DispatchInv'
    OBVIOUS
  <1>t. TypeOK'
    BY TypeNext
  <1>g. /\ LedgerGrows
        /\ \A d \in Dispatches : txn'[d] # "none" => "opened" \in facts'[d]
    BY StepRefines, LedgerKeeps DEF DispatchInv
  <1>v. ASSUME NEW c \in Calls
        PROVE  /\ calls[c].d \in Dispatches /\ CallInv(c)
               /\ RowBacked(calls[c].d, rows[calls[c].d])
    BY VisibleType DEF DispatchInv
  <1>q. ASSUME UNCHANGED calls, UNCHANGED told,
               \A d \in Dispatches : rows'[d] = rows[d] \/ (~rows'[d].ref /\ ~rows'[d].verified)
        PROVE  DispatchInv'
    <2>1. \A c \in Calls : CallInv(c)'
      BY <1>q, <1>g, <1>v, OthersKeep
    <2>2. LinkIsPayable'
      BY <1>q, <1>g DEF LinkIsPayable, DispatchInv, LedgerGrows
    <2>3. \A d \in Dispatches : RowBacked(d, rows[d])'
      BY <1>q, <1>g DEF RowBacked, DispatchInv, LedgerGrows
    <2>4. CompletedOnce' /\ Unseen'
      BY <1>q, <1>v DEF CompletedOnce, Completing, Unseen, NoneCompletes, DispatchInv
    <2> QED
      BY <1>g, <2>1, <2>2, <2>3, <2>4 DEF DispatchInv
  <1>1. ASSUME NEW d \in Dispatches, CreateDispatch(d) PROVE DispatchInv'
    BY <1>1, <1>q, RowType DEF CreateDispatch, TypeOK, Row, NoRow
  <1>2. ASSUME NEW c \in Calls, NEW op \in Op, NEW d \in Dispatches, NEW s \in Wanted,
               Start(c, op, d, s)
        PROVE  DispatchInv'
    <2>1. Slot(c, op, d, "read", NoRow, NoCall.cols, FALSE, NoRow)
      BY <1>2, StartSlot
    <2>2. CallInv(c)' /\ ~Completing(c)' /\ ~calls'[c].ent.ref
      BY <2>1, RowType DEF Slot, CallInv, RowBacked, Placed, Carried, Completing
    <2> QED
      BY <1>2, <1>t, <1>g, <2>1, <2>2, QuietKeeps DEF Slot, Start
  <1>3. ASSUME NEW c \in Calls, ReadForUpdate(c) \/ ReadForCompletion(c) PROVE DispatchInv'
    <2>1. PICK ent \in Row :
             /\ ent.ref = rows[calls[c].d].ref
             /\ ent.verified = rows[calls[c].d].verified
             /\ Slot(c, calls[c].op, calls[c].d, "save", ent, calls[c].cols,
                     calls[c].holds, calls[c].work)
      BY <1>3, StatusSlot, VisibleType DEF ReadForUpdate, ReadForCompletion, Call, DispatchStatus
    <2>2. calls[c].op # "verify" /\ calls[c].at = "read"
      BY <1>3 DEF ReadForUpdate, ReadForCompletion
    <2>3. CallInv(c)' /\ ~Completing(c)'
      BY <1>3, <1>v, <2>1, <2>2
      DEF ReadForUpdate, ReadForCompletion, Slot, CallInv, RowBacked, Placed, Carried, Completing
    <2>4. calls'[c].ent.ref => NoneCompletes(calls[c].d)
      BY <1>v, <2>1 DEF Slot, DispatchInv, CompletedOnce, NoneCompletes
    <2> QED
      BY <1>3, <1>t, <1>g, <2>1, <2>3, <2>4, QuietKeeps
      DEF Slot, ReadForUpdate, ReadForCompletion
  <1>4. ASSUME NEW c \in Calls, ReadForVerification(c) PROVE DispatchInv'
    <2>1. Slot(c, calls[c].op, calls[c].d, "verify_payment", rows[calls[c].d],
               calls[c].cols, calls[c].holds, calls[c].work)
      BY <1>4, ReadSlot, VisibleType DEF ReadForVerification, At
    <2>2. CallInv(c)' /\ ~Completing(c)'
      BY <1>4, <1>v, <2>1
      DEF ReadForVerification, Slot, CallInv, RowBacked, Placed, Carried, Completing
    <2>3. calls'[c].ent.ref => NoneCompletes(calls[c].d)
      BY <1>v, <2>1 DEF Slot, DispatchInv, CompletedOnce, NoneCompletes
    <2> QED
      BY <1>4, <1>t, <1>g, <2>1, <2>2, <2>3, QuietKeeps DEF Slot, ReadForVerification
  <1>5. ASSUME NEW c \in Calls, Diff(c) PROVE DispatchInv'
    <2>1. PICK cols \in SUBSET Column :
            /\ cols = {x \in Column : calls[c].ent[x] # Visible(c)[x]}
            /\ Slot(c, calls[c].op, calls[c].d,
                    IF calls[c].at = "save" THEN "write" ELSE "write_ref",
                    calls[c].ent, cols, calls[c].holds, calls[c].work)
      BY <1>5, DiffSlot
    <2>2. calls[c].at = "save_ref" => "ref" \in cols \/ (calls[c].holds /\ calls[c].work.ref)
      <3>1. SUFFICES ASSUME calls[c].at = "save_ref", "ref" \notin cols
                     PROVE  calls[c].holds /\ calls[c].work.ref
        OBVIOUS
      <3>2. Visible(c).ref /\ ~rows[calls[c].d].ref
        BY <1>v, <2>1, <3>1, VisibleType
        DEF CallInv, Carried, Column, Row, DispatchInv, CompletedOnce, Completing
      <3> QED
        BY <3>2 DEF Visible
    <2>3. CallInv(c)' /\ (Completing(c)' <=> Completing(c))
      BY <1>5, <1>v, <2>1, <2>2
      DEF Diff, Slot, CallInv, RowBacked, Placed, Carried, Completing
    <2> QED
      BY <1>5, <1>t, <1>g, <2>1, <2>3, QuietKeeps DEF Slot, Diff, DispatchInv, Unseen
  <1>6. ASSUME NEW c \in Calls, Write(c) PROVE DispatchInv'
    <2>1. PICK new \in Row :
            /\ Store(c, new)
            /\ new.ref = IF "ref" \in calls[c].cols
                         THEN calls[c].ent.ref ELSE Visible(c).ref
            /\ new.verified = IF "verified" \in calls[c].cols
                              THEN calls[c].ent.verified ELSE Visible(c).verified
      BY <1>6, WriteMerges
    <2>2. RowBacked(calls[c].d, new) /\ UNCHANGED <<txn, facts>>
      BY <1>6, <1>v, <2>1 DEF CallInv, RowBacked, Visible, Write
    <2>3. CASE InTransaction(c)
      <3>1. /\ UNCHANGED <<rows, told>>
            /\ Slot(c, calls[c].op, calls[c].d,
                    IF calls[c].at = "write" THEN "gateway" ELSE "notify",
                    calls[c].ent, {}, calls[c].holds \/ calls[c].cols # {},
                    IF calls[c].cols = {} THEN calls[c].work ELSE new)
        BY <2>1, <2>3, StoreSlot
      <3>2. calls[c].at = "write_ref" =>
               /\ calls[c].cols = {} => calls[c].holds /\ calls[c].work.ref
               /\ calls[c].cols # {} => new.ref
        BY <1>v, <2>1 DEF CallInv, Carried, Visible
      <3>3. CallInv(c)' /\ (Completing(c)' <=> Completing(c))
        BY <1>6, <1>v, <2>2, <2>3, <3>1, <3>2
        DEF Write, Slot, InTransaction, CallInv, RowBacked, Placed, Carried, Completing
      <3> QED
        BY <1>t, <1>g, <3>1, <3>3, QuietKeeps DEF Slot, DispatchInv, Unseen
    <2>4. CASE ~InTransaction(c)
      <3>1. rows' = [rows EXCEPT ![calls[c].d] = new] /\ Tell(c) /\ Return(c)
        BY <2>1, <2>4 DEF Store
      <3>2. /\ CallInv(c)' /\ ~Completing(c)' /\ ~calls'[c].ent.ref
            /\ \A e \in Calls \ {c} : calls'[e] = calls[e]
        BY <3>1, ReturnType, FreshInv DEF TypeOK
      <3>3. told' = told
        BY <2>4, <3>1 DEF Tell, HasAddress
      <3>4. LinkIsPayable'
        BY <3>3, <1>g DEF LinkIsPayable, DispatchInv, LedgerGrows
      <3>5. \A d \in Dispatches : RowBacked(d, rows[d])'
        BY <2>2, <3>1, <1>g DEF RowBacked, DispatchInv, LedgerGrows, TypeOK
      <3>6. new.ref => NoneCompletes(calls[c].d)
        <4>1. calls[c].ent.ref => NoneCompletes(calls[c].d)
          BY <1>6, <1>v, <2>4 DEF DispatchInv, Unseen, Write, CallInv, Placed,
                                  InTransaction, Completing
        <4>2. rows[calls[c].d].ref => NoneCompletes(calls[c].d)
          BY DEF DispatchInv, CompletedOnce, NoneCompletes
        <4>3. ~calls[c].holds
          BY <1>v, <2>4 DEF CallInv, Placed, InTransaction
        <4> QED
          BY <2>1, <4>1, <4>2, <4>3 DEF Visible
      <3>7. ASSUME NEW d \in Dispatches, rows'[d].ref PROVE NoneCompletes(d)'
        <4>1. NoneCompletes(d)
          BY <3>1, <3>6, <3>7 DEF TypeOK, DispatchInv, CompletedOnce, NoneCompletes
        <4> QED
          BY <3>2, <4>1 DEF NoneCompletes, Completing
      <3> QED
        BY <1>t, <1>g, <3>2, <3>4, <3>5, <3>7, CallKeeps
    <2> QED
      BY <2>3, <2>4
  <1>7. ASSUME NEW c \in Calls, OpenPayment(c) PROVE DispatchInv'
    <2>1. Slot(c, calls[c].op, calls[c].d, "insert", calls[c].ent, calls[c].cols,
               calls[c].holds, calls[c].work)
      BY <1>7, OpenSlot DEF OpenPayment, At
    <2>2. "opened" \in facts'[calls[c].d]
      BY <1>7, <1>v DEF OpenPayment, TypeOK, Ledger!LedgerTypeOK
    <2>3. CallInv(c)' /\ ~Completing(c) /\ ~Completing(c)'
      BY <1>7, <1>g, <1>v, <2>1, <2>2
      DEF OpenPayment, Slot, CallInv, RowBacked, Placed, Carried, Completing, LedgerGrows
    <2> QED
      BY <1>7, <1>t, <1>g, <2>1, <2>3, QuietKeeps DEF Slot, OpenPayment, DispatchInv, Unseen
  <1>8. ASSUME NEW c \in Calls, InsertPayment(c) PROVE DispatchInv'
    <2>1. PICK ent \in Row :
            /\ ent.ref /\ ent.verified = calls[c].ent.verified
            /\ Slot(c, calls[c].op, calls[c].d, "save_ref", ent, calls[c].cols,
                    calls[c].holds, calls[c].work)
      BY <1>8, InsertSlot
    <2>2. txn[calls[c].d] = "none" /\ txn'[calls[c].d] = "pending" /\ UNCHANGED <<rows, told>>
      BY <1>8, <1>v DEF InsertPayment, Insertable, TypeOK, Ledger!LedgerTypeOK
    <2>3. NoneCompletes(calls[c].d) /\ ~rows[calls[c].d].ref
      BY <1>v, <2>2 DEF NoneCompletes, CallInv, RowBacked
    <2>4. \A e \in Calls : calls[e].d = calls[c].d => ~calls[e].ent.ref
      BY <1>v, <2>2 DEF CallInv, RowBacked
    <2>5. \A e \in Calls : CallInv(e)'
      <3>1. CallInv(c)'
        BY <1>8, <1>g, <1>v, <2>1, <2>2
        DEF InsertPayment, Slot, CallInv, RowBacked, Placed, Carried, Completing, LedgerGrows
      <3> QED
        BY <1>g, <1>v, <2>1, <3>1, OthersKeep DEF Slot
    <2>6. LinkIsPayable' /\ \A d \in Dispatches : RowBacked(d, rows[d])'
      BY <1>g, <2>2 DEF LinkIsPayable, RowBacked, DispatchInv, LedgerGrows
    <2>7. CompletedOnce'
      <3>1. ASSUME NEW e \in Calls, Completing(e)' PROVE ~rows'[calls'[e].d].ref
        BY <2>1, <2>2, <2>3, <3>1 DEF Slot, DispatchInv, CompletedOnce, Completing
      <3>2. ASSUME NEW e \in Calls, Completing(e)', NEW f \in Calls \ {e}, Completing(f)'
            PROVE  calls'[f].d # calls'[e].d
        BY <2>1, <2>3, <3>2 DEF Slot, DispatchInv, CompletedOnce, Completing, NoneCompletes
      <3> QED
        BY <3>1, <3>2 DEF CompletedOnce
    <2>8. Unseen'
      BY <2>1, <2>4 DEF Slot, DispatchInv, Unseen, NoneCompletes, Completing
    <2> QED
      BY <1>g, <2>5, <2>6, <2>7, <2>8 DEF DispatchInv
  <1>9. ASSUME NEW c \in Calls, Notify(c) PROVE DispatchInv'
    <2>1. Slot(c, calls[c].op, calls[c].d, "commit", calls[c].ent, calls[c].cols,
               calls[c].holds, calls[c].work)
      BY <1>9, OpenSlot DEF Notify, At
    <2>2. CallInv(c)' /\ Completing(c) /\ Completing(c)'
      BY <1>9, <1>v, <2>1
      DEF Notify, Slot, CallInv, RowBacked, Placed, Carried, Completing
    <2>3. txn[calls[c].d] # "none" /\ "opened" \in facts[calls[c].d]
      BY <1>v, <2>2 DEF CallInv, DispatchInv
    <2>4. told' \subseteq told \cup {<<calls[c].d, "status">>, <<calls[c].d, "payment">>,
                                     <<calls[c].d, "confirmation">>}
      BY <1>9, VisibleType DEF Notify, Tell, Call, Op
    <2>5. LinkIsPayable'
      BY <1>9, <2>3, <2>4 DEF Notify, LinkIsPayable, DispatchInv
    <2>6. \A d \in Dispatches : RowBacked(d, rows[d])' /\ (rows'[d].ref => NoneCompletes(d)')
      BY <1>9, <2>1, <2>2 DEF Notify, Slot, RowBacked, DispatchInv, CompletedOnce,
                              NoneCompletes, Completing
    <2> QED
      BY <1>t, <1>g, <2>1, <2>2, <2>5, <2>6, CallKeeps DEF Slot
  <1>10. ASSUME NEW c \in Calls, Commit(c) PROVE DispatchInv'
    <2>1. /\ CallInv(c)' /\ ~Completing(c)' /\ ~calls'[c].ent.ref
          /\ \A e \in Calls \ {c} : calls'[e] = calls[e]
      BY <1>10, ReturnType, FreshInv DEF Commit, TypeOK
    <2>2. LinkIsPayable'
      BY <1>10 DEF Commit, LinkIsPayable, DispatchInv
    <2>3. \A d \in Dispatches : RowBacked(d, rows[d])'
      BY <1>10, <1>v DEF Commit, RowBacked, DispatchInv, TypeOK, CallInv, Visible
    <2>4. ASSUME NEW d \in Dispatches, rows'[d].ref PROVE NoneCompletes(d)'
      <3>1. Completing(c)
        BY <1>10 DEF Commit, Completing
      <3>2. CASE d = calls[c].d
        BY <2>1, <3>1, <3>2 DEF DispatchInv, CompletedOnce, NoneCompletes, Completing
      <3>3. CASE d # calls[c].d
        BY <1>10, <2>1, <2>4, <3>3
        DEF Commit, TypeOK, DispatchInv, CompletedOnce, NoneCompletes, Completing
      <3> QED
        BY <3>2, <3>3
    <2> QED
      BY <1>t, <1>g, <2>1, <2>2, <2>3, <2>4, CallKeeps
  <1>11. ASSUME NEW c \in Calls, VerifyPayment(c) PROVE DispatchInv'
    <2>1. PICK ent \in Row :
            /\ ent.verified /\ ent.ref = calls[c].ent.ref
            /\ Slot(c, calls[c].op, calls[c].d, "save", ent, calls[c].cols,
                    calls[c].holds, calls[c].work)
      BY <1>11, VerifySlot
    <2>2. CallInv(c)' /\ ~Completing(c) /\ ~Completing(c)'
      BY <1>11, <1>g, <1>v, <2>1
      DEF VerifyPayment, ReportsSuccess, Slot, CallInv, RowBacked, Placed, Carried,
          Completing, LedgerGrows
    <2> QED
      BY <1>11, <1>t, <1>g, <2>1, <2>2, QuietKeeps
      DEF Slot, VerifyPayment, DispatchInv, Unseen
  <1>12. ASSUME NEW c \in Calls, Fail(c) PROVE DispatchInv'
    <2>1. /\ CallInv(c)' /\ ~Completing(c)' /\ ~calls'[c].ent.ref
          /\ \A e \in Calls \ {c} : calls'[e] = calls[e]
      BY <1>12, ReturnType, FreshInv DEF Fail, TypeOK
    <2> QED
      BY <1>12, <1>t, <1>g, <2>1, QuietKeeps DEF Fail
  <1>13. CASE Payments
    BY <1>13, <1>q DEF Payments
  <1>14. CASE Crash
    <2>1. \A c \in Calls : CallInv(c)' /\ ~Completing(c)' /\ ~calls'[c].ent.ref
      BY <1>14, FreshInv DEF Crash
    <2>2. CompletedOnce' /\ Unseen'
      BY <2>1 DEF CompletedOnce, Unseen
    <2> QED
      BY <1>14, <2>1, <2>2 DEF Crash, DispatchInv, RowBacked, LinkIsPayable
  <1>15. CASE UNCHANGED vars
    BY <1>15, <1>q DEF vars
  <1> QED
    BY <1>1, <1>2, <1>3, <1>4, <1>5, <1>6, <1>7, <1>8, <1>9, <1>10, <1>11, <1>12,
       <1>13, <1>14, <1>15 DEF Next, Step

(* Table, copies of its rows, locks and payments agree in every state.       *)
THEOREM AlwaysDispatchInv == Spec => []DispatchInv
  BY TypeCorrect, DispatchInit, DispatchNext, PTL DEF Spec

-----------------------------------------------------------------------------
(* A dispatch that carries a reference has a payment row, although the two   *)
(* are written by different transactions and rows are written back stale.    *)
THEOREM ReferenceSafe == Spec => []ReferenceHasPayment
  <1>1. DispatchInv => ReferenceHasPayment
    BY DEF DispatchInv, RowBacked, ReferenceHasPayment
  <1> QED
    BY <1>1, AlwaysDispatchInv, PTL

(* The mark "verified" is true of the gateway, however stale the entity that *)
(* carried it into the table.                                                *)
THEOREM VerifiedSafe == Spec => []VerifiedIsPaid
  <1>1. DispatchInv => VerifiedIsPaid
    BY DEF DispatchInv, RowBacked, VerifiedIsPaid
  <1> QED
    BY <1>1, AlwaysDispatchInv, PTL

(* Of the completions of a dispatch one at most gets past its payment.       *)
THEOREM CompletionSafe == Spec => []CompletedOnce
  <1>1. DispatchInv => CompletedOnce
    BY DEF DispatchInv
  <1> QED
    BY <1>1, AlwaysDispatchInv, PTL

(* A payment link that was mailed leads to a payment that can be recorded,   *)
(* even if the completion that sent it is rolled back.                       *)
THEOREM LinkSafe == Spec => []LinkIsPayable
  <1>1. DispatchInv => LinkIsPayable
    BY DEF DispatchInv
  <1> QED
    BY <1>1, AlwaysDispatchInv, PTL

(* completeDispatch and verifyDispatchPayment treat their payments as the    *)
(* ledger allows.                                                            *)
THEOREM DispatchKeepsLedger == Spec => Ledger!LedgerSpec
  <1>1. Init => Ledger!LedgerInit
    BY DEF Init
  <1> QED
    BY <1>1, StepRefines, TypeCorrect, AlwaysDispatchInv, PTL DEF Spec, Ledger!LedgerSpec

-----------------------------------------------------------------------------
(* The ways in which a row of the table changes. *)
LEMMA RowChanges ==
  ASSUME TypeOK, DispatchInv, [Next]_vars, NEW d \in Dispatches, rows'[d] # rows[d]
  PROVE  \/ CreateDispatch(d)
         \/ \E c \in Calls : /\ Commit(c) /\ calls[c].d = d /\ rows'[d].ref
         \/ \E c \in Calls :
               /\ Write(c) /\ ~InTransaction(c) /\ calls[c].d = d /\ calls[c].at = "write"
               /\ UNCHANGED txn /\ \A e \in Calls \ {c} : calls'[e] = calls[e]
               /\ rows[d].ref /\ ~rows'[d].ref => ~calls[c].ent.ref
  <1>1. ASSUME NEW e \in Dispatches, CreateDispatch(e) PROVE e = d
    BY <1>1 DEF CreateDispatch, TypeOK
  <1>2. ASSUME NEW c \in Calls, Commit(c) PROVE calls[c].d = d /\ rows'[d].ref
    BY <1>2, VisibleType DEF Commit, TypeOK, DispatchInv, CallInv, Carried, Visible
  <1>3. ASSUME NEW c \in Calls, Write(c)
        PROVE  /\ ~InTransaction(c) /\ calls[c].d = d /\ calls[c].at = "write"
               /\ UNCHANGED txn /\ \A e \in Calls \ {c} : calls'[e] = calls[e]
               /\ rows[d].ref /\ ~rows'[d].ref => ~calls[c].ent.ref
    <2>1. PICK new \in Row :
            /\ Store(c, new)
            /\ new.ref = IF "ref" \in calls[c].cols
                         THEN calls[c].ent.ref ELSE Visible(c).ref
      BY <1>3, WriteMerges
    <2>2. ~InTransaction(c)
      BY <2>1 DEF Store
    <2>3. rows' = [rows EXCEPT ![calls[c].d] = new] /\ Return(c)
      BY <2>1, <2>2 DEF Store
    <2>4. calls[c].d = d /\ rows'[d] = new /\ \A e \in Calls \ {c} : calls'[e] = calls[e]
      BY <2>3, ReturnType, VisibleType DEF TypeOK
    <2>5. calls[c].at = "write" /\ ~calls[c].holds
      BY <1>3, <2>2 DEF Write, InTransaction, DispatchInv, CallInv, Placed
    <2> QED
      BY <1>3, <2>1, <2>2, <2>4, <2>5 DEF Write, Visible
  <1> QED
    BY <1>1, <1>2, <1>3
    DEF Next, Step, Start, ReadForUpdate, ReadForCompletion, ReadForVerification, Diff,
        OpenPayment, InsertPayment, Notify, VerifyPayment, Fail, Payments, Crash, vars

(* A completion publishes all it has to say of a dispatch in one step, and   *)
(* that step brings the payment reference with it.                           *)
THEOREM PublishesTogether == Spec => PublishedTogether
  <1>1. ASSUME TypeOK, DispatchInv, [Next]_vars
        PROVE  [\A d \in Dispatches :
                  /\ rows'[d] # rows[d]
                  /\ \E c \in Calls : InTransaction(c) /\ calls[c].d = d /\ calls'[c] # calls[c]
                  => rows'[d].ref]_vars
    <2> SUFFICES ASSUME NEW d \in Dispatches, rows'[d] # rows[d],
                        NEW c \in Calls, InTransaction(c), calls[c].d = d,
                        calls'[c] # calls[c]
                 PROVE  rows'[d].ref
      OBVIOUS
    <2>1. ~CreateDispatch(d)
      BY DEF CreateDispatch
    <2> QED
      BY <1>1, <2>1, RowChanges
  <1> QED
    BY <1>1, TypeCorrect, AlwaysDispatchInv, PTL DEF Spec, PublishedTogether

(* Whatever calls overlap: a committed payment reference is lost only to a   *)
(* status update that read the row before.                                   *)
THEOREM OnlyStaleErases == Spec => OnlyStaleUpdateErases
  <1>1. ASSUME TypeOK, DispatchInv, [Next]_vars
        PROVE  [\A d \in Dispatches : rows[d].ref /\ ~rows'[d].ref =>
                  \E c \in Calls : /\ calls[c].op = "update" /\ calls[c].d = d
                                   /\ calls[c].at = "write" /\ ~calls[c].ent.ref]_vars
    <2> SUFFICES ASSUME NEW d \in Dispatches, rows[d].ref, ~rows'[d].ref
                 PROVE  \E c \in Calls : /\ calls[c].op = "update" /\ calls[c].d = d
                                         /\ calls[c].at = "write" /\ ~calls[c].ent.ref
      OBVIOUS
    <2>1. ~CreateDispatch(d)
      BY RowType DEF CreateDispatch
    <2>2. PICK c \in Calls : /\ ~InTransaction(c) /\ calls[c].d = d
                             /\ calls[c].at = "write" /\ ~calls[c].ent.ref
      BY <1>1, <2>1, RowChanges
    <2>3. calls[c].op = "update"
      BY <1>1, <2>2, VisibleType DEF InTransaction, Call, Op, DispatchInv, CallInv, Placed
    <2> QED
      BY <2>2, <2>3
  <1> QED
    BY <1>1, TypeCorrect, AlwaysDispatchInv, PTL DEF Spec, OnlyStaleUpdateErases


=============================================================================
