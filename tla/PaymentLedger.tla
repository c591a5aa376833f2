--------------------------- MODULE PaymentLedger ---------------------------
(***************************************************************************)
(* What the payment component promises, with the requests, the retries and *)
(* the webhooks left out: for every payment reference there is at most one *)
(* row in the table transactions, it appears as pending once the gateway   *)
(* knows the reference, it never disappears, and a status other than       *)
(* pending is always something that really happened at the gateway.        *)
(***************************************************************************)
EXTENDS Naturals

CONSTANT Refs  \* payment references

VARIABLES
    txn,       \* txn[r]: the status column of r's row, "none" without a row
    facts      \* facts[r]: what has happened to r at the gateway; only grows

ledgerVars == <<txn, facts>>

Fact == {"opened", "charged", "declined", "refunded"}
Status == {"pending", "success", "failed", "refunded"}

(***************************************************************************)
(* Whether the gateway's history F of a reference bears out the status s.  *)
(* Pending says nothing, so every history bears it out.                    *)
(***************************************************************************)
Backs(F, s) ==
    \/ s = "pending"
    \/ s = "success"  /\ "charged" \in F
    \/ s = "failed"   /\ "declined" \in F
    \/ s = "refunded" /\ "refunded" \in F

LedgerTypeOK ==
    /\ txn \in [Refs -> Status \cup {"none"}]
    /\ facts \in [Refs -> SUBSET Fact]

LedgerInit ==
    /\ txn = [r \in Refs |-> "none"]
    /\ facts = [r \in Refs |-> {}]

(* The gateway learns something about r: a refund presupposes a charge, and *)
(* a charge or a refusal presupposes that the payment was initialised.      *)
Happen(r, f) ==
    /\ f \in {"charged", "declined"} => "opened" \in facts[r]
    /\ f = "refunded" => "charged" \in facts[r]
    /\ facts' = [facts EXCEPT ![r] = @ \cup {f}]
    /\ UNCHANGED txn

(* The row of r appears. *)
Create(r) ==
    /\ txn[r] = "none"
    /\ "opened" \in facts[r]
    /\ txn' = [txn EXCEPT ![r] = "pending"]
    /\ UNCHANGED facts

(* The row of r is given a status that its history at the gateway bears out. *)
Record(r, s) ==
    /\ txn[r] # "none"
    /\ Backs(facts[r], s)
    /\ txn' = [txn EXCEPT ![r] = s]
    /\ UNCHANGED facts

LedgerNext ==
    \E r \in Refs :
        \/ \E f \in Fact : Happen(r, f)
        \/ Create(r)
        \/ \E s \in Status : Record(r, s)

LedgerSpec == LedgerInit /\ [][LedgerNext]_ledgerVars

=============================================================================
