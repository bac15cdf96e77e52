---------------------------- MODULE CreditLedger ----------------------------
(***************************************************************************)
(* Tenant credit accounts of the control plane: balance, ledger and        *)
(* authorizations (holds), as changed by the billing handlers, the admin   *)
(* recharge, the daily check-in and the background reconcile loop.         *)
(*                                                                         *)
(* Every handler is one PostgreSQL transaction that locks the              *)
(* authorization row and then the account row, so each is one action here; *)
(* the reconcile loop locks many rows, and its transaction is split into   *)
(* its steps. A handler that waits for a row lock is disabled. One that    *)
(* returns an error rolls back and changes nothing: it is not an action.   *)
(***************************************************************************)
EXTENDS Integers, FiniteSets

CONSTANTS
    Tenants,      \* tenants that own an account row
    Requests,     \* the (tenant_id, request_id) keys of authorizations
    TenantOf,     \* the tenant of each key
    Reserves,     \* reserved_microcredits a caller may ask for
    Charges,      \* what calculate_charged_microcredits may return
    Amounts,      \* amounts of a recharge or of a check-in reward
    Reconcilers,  \* reconcile loops, one per control-plane process
    Batch,        \* batch_size of a reconcile tick
    MaxI64,       \* the largest value of an i64 balance
    MaxDeposits   \* bound: total credited to one tenant

ASSUME LedgerAssumption ==
    /\ TenantOf \in [Requests -> Tenants]
    /\ MaxI64 \in Nat
    /\ MaxDeposits \in Nat
    /\ Batch \in Nat \ {0}
    /\ Reserves \subseteq 1 .. MaxI64
    /\ Charges \subseteq 0 .. MaxI64
    /\ Amounts \subseteq 1 .. MaxI64

VARIABLES
    balance,      \* tenant_credit_accounts.balance_microcredits
    deposits,     \* sum of the recharge and check-in rows of the ledger
    posted,       \* sum of the ledger deltas that name a request
    indexed,      \* requests with a row in the unique ledger index
    auths,        \* tenant_credit_authorizations
    claimed,      \* tenants with a tenant_daily_checkins row for today
    recon         \* the open transaction of each reconcile loop

ledgerVars == <<balance, deposits, posted, indexed, auths, claimed>>
vars == <<balance, deposits, posted, indexed, auths, claimed, recon>>

Statuses == {"none", "authorized", "captured", "released"}

\* "none" stands for no row; due: expires_at (authorized) or the stale
\* horizon of updated_at (captured) has passed.
Authorizations ==
    [status: Statuses, reserved: 0 .. MaxI64, captured: 0 .. MaxI64, due: BOOLEAN]

NoAuthorization ==
    [status |-> "none", reserved |-> 0, captured |-> 0, due |-> FALSE]

\* The rows a reconcile transaction has locked and not yet closed (todo), the
\* rows it has closed (done) and the refunds it has not yet committed.
Reconciles ==
    [open: BOOLEAN, todo: SUBSET Requests, done: SUBSET Requests, refund: [Tenants -> Nat]]

NoReconcile ==
    [open |-> FALSE, todo |-> {}, done |-> {}, refund |-> [t \in Tenants |-> 0]]

TypeOK ==
    /\ balance \in [Tenants -> Int]
    /\ deposits \in [Tenants -> Nat]
    /\ posted \in [Requests -> Int]
    /\ indexed \subseteq Requests
    /\ auths \in [Requests -> Authorizations]
    /\ claimed \subseteq Tenants
    /\ recon \in [Reconcilers -> Reconciles]

Init ==
    /\ balance = [t \in Tenants |-> 0]
    /\ deposits = [t \in Tenants |-> 0]
    /\ posted = [r \in Requests |-> 0]
    /\ indexed = {}
    /\ auths = [r \in Requests |-> NoAuthorization]
    /\ claimed = {}
    /\ recon = [k \in Reconcilers |-> NoReconcile]

-----------------------------------------------------------------------------
AtLeastZero(n) == IF n < 0 THEN 0 ELSE n

\* i64::saturating_add on a balance; a delta below zero is checked by Affordable.
SaturatingAdd(a, b) == IF a + b > MaxI64 THEN MaxI64 ELSE a + b

AffordableUnchecked(t, delta) == TRUE

\* next_balance < 0 is the "insufficient credits" error.
Affordable(t, delta) == SaturatingAdd(balance[t], delta) >= 0

ReleasableWhole(a) == a.reserved

Releasable(a) == AtLeastZero(a.reserved - a.captured)

ExtraCharge(a, charge) == AtLeastZero(charge - a.reserved)

\* Row locks of the open reconcile transactions.
Held(k) == recon[k].todo \cup recon[k].done

Locked == UNION {Held(k) : k \in Reconcilers}

HoldsAccount(k, t) == recon[k].refund[t] > 0

AccountFree(t) == \A k \in Reconcilers : ~HoldsAccount(k, t)

-----------------------------------------------------------------------------
Deposit(t, amount) ==
    /\ deposits[t] + amount <= MaxDeposits
    /\ AccountFree(t)
    /\ balance' = [balance EXCEPT ![t] = SaturatingAdd(@, amount)]
    /\ deposits' = [deposits EXCEPT ![t] = @ + amount]
    /\ UNCHANGED <<posted, indexed, auths, recon>>

AdminRecharge(t, amount) ==
    /\ Deposit(t, amount)
    /\ UNCHANGED claimed

DailyCheckin(t, amount) ==
    /\ t \notin claimed
    /\ Deposit(t, amount)
    /\ claimed' = claimed \cup {t}

\* The date in tenant_daily_checkins changes.
NewDay ==
    /\ claimed' = {}
    /\ UNCHANGED <<balance, deposits, posted, indexed, auths, recon>>

\* A ledger delta for request r and the account update that goes with it.
PostDelta(r, delta) ==
    /\ AccountFree(TenantOf[r])
    /\ Affordable(TenantOf[r], delta)
    /\ balance' = [balance EXCEPT ![TenantOf[r]] = SaturatingAdd(@, delta)]
    /\ posted' = [posted EXCEPT ![r] = @ + delta]

BillingAuthorize(r, reserve) ==
    /\ auths[r].status = "none"
    /\ PostDelta(r, -reserve)
    /\ auths' = [auths EXCEPT ![r] = [status |-> "authorized", reserved |-> reserve,
                                      captured |-> 0, due |-> FALSE]]
    /\ UNCHANGED <<deposits, indexed, claimed, recon>>

\* The capture row is the only one with a request_id, hence the only one
\* under the unique index; a second row aborts the transaction.
BillingCapture(r, charge) ==
    /\ r \notin Locked
    /\ auths[r].status = "authorized"
    /\ r \notin indexed
    /\ PostDelta(r, -ExtraCharge(auths[r], charge))
    /\ indexed' = indexed \cup {r}
    /\ auths' = [auths EXCEPT ![r].status = "captured", ![r].captured = charge,
                              ![r].due = FALSE]
    /\ UNCHANGED <<deposits, claimed, recon>>

BillingReleaseTwice(r) ==
    /\ r \notin Locked
    /\ auths[r].status # "none"
    /\ PostDelta(r, Releasable(auths[r]))
    /\ auths' = [auths EXCEPT ![r].status = "released"]
    /\ UNCHANGED <<deposits, indexed, claimed, recon>>

BillingRelease(r) ==
    /\ r \notin Locked
    /\ auths[r].status \in {"authorized", "captured"}
    /\ PostDelta(r, Releasable(auths[r]))
    /\ auths' = [auths EXCEPT ![r].status = "released"]
    /\ UNCHANGED <<deposits, indexed, claimed, recon>>

-----------------------------------------------------------------------------
CapturedCandidates == {r \in Requests : auths[r].status = "captured" /\ auths[r].due}

Candidates == {r \in Requests : auths[r].status \in {"authorized", "captured"}
                                /\ auths[r].due}

\* A tick selects a batch of candidates FOR UPDATE SKIP LOCKED, oldest
\* updated_at first; which rows are oldest is left open.
ReconcileSelect(k, S) ==
    /\ ~recon[k].open
    /\ S \subseteq Candidates \ Locked
    /\ S # {}
    /\ \/ Cardinality(S) = Batch
       \/ Cardinality(S) < Batch /\ S = Candidates \ Locked
    /\ recon' = [recon EXCEPT ![k] = [NoReconcile EXCEPT !.open = TRUE, !.todo = S]]
    /\ UNCHANGED ledgerVars

\* One iteration of the loop over the selected rows. A refund waits for the
\* account row if another reconcile transaction has it.
CloseRow(tx, r) ==
    [open |-> TRUE, todo |-> tx.todo \ {r}, done |-> tx.done \cup {r},
     refund |-> [tx.refund EXCEPT ![TenantOf[r]] = @ + Releasable(auths[r])]]

ReconcileRow(k, r) ==
    /\ r \in recon[k].todo
    /\ Releasable(auths[r]) > 0 =>
           \A j \in Reconcilers \ {k} : ~HoldsAccount(j, TenantOf[r])
    /\ recon' = [recon EXCEPT ![k] = CloseRow(recon[k], r)]
    /\ UNCHANGED ledgerVars

ReconcileCommit(k) ==
    /\ recon[k].open
    /\ recon[k].todo = {}
    /\ LET done == recon[k].done
       IN  /\ balance' = [t \in Tenants |-> SaturatingAdd(balance[t], recon[k].refund[t])]
           /\ posted' = [r \in Requests |->
                  posted[r] + (IF r \in done THEN Releasable(auths[r]) ELSE 0)]
           /\ auths' = [r \in Requests |->
                  IF r \in done THEN [auths[r] EXCEPT !.status = "released"] ELSE auths[r]]
    /\ recon' = [recon EXCEPT ![k] = NoReconcile]
    /\ UNCHANGED <<deposits, indexed, claimed>>

\* A failed statement, a deadlock victim or a stopped process: the
\* transaction rolls back and the loop goes on with its next tick.
ReconcileAbort(k) ==
    /\ recon[k].open
    /\ recon' = [recon EXCEPT ![k] = NoReconcile]
    /\ UNCHANGED ledgerVars

\* The clock passes expires_at, or the stale horizon of updated_at.
BecomeDue(r) ==
    /\ auths[r].status \in {"authorized", "captured"}
    /\ ~auths[r].due
    /\ auths' = [auths EXCEPT ![r].due = TRUE]
    /\ UNCHANGED <<balance, deposits, posted, indexed, claimed, recon>>

ReconcileStep(k) ==
    \/ \E S \in SUBSET Requests : ReconcileSelect(k, S)
    \/ \E r \in Requests : ReconcileRow(k, r)

Next ==
    \/ \E t \in Tenants, a \in Amounts : AdminRecharge(t, a) \/ DailyCheckin(t, a)
    \/ NewDay
    \/ \E r \in Requests :
           \/ \E n \in Reserves : BillingAuthorize(r, n)
           \/ \E c \in Charges : BillingCapture(r, c)
           \/ BillingRelease(r)
           \/ BecomeDue(r)
    \/ \E k \in Reconcilers : ReconcileStep(k) \/ ReconcileCommit(k) \/ ReconcileAbort(k)

\* The clock never stops, and the reconcile loop runs on a ticker (main.rs)
\* and goes through its rows to the commit.
Fairness ==
    /\ \A r \in Requests : WF_vars(BecomeDue(r))
    /\ \A k \in Reconcilers : WF_vars(ReconcileStep(k) \/ ReconcileCommit(k))

SafetySpec == Init /\ [][Next]_vars

Spec == SafetySpec /\ Fairness

-----------------------------------------------------------------------------
\* What an authorization costs its tenant: the hold while authorized, the
\* larger of hold and charge once captured, the charge once released.
Owed(a) ==
    IF a.status = "released" THEN a.captured
    ELSE IF a.status = "captured" THEN a.reserved + ExtraCharge(a, a.captured)
    ELSE IF a.status = "authorized" THEN a.reserved
    ELSE 0

\* The ledger rows of a request take from the account what its authorization
\* costs, whatever order authorize, capture, release and the reconcile loop
\* take: no hold is refunded twice and no charge is posted twice.
LedgerMatchesAuthorization == \A r \in Requests : posted[r] + Owed(auths[r]) = 0

\* No interleaving of holds, extra charges and refunds overdraws an account
\* or pushes the balance out of an i64 (apply_credit_delta_inner).
BalanceInRange == balance \in [Tenants -> 0 .. MaxI64]

\* The unique ledger index never rejects a capture: the path of
\* apply_credit_delta_inner that swallows SQLSTATE 23505 is dead.
UniqueIndexNeverHit == \A r \in indexed : auths[r].status \in {"captured", "released"}

\* A reconcile transaction finds its rows as it selected them when it
\* commits, and no two of them share a row.
LockedRowsStable ==
    /\ \A k \in Reconcilers : Held(k) \subseteq Candidates
    /\ \A j, k \in Reconcilers : j # k => Held(j) \cap Held(k) = {}

\* If the reconcile transactions do not fail forever, every hold is closed in
\* the end, even if its data plane never calls back.
EveryHoldIsClosed ==
    <>[][\A k \in Reconcilers : ~ReconcileAbort(k)]_vars =>
        \A r \in Requests : auths[r].status = "authorized" ~> auths[r].status = "released"

=============================================================================
