---------------------------- MODULE BillingProofs ----------------------------
(***************************************************************************)
(* What is proved of billing, for every set of tenants, requests, clients  *)
(* and reconcile loops, every amount and every number of retries: the      *)
(* books of the ledger agree (CreditLedger), the clients together with it  *)
(* implement it, and what a client concludes is so (BillingClient).        *)
(***************************************************************************)
EXTENDS BillingClient, TLAPS

-----------------------------------------------------------------------------
(* The ledger. *)

\* Nothing has been captured from an authorization that is still open.
OpenMeansUncaptured ==
    \A r \in Requests : auths[r].status \in {"none", "authorized"} => auths[r].captured = 0

\* The inductive invariant. LedgerMatchesAuthorization alone is not
\* inductive: the commit of a reconcile transaction needs its rows to be open
\* (LockedRowsStable), and a refund of reserved - captured is the whole hold
\* only if nothing is captured yet (OpenMeansUncaptured).
Inv ==
    /\ TypeOK
    /\ BalanceInRange
    /\ LedgerMatchesAuthorization
    /\ UniqueIndexNeverHit
    /\ LockedRowsStable
    /\ OpenMeansUncaptured

-----------------------------------------------------------------------------
\* A saturated balance stays in an i64 when the delta is affordable.
LEMMA SaturatingAddInRange ==
    ASSUME NEW a \in 0 .. MaxI64, NEW b \in Int, a + b >= 0
    PROVE  SaturatingAdd(a, b) \in 0 .. MaxI64
  BY LedgerAssumption DEF SaturatingAdd

\* The two amounts a capture and a release move are naturals.
LEMMA AmountsAreNatural ==
    ASSUME NEW a \in Authorizations, NEW c \in 0 .. MaxI64
    PROVE  Releasable(a) \in Nat /\ ExtraCharge(a, c) \in Nat /\ Owed(a) \in Nat
  BY LedgerAssumption DEF Authorizations, Statuses, Releasable, ExtraCharge, AtLeastZero, Owed

\* PostDelta keeps the account in range and adds delta to the request's rows.
LEMMA PostDeltaEffect ==
    ASSUME TypeOK, BalanceInRange, NEW r \in Requests, NEW delta \in Int, PostDelta(r, delta)
    PROVE  /\ balance' \in [Tenants -> 0 .. MaxI64]
           /\ posted' = [posted EXCEPT ![r] = posted[r] + delta]
           /\ posted' \in [Requests -> Int]
  <1>1. TenantOf[r] \in Tenants
    BY LedgerAssumption
  <1>2. balance[TenantOf[r]] \in 0 .. MaxI64
    BY <1>1 DEF BalanceInRange
  <1>3. SaturatingAdd(balance[TenantOf[r]], delta) \in 0 .. MaxI64
    BY <1>2, LedgerAssumption DEF PostDelta, Affordable, SaturatingAdd
  <1>4. balance' = [balance EXCEPT ![TenantOf[r]] = SaturatingAdd(balance[TenantOf[r]], delta)]
    BY DEF PostDelta
  <1>5. balance' \in [Tenants -> 0 .. MaxI64]
    BY <1>1, <1>3, <1>4 DEF BalanceInRange
  <1>6. posted' = [posted EXCEPT ![r] = posted[r] + delta]
    BY DEF PostDelta
  <1>7. posted' \in [Requests -> Int]
    BY <1>6 DEF TypeOK
  <1> QED
    BY <1>5, <1>6, <1>7

-----------------------------------------------------------------------------
\* The empty ledger satisfies the invariant.
LEMMA InitInv == Init => Inv
  <1> SUFFICES ASSUME Init PROVE Inv
    OBVIOUS
  <1> USE DEF Init
  <1>1. NoAuthorization \in Authorizations
    BY LedgerAssumption DEF NoAuthorization, Authorizations, Statuses
  <1>2. NoReconcile \in Reconciles
    BY DEF NoReconcile, Reconciles
  <1>3. TypeOK
    BY <1>1, <1>2 DEF TypeOK
  <1>4. BalanceInRange
    BY LedgerAssumption DEF BalanceInRange
  <1>5. LedgerMatchesAuthorization
    <2> SUFFICES ASSUME NEW r \in Requests PROVE posted[r] + Owed(auths[r]) = 0
      BY DEF LedgerMatchesAuthorization
    <2>1. auths[r].status = "none"
      BY DEF NoAuthorization
    <2>2. Owed(auths[r]) = 0
      BY <2>1 DEF Owed
    <2> QED
      BY <2>2
  <1>6. OpenMeansUncaptured /\ UniqueIndexNeverHit
    BY DEF OpenMeansUncaptured, UniqueIndexNeverHit, NoAuthorization
  <1>7. LockedRowsStable
    BY DEF LockedRowsStable, NoReconcile, Held
  <1> QED
    BY <1>3, <1>4, <1>5, <1>6, <1>7 DEF Inv

\* Recharge and check-in only add to one balance.
LEMMA DepositInv ==
    ASSUME Inv, NEW t \in Tenants, NEW a \in Amounts,
           AdminRecharge(t, a) \/ DailyCheckin(t, a)
    PROVE  Inv'
  <1>1. a \in Nat /\ balance[t] \in 0 .. MaxI64 /\ balance[t] + a >= 0
    BY LedgerAssumption DEF Inv, BalanceInRange
  <1>2. SaturatingAdd(balance[t], a) \in 0 .. MaxI64
    BY <1>1, SaturatingAddInRange
  <1>3. /\ balance' = [balance EXCEPT ![t] = SaturatingAdd(balance[t], a)]
        /\ deposits' = [deposits EXCEPT ![t] = deposits[t] + a]
        /\ UNCHANGED <<posted, indexed, auths, recon>>
        /\ claimed' \subseteq Tenants
    BY DEF AdminRecharge, DailyCheckin, Deposit, Inv, TypeOK
  <1>4. BalanceInRange'
    BY <1>2, <1>3 DEF Inv, BalanceInRange
  <1>5. TypeOK'
    <2>1. balance' \in [Tenants -> Int]
      BY <1>4 DEF BalanceInRange
    <2> QED
      BY <1>1, <1>3, <2>1 DEF Inv, TypeOK
  <1> QED
    BY <1>3, <1>4, <1>5
    DEF Inv, LedgerMatchesAuthorization, UniqueIndexNeverHit, LockedRowsStable,
        OpenMeansUncaptured, Candidates, Held

\* A step that rewrites the row of one unlocked request r and posts delta for
\* it keeps the invariant, if the new row costs delta less and is a legal row.
LEMMA OneRowInv ==
    ASSUME Inv, NEW r \in Requests, NEW delta \in Int, NEW a \in Authorizations,
           r \notin Locked,
           PostDelta(r, delta),
           auths' = [auths EXCEPT ![r] = a],
           Owed(a) = Owed(auths[r]) - delta,
           a.status \in {"none", "authorized"} => a.captured = 0,
           indexed' \subseteq indexed \cup {r},
           r \in indexed' => a.status \in {"captured", "released"},
           UNCHANGED <<deposits, claimed, recon>>
    PROVE  Inv'
  <1>1. /\ balance' \in [Tenants -> 0 .. MaxI64]
        /\ posted' = [posted EXCEPT ![r] = posted[r] + delta]
        /\ posted' \in [Requests -> Int]
    BY PostDeltaEffect DEF Inv
  <1>2. TypeOK'
    <2>1. balance' \in [Tenants -> Int]
      BY <1>1
    <2> QED
      BY <1>1, <2>1 DEF Inv, TypeOK
  <1>3. BalanceInRange'
    BY <1>1 DEF BalanceInRange
  <1>4. LedgerMatchesAuthorization'
    <2> SUFFICES ASSUME NEW q \in Requests PROVE posted'[q] + Owed(auths'[q]) = 0
      BY DEF LedgerMatchesAuthorization
    <2>1. CASE q = r
      <3>1. auths'[q] = a /\ posted'[q] = posted[r] + delta
        BY <1>1, <2>1 DEF Inv, TypeOK
      <3>2. Owed(auths[r]) \in Nat /\ posted[r] \in Int /\ posted[r] + Owed(auths[r]) = 0
        BY AmountsAreNatural, LedgerAssumption DEF Inv, TypeOK, LedgerMatchesAuthorization
      <3> QED
        BY <3>1, <3>2
    <2>2. CASE q # r
      BY <1>1, <2>2 DEF Inv, TypeOK, LedgerMatchesAuthorization
    <2> QED
      BY <2>1, <2>2
  <1>5. UniqueIndexNeverHit'
    BY DEF Inv, TypeOK, UniqueIndexNeverHit
  <1>6. LockedRowsStable'
    BY DEF Inv, TypeOK, LockedRowsStable, Locked, Candidates, Held
  <1>7. OpenMeansUncaptured'
    BY DEF Inv, TypeOK, OpenMeansUncaptured
  <1> QED
    BY <1>2, <1>3, <1>4, <1>5, <1>6, <1>7 DEF Inv

-----------------------------------------------------------------------------
\* Authorize takes the hold: a fresh row that costs its reservation.
LEMMA AuthorizeInv ==
    ASSUME Inv, NEW r \in Requests, NEW n \in Reserves, BillingAuthorize(r, n)
    PROVE  Inv'
  <1> DEFINE a == [status |-> "authorized", reserved |-> n, captured |-> 0, due |-> FALSE]
  <1>1. n \in 1 .. MaxI64
    BY LedgerAssumption
  <1>2. a \in Authorizations
    BY <1>1, LedgerAssumption DEF Authorizations, Statuses
  <1>3. auths[r].status = "none" /\ Owed(auths[r]) = 0
    BY DEF BillingAuthorize, Owed
  <1>4. Owed(a) = Owed(auths[r]) - (-n)
    BY <1>1, <1>3 DEF Owed
  <1>5. r \notin Locked
    BY <1>3 DEF Inv, LockedRowsStable, Locked, Candidates
  <1>6. r \notin indexed
    BY <1>3 DEF Inv, UniqueIndexNeverHit
  <1> QED
    <2>1. PostDelta(r, -n) /\ auths' = [auths EXCEPT ![r] = a]
          /\ UNCHANGED <<deposits, claimed, recon>> /\ indexed' = indexed
      BY DEF BillingAuthorize
    <2>2. -n \in Int /\ a.captured = 0
      BY <1>1
    <2> HIDE DEF a
    <2> QED
      BY <1>2, <1>4, <1>5, <1>6, <2>1, <2>2, OneRowInv, ZenonT(40)

\* Capture posts what the charge exceeds the hold by.
LEMMA CaptureInv ==
    ASSUME Inv, NEW r \in Requests, NEW c \in Charges, BillingCapture(r, c)
    PROVE  Inv'
  <1> DEFINE a == [auths[r] EXCEPT !.status = "captured", !.captured = c, !.due = FALSE]
             extra == ExtraCharge(auths[r], c)
  <1>1. c \in 0 .. MaxI64 /\ auths[r] \in Authorizations
    BY LedgerAssumption DEF Inv, TypeOK
  <1>2. a \in Authorizations /\ a.status = "captured" /\ a.captured = c
        /\ a.reserved = auths[r].reserved
    BY <1>1, ZenonT(40) DEF Authorizations, Statuses
  <1>3. extra \in Nat
    BY <1>1, AmountsAreNatural
  <1>4. Owed(auths[r]) = auths[r].reserved
    BY DEF BillingCapture, Owed
  <1>5. Owed(a) = auths[r].reserved + extra
    BY <1>2 DEF Owed, ExtraCharge
  <1>6. Owed(a) = Owed(auths[r]) - (-extra)
    BY <1>1, <1>3, <1>4, <1>5 DEF Authorizations
  <1>7. auths' = [auths EXCEPT ![r] = a]
    BY <1>1, ZenonT(40) DEF BillingCapture, Inv, TypeOK, Authorizations
  <1>8. PostDelta(r, -extra) /\ r \notin Locked /\ indexed' = indexed \cup {r}
        /\ UNCHANGED <<deposits, claimed, recon>>
    BY DEF BillingCapture
  <1> HIDE DEF a, extra
  <1>9. -extra \in Int
    BY <1>3
  <1> QED
    BY <1>2, <1>6, <1>7, <1>8, <1>9, OneRowInv, ZenonT(40)

\* Release gives back what is not captured.
LEMMA ReleaseInv ==
    ASSUME Inv, NEW r \in Requests, BillingRelease(r)
    PROVE  Inv'
  <1> DEFINE a == [auths[r] EXCEPT !.status = "released"]
             back == Releasable(auths[r])
  <1>1. auths[r] \in Authorizations
    BY DEF Inv, TypeOK
  <1>2. a \in Authorizations /\ a.status = "released" /\ a.captured = auths[r].captured
        /\ a.reserved = auths[r].reserved
    BY <1>1 DEF Authorizations, Statuses
  <1>3. back \in Nat
    BY <1>1, AmountsAreNatural, LedgerAssumption
  <1>4. Owed(a) = auths[r].captured
    BY <1>2 DEF Owed
  <1>5. Owed(auths[r]) - back = auths[r].captured
    BY <1>1, LedgerAssumption
    DEF BillingRelease, Owed, Releasable, ExtraCharge, AtLeastZero, Authorizations, Inv,
        OpenMeansUncaptured
  <1>6. auths' = [auths EXCEPT ![r] = a]
    BY DEF BillingRelease, Inv, TypeOK
  <1>7. PostDelta(r, back) /\ r \notin Locked /\ indexed' = indexed
        /\ UNCHANGED <<deposits, claimed, recon>>
    BY DEF BillingRelease
  <1> HIDE DEF a, back
  <1>8. Owed(a) = Owed(auths[r]) - back /\ back \in Int
    BY <1>3, <1>4, <1>5
  <1> QED
    BY <1>2, <1>3, <1>6, <1>7, <1>8, OneRowInv, ZenonT(40)

-----------------------------------------------------------------------------
\* Selecting rows and going through them touches only the transaction.
LEMMA ReconcileStepInv ==
    ASSUME Inv, NEW k \in Reconcilers, ReconcileStep(k) \/ ReconcileAbort(k)
    PROVE  Inv'
  <1> USE DEF Inv
  <1>0. UNCHANGED ledgerVars
    BY ZenonT(40) DEF ReconcileStep, ReconcileSelect, ReconcileRow, ReconcileAbort
  <1>1. /\ BalanceInRange' /\ LedgerMatchesAuthorization' /\ UniqueIndexNeverHit'
        /\ OpenMeansUncaptured' /\ Candidates' = Candidates
    BY <1>0
    DEF ledgerVars, BalanceInRange, LedgerMatchesAuthorization, UniqueIndexNeverHit,
        OpenMeansUncaptured, Candidates
  <1>2. NoReconcile \in Reconciles
    BY DEF NoReconcile, Reconciles
  <1>3. ASSUME recon' \in [Reconcilers -> Reconciles], LockedRowsStable' PROVE Inv'
    BY <1>0, <1>1, <1>3 DEF ledgerVars, TypeOK
  <1>4. ASSUME NEW S \in SUBSET Requests, ReconcileSelect(k, S) PROVE Inv'
    <2> DEFINE tx == [NoReconcile EXCEPT !.open = TRUE, !.todo = S]
    <2>1. tx \in Reconciles /\ tx.todo = S /\ tx.done = {}
      BY ZenonT(40) DEF NoReconcile, Reconciles
    <2>2. recon' = [recon EXCEPT ![k] = tx]
      BY <1>4 DEF ReconcileSelect
    <2> HIDE DEF tx
    <2>3. recon' \in [Reconcilers -> Reconciles]
      BY <2>1, <2>2 DEF TypeOK
    <2>4. Held(k)' = S /\ \A j \in Reconcilers \ {k} : Held(j)' = Held(j)
      BY <2>1, <2>2 DEF Held, TypeOK
    <2>5. S \subseteq Candidates /\ \A j \in Reconcilers : S \cap Held(j) = {}
      BY <1>4 DEF ReconcileSelect, Locked
    <2>6. LockedRowsStable'
      BY <1>1, <2>4, <2>5 DEF LockedRowsStable
    <2> QED
      BY <1>3, <2>3, <2>6
  <1>5. ASSUME NEW r \in Requests, ReconcileRow(k, r) PROVE Inv'
    <2> DEFINE t == TenantOf[r]
               refund == [recon[k].refund EXCEPT ![t] = @ + Releasable(auths[r])]
               tx == CloseRow(recon[k], r)
    <2>1. t \in Tenants /\ auths[r] \in Authorizations /\ recon[k] \in Reconciles
      BY LedgerAssumption DEF TypeOK
    <2>2. Releasable(auths[r]) \in Nat
      BY <2>1, AmountsAreNatural, LedgerAssumption
    <2>3. refund \in [Tenants -> Nat]
      BY <2>1, <2>2 DEF Reconciles
    <2>4. recon' = [recon EXCEPT ![k] = tx] /\ r \in recon[k].todo
      BY <1>5 DEF ReconcileRow
    <2>5. tx = [open |-> TRUE, todo |-> recon[k].todo \ {r}, done |-> recon[k].done \cup {r},
                refund |-> refund]
      BY DEF CloseRow
    <2>6. tx \in Reconciles /\ tx.todo \cup tx.done = recon[k].todo \cup recon[k].done
      <3> HIDE DEF refund, tx
      <3> QED
        BY <2>1, <2>3, <2>4, <2>5 DEF Reconciles
    <2> HIDE DEF tx
    <2>7. recon' \in [Reconcilers -> Reconciles]
      BY <2>4, <2>6 DEF TypeOK
    <2>8. LockedRowsStable'
      BY <1>1, <2>4, <2>6 DEF LockedRowsStable, TypeOK, Held
    <2> QED
      BY <1>3, <2>7, <2>8
  <1>6. ASSUME ReconcileAbort(k) PROVE Inv'
    <2>1. recon' = [recon EXCEPT ![k] = NoReconcile]
      BY <1>6 DEF ReconcileAbort
    <2>2. recon' \in [Reconcilers -> Reconciles]
      BY <1>2, <2>1 DEF TypeOK
    <2>3. LockedRowsStable'
      BY <1>1, <2>1 DEF LockedRowsStable, TypeOK, NoReconcile, Held
    <2> QED
      BY <1>3, <2>2, <2>3
  <1> QED
    BY <1>4, <1>5, <1>6 DEF ReconcileStep

\* Time moves only the due flag of one row.
LEMMA BecomeDueInv ==
    ASSUME Inv, NEW r \in Requests, BecomeDue(r)
    PROVE  Inv'
  <1> USE DEF Inv
  <1> DEFINE a == [auths[r] EXCEPT !.due = TRUE]
  <1>1. auths[r] \in Authorizations
    BY DEF TypeOK
  <1>2. a \in Authorizations /\ a.status = auths[r].status /\ a.captured = auths[r].captured
        /\ a.reserved = auths[r].reserved /\ a.due
    BY <1>1, ZenonT(40) DEF Authorizations
  <1>3. auths' = [auths EXCEPT ![r] = a]
        /\ UNCHANGED <<balance, deposits, posted, indexed, claimed, recon>>
    BY DEF BecomeDue
  <1>4. Owed(a) = Owed(auths[r])
    BY <1>2 DEF Owed, ExtraCharge
  <1> HIDE DEF a
  <1>5. TypeOK' /\ BalanceInRange'
    BY <1>2, <1>3 DEF TypeOK, BalanceInRange
  <1>6. LedgerMatchesAuthorization'
    BY <1>3, <1>4 DEF TypeOK, LedgerMatchesAuthorization
  <1>7. UniqueIndexNeverHit' /\ OpenMeansUncaptured'
    BY <1>2, <1>3 DEF TypeOK, UniqueIndexNeverHit, OpenMeansUncaptured
  <1>8. LockedRowsStable'
    BY <1>2, <1>3 DEF TypeOK, LockedRowsStable, Candidates, Held
  <1> QED
    BY <1>5, <1>6, <1>7, <1>8

\* The commit closes every row of the transaction at once. Its rows are open,
\* so what it refunds is the hold minus the capture of each.
LEMMA ReconcileCommitInv ==
    ASSUME Inv, NEW k \in Reconcilers, ReconcileCommit(k)
    PROVE  Inv'
  <1> USE DEF Inv
  <1> DEFINE done == recon[k].done
  <1>1. recon[k] \in Reconciles
    BY DEF TypeOK
  <1>2. done \subseteq Candidates /\ \A j \in Reconcilers \ {k} : done \cap Held(j) = {}
    BY DEF LockedRowsStable, Held
  <1>3. BalanceInRange'
    <2> SUFFICES ASSUME NEW t \in Tenants
                 PROVE  SaturatingAdd(balance[t], recon[k].refund[t]) \in 0 .. MaxI64
      BY DEF BalanceInRange, ReconcileCommit
    <2>1. balance[t] \in 0 .. MaxI64 /\ recon[k].refund[t] \in Nat
      BY <1>1 DEF BalanceInRange, Reconciles
    <2>2. recon[k].refund[t] \in Int /\ balance[t] + recon[k].refund[t] >= 0
      BY <2>1, LedgerAssumption
    <2> QED
      BY <2>1, <2>2, SaturatingAddInRange
  <1>4. ASSUME NEW r \in Requests
        PROVE  /\ auths'[r] \in Authorizations
               /\ posted'[r] \in Int
               /\ posted'[r] + Owed(auths'[r]) = 0
               /\ auths'[r].status \in {"none", "authorized"} => auths'[r].captured = 0
               /\ auths[r].status \in {"captured", "released"} =>
                      auths'[r].status \in {"captured", "released"}
               /\ r \notin done => auths'[r] = auths[r]
    <2>1. auths[r] \in Authorizations /\ posted[r] \in Int
          /\ posted[r] + Owed(auths[r]) = 0
      BY DEF TypeOK, LedgerMatchesAuthorization
    <2>2. CASE r \notin done
      <3>1. auths'[r] = auths[r] /\ posted'[r] = posted[r] + 0
        BY <2>2 DEF ReconcileCommit
      <3> QED
        BY <2>1, <2>2, <3>1 DEF OpenMeansUncaptured
    <2>3. CASE r \in done
      <3> DEFINE a == [auths[r] EXCEPT !.status = "released"]
      <3>1. auths'[r] = a /\ posted'[r] = posted[r] + Releasable(auths[r])
        BY <2>3 DEF ReconcileCommit
      <3>2. a \in Authorizations /\ a.status = "released" /\ a.captured = auths[r].captured
        BY <2>1 DEF Authorizations, Statuses
      <3>3. Owed(a) = auths[r].captured
        BY <3>2 DEF Owed
      <3>4. Releasable(auths[r]) \in Nat /\ Owed(auths[r]) \in Nat
        BY <2>1, AmountsAreNatural, LedgerAssumption
      <3>5. Owed(auths[r]) - Releasable(auths[r]) = auths[r].captured
        BY <1>2, <2>1, <2>3, LedgerAssumption
        DEF Candidates, Owed, Releasable, ExtraCharge, AtLeastZero, Authorizations,
            OpenMeansUncaptured
      <3> HIDE DEF a
      <3> QED
        BY <2>1, <2>3, <3>1, <3>2, <3>3, <3>4, <3>5 DEF Authorizations
    <2> QED
      BY <2>2, <2>3
  <1>5. /\ balance' \in [Tenants -> Int]
        /\ posted' \in [Requests -> Int]
        /\ auths' \in [Requests -> Authorizations]
    <2>1. balance' \in [Tenants -> Int]
      BY <1>3, LedgerAssumption DEF BalanceInRange
    <2>2. posted' = [r \in Requests |-> posted'[r]] /\ auths' = [r \in Requests |-> auths'[r]]
      BY DEF ReconcileCommit
    <2> QED
      BY <1>4, <2>1, <2>2
  <1>6. recon' = [recon EXCEPT ![k] = NoReconcile] /\ UNCHANGED <<deposits, indexed, claimed>>
    BY DEF ReconcileCommit
  <1>7. TypeOK'
    <2>1. NoReconcile \in Reconciles
      BY DEF NoReconcile, Reconciles
    <2> QED
      BY <1>5, <1>6, <2>1 DEF TypeOK
  <1>8. LedgerMatchesAuthorization' /\ OpenMeansUncaptured'
    BY <1>4 DEF LedgerMatchesAuthorization, OpenMeansUncaptured
  <1>9. UniqueIndexNeverHit'
    BY <1>4, <1>6 DEF UniqueIndexNeverHit, TypeOK
  <1>10. LockedRowsStable'
    <2>1. Held(k)' = {} /\ \A j \in Reconcilers \ {k} : Held(j)' = Held(j)
      BY <1>6 DEF Held, TypeOK, NoReconcile
    <2>2. \A j \in Reconcilers \ {k} : Held(j) \subseteq Candidates'
      BY <1>2, <1>4 DEF LockedRowsStable, Candidates
    <2> QED
      BY <2>1, <2>2 DEF LockedRowsStable
  <1> QED
    BY <1>3, <1>7, <1>8, <1>9, <1>10

-----------------------------------------------------------------------------
\* Every step of the ledger keeps the invariant.
LEMMA NextInv == Inv /\ [Next]_vars => Inv'
  <1> SUFFICES ASSUME Inv, [Next]_vars PROVE Inv'
    OBVIOUS
  <1>1. ASSUME NEW t \in Tenants, NEW a \in Amounts, AdminRecharge(t, a) \/ DailyCheckin(t, a)
        PROVE  Inv'
    BY <1>1, DepositInv
  <1>2. CASE NewDay
    BY <1>2
    DEF NewDay, Inv, TypeOK, BalanceInRange, LedgerMatchesAuthorization, UniqueIndexNeverHit,
        LockedRowsStable, OpenMeansUncaptured, Candidates, Held
  <1>3. ASSUME NEW r \in Requests, NEW n \in Reserves, BillingAuthorize(r, n) PROVE Inv'
    BY <1>3, AuthorizeInv
  <1>4. ASSUME NEW r \in Requests, NEW c \in Charges, BillingCapture(r, c) PROVE Inv'
    BY <1>4, CaptureInv
  <1>5. ASSUME NEW r \in Requests, BillingRelease(r) PROVE Inv'
    BY <1>5, ReleaseInv
  <1>6. ASSUME NEW r \in Requests, BecomeDue(r) PROVE Inv'
    BY <1>6, BecomeDueInv
  <1>7. ASSUME NEW k \in Reconcilers, ReconcileStep(k) \/ ReconcileAbort(k) PROVE Inv'
    BY <1>7, ReconcileStepInv
  <1>8. ASSUME NEW k \in Reconcilers, ReconcileCommit(k) PROVE Inv'
    BY <1>8, ReconcileCommitInv
  <1>9. CASE UNCHANGED vars
    BY <1>9
    DEF vars, Inv, TypeOK, BalanceInRange, LedgerMatchesAuthorization, UniqueIndexNeverHit,
        LockedRowsStable, OpenMeansUncaptured, Candidates, Held
  <1> QED
    BY <1>1, <1>2, <1>3, <1>4, <1>5, <1>6, <1>7, <1>8, <1>9 DEF Next

\* The invariant holds in every reachable state.
LEMMA InvAlways == SafetySpec => []Inv
  BY InitInv, NextInv, PTL DEF SafetySpec

\* The variables keep their types (all the handlers of the billing service).
THEOREM TypeCorrect == SafetySpec => []TypeOK
  <1>1. Inv => TypeOK
    BY DEF Inv
  <1> QED
    BY <1>1, InvAlways, PTL

\* For any number of tenants, requests and control planes, and any order of
\* authorize, capture, release and reconcile: the ledger rows of a request
\* take from the account exactly what its authorization costs.
THEOREM LedgerAlwaysMatches == SafetySpec => []LedgerMatchesAuthorization
  <1>1. Inv => LedgerMatchesAuthorization
    BY DEF Inv
  <1> QED
    BY <1>1, InvAlways, PTL

\* No balance is ever negative or larger than an i64.
THEOREM BalanceAlwaysInRange == SafetySpec => []BalanceInRange
  <1>1. Inv => BalanceInRange
    BY DEF Inv
  <1> QED
    BY <1>1, InvAlways, PTL

\* The unique index of the ledger never rejects a capture.
THEOREM IndexNeverHit == SafetySpec => []UniqueIndexNeverHit
  <1>1. Inv => UniqueIndexNeverHit
    BY DEF Inv
  <1> QED
    BY <1>1, InvAlways, PTL

-----------------------------------------------------------------------------
(* The clients. *)

\* The variables of the data plane, apart from the ledger.
ClientTypes ==
    /\ pc \in [Clients -> {"new", "upstream"} \cup Waiting \cup Finished]
    /\ round \in [Clients -> Rounds]
    /\ attempt \in [Clients -> 0 .. CaptureRetryMax]
    /\ next \in [Clients -> {"authorizing"} \cup Finished]
    /\ reply \in [Clients -> Replies]
    /\ calls \subseteq Calls
    /\ acked \subseteq Requests

\* A client goes on with another key only while rounds are left.
FailoverHasRounds ==
    \A c \in Clients :
        pc[c] = "releasing" /\ next[c] = "authorizing" => round[c] < MaxFailovers

\* A capture row stands for every captured authorization.
CapturedIsIndexed == \A r \in Requests : auths[r].status = "captured" => r \in indexed

\* What a client has been told: an Ok capture left its row, an Ok release
\* closed the hold.
AnswersAreTrue ==
    \A c \in Clients :
        /\ pc[c] = "capturing" /\ reply[c] = "ok" => Id(c) \in indexed
        /\ pc[c] = "releasing" /\ next[c] = "settled" => Id(c) \in indexed
        /\ pc[c] = "releasing" /\ reply[c] = "ok" => auths[Id(c)].status = "released"

\* A client may be charged in round n: it has asked for the capture there and
\* does not go on with another key.
Chargeable(c, n) ==
    /\ n = round[c]
    /\ \/ pc[c] \in {"capturing"} \cup Finished
       \/ pc[c] = "releasing" /\ next[c] # "authorizing"

\* Captures, waiting or executed, are those of a chargeable round.
ChargesAreOfOneRound ==
    \A c \in Clients, n \in Rounds :
        \/ IdOf[c][n] \in indexed
        \/ \E call \in calls : call.op = "capturing" /\ call.client = c /\ call.round = n
        => Chargeable(c, n)

\* A client has not asked for the release of round n.
Unreleased(c, n) ==
    \/ n > round[c]
    \/ n = round[c] /\ pc[c] \notin {"releasing"} \cup Finished

\* A hold its client has not released is closed by the expiry alone.
OnlyExpiryCloses ==
    \A c \in Clients, n \in Rounds : Unreleased(c, n) =>
        /\ \A call \in calls : ~(call.op = "releasing" /\ call.client = c /\ call.round = n)
        /\ auths[IdOf[c][n]].status = "released" => auths[IdOf[c][n]].due

\* The inductive invariant of the composed system.
ClientInv ==
    /\ Inv
    /\ ClientTypes
    /\ FailoverHasRounds
    /\ CapturedIsIndexed
    /\ AnswersAreTrue
    /\ AcknowledgedReleaseIsFinal
    /\ SettledIsCharged
    /\ ChargesAreOfOneRound
    /\ OnlyExpiryCloses

-----------------------------------------------------------------------------
\* The key of a call that was sent, and the one a client uses, are requests.
LEMMA KeysAreRequests ==
    ASSUME ClientTypes
    PROVE  /\ \A call \in calls : KeyOf(call) \in Requests
           /\ \A c \in Clients : Id(c) \in Requests
  BY BillingClientAssumption DEF ClientTypes, Calls, KeyOf, Id

\* A step of client c leaves the ledger and the other clients alone, and the
\* only call it adds is the one c then waits for.
LEMMA ClientFrame ==
    ASSUME ClientTypes, NEW c \in Clients, ClientStep(c) \/ Timeout(c) \/ Abandon(c)
    PROVE  /\ UNCHANGED vars
           /\ \A d \in Clients \ {c} :
                  /\ pc'[d] = pc[d] /\ round'[d] = round[d] /\ next'[d] = next[d]
                  /\ reply'[d] = reply[d]
           /\ \A call \in calls' \ calls :
                  call.op = pc'[c] /\ call.client = c /\ call.round = round'[c]
  <1> USE DEF ClientTypes, Send, Finish, Release
  <1>1. CASE AuthorizeBillingSession(c)
    BY <1>1 DEF AuthorizeBillingSession
  <1>2. CASE Authorized(c)
    BY <1>2 DEF Authorized
  <1>3. CASE SettleAuthorizedBilling(c)
    BY <1>3 DEF SettleAuthorizedBilling
  <1>4. CASE ReleaseBillingHoldBestEffort(c) \/ ReleaseForCrossAccountFailover(c)
    BY <1>4 DEF ReleaseBillingHoldBestEffort, ReleaseForCrossAccountFailover
  <1>5. CASE Captured(c)
    BY <1>5 DEF Captured, CaptureFailed
  <1>6. CASE Released(c)
    BY <1>6 DEF Released
  <1>7. CASE Timeout(c)
    BY <1>7 DEF Timeout
  <1>8. CASE Abandon(c)
    BY <1>8 DEF Abandon
  <1> QED
    BY <1>1, <1>2, <1>3, <1>4, <1>5, <1>6, <1>7, <1>8, ZenonT(40) DEF ClientStep

\* What a client does to itself keeps its variables in their types.
LEMMA ClientTypesStep ==
    ASSUME ClientTypes, FailoverHasRounds,
           NEW c \in Clients, ClientStep(c) \/ Timeout(c) \/ Abandon(c)
    PROVE  ClientTypes' /\ FailoverHasRounds'
  <1>0. MaxFailovers \in Nat /\ CaptureRetryMax \in Nat /\ Id(c) \in Requests
    BY BillingClientAssumption, KeysAreRequests
  <1>1. ASSUME NEW op \in Waiting, NEW n \in Rounds, NEW a \in 0 .. CaptureRetryMax,
               Send(c, op, n, a)
        PROVE  /\ pc' \in [Clients -> {"new", "upstream"} \cup Waiting \cup Finished]
               /\ round' \in [Clients -> Rounds]
               /\ attempt' \in [Clients -> 0 .. CaptureRetryMax]
               /\ reply' \in [Clients -> Replies]
               /\ calls' \subseteq Calls
    <2>1. [op |-> op, client |-> c, round |-> n, attempt |-> a] \in Calls
      BY DEF Calls
    <2>2. calls' \subseteq Calls
      BY <1>1, <2>1 DEF ClientTypes, Send
    <2>3. reply' \in [Clients -> Replies]
      BY <1>1 DEF ClientTypes, Send, Replies
    <2> QED
      BY <1>1, <2>2, <2>3 DEF ClientTypes, Send
  <1>2. ASSUME NEW o \in {"upstream"} \cup Finished, Finish(c, o)
        PROVE  /\ pc' \in [Clients -> {"new", "upstream"} \cup Waiting \cup Finished]
               /\ reply' \in [Clients -> Replies]
               /\ UNCHANGED <<round, attempt, calls>>
    BY <1>2 DEF ClientTypes, Finish, Replies
  <1>3. ASSUME NEW o \in {"authorizing"} \cup Finished, Release(c, o),
               o = "authorizing" => round[c] < MaxFailovers
        PROVE  ClientTypes' /\ FailoverHasRounds'
    <2>1. Send(c, "releasing", round[c], 0)
      BY <1>3 DEF Release
    <2>2. round[c] \in Rounds /\ 0 \in 0 .. CaptureRetryMax /\ "releasing" \in Waiting
      BY <1>0 DEF ClientTypes, Waiting
    <2>3. ClientTypes'
      BY <1>1, <1>3, <2>1, <2>2 DEF Release, ClientTypes
    <2> QED
      BY <1>3, <2>1, <2>3 DEF Release, Send, ClientTypes, FailoverHasRounds
  <1>4. ASSUME NEW op \in {"authorizing", "capturing"}, NEW n \in Rounds,
               NEW a \in 0 .. CaptureRetryMax, Send(c, op, n, a),
               UNCHANGED next, acked' \subseteq Requests
        PROVE  ClientTypes' /\ FailoverHasRounds'
    <2>1. ClientTypes'
      BY <1>1, <1>4 DEF ClientTypes, Waiting
    <2> QED
      BY <1>4, <2>1 DEF Send, ClientTypes, FailoverHasRounds
  <1>5. ASSUME NEW o \in {"upstream"} \cup Finished, Finish(c, o),
               UNCHANGED next, acked' \subseteq Requests
        PROVE  ClientTypes' /\ FailoverHasRounds'
    <2>1. ClientTypes'
      BY <1>2, <1>5 DEF ClientTypes
    <2> QED
      BY <1>5, <2>1 DEF Finish, Finished, ClientTypes, FailoverHasRounds
  <1>6. round[c] \in Rounds /\ attempt[c] \in 0 .. CaptureRetryMax /\ 0 \in 0 .. CaptureRetryMax
    BY <1>0 DEF ClientTypes
  <1>7. acked \subseteq Requests
    BY DEF ClientTypes
  <1>10. CASE AuthorizeBillingSession(c)
    BY <1>4, <1>6, <1>7, <1>10 DEF AuthorizeBillingSession
  <1>11. CASE Authorized(c)
    BY <1>5, <1>7, <1>11 DEF Authorized, Finished
  <1>12. CASE SettleAuthorizedBilling(c)
    BY <1>4, <1>6, <1>7, <1>12 DEF SettleAuthorizedBilling
  <1>13. CASE ReleaseBillingHoldBestEffort(c)
    BY <1>3, <1>13 DEF ReleaseBillingHoldBestEffort, Finished
  <1>14. CASE ReleaseForCrossAccountFailover(c)
    BY <1>3, <1>14 DEF ReleaseForCrossAccountFailover
  <1>15. CASE Captured(c)
    <2>1. CASE reply[c] = "ok" \/ ~(reply[c] = "retryable" /\ attempt[c] + 1 < CaptureRetryMax)
      BY <1>3, <1>15, <2>1 DEF Captured, CaptureFailed, Finished
    <2>2. CASE reply[c] = "retryable" /\ attempt[c] + 1 < CaptureRetryMax
      <3>1. attempt[c] + 1 \in 0 .. CaptureRetryMax
        BY <1>0, <1>6, <2>2
      <3> QED
        BY <1>4, <1>6, <1>7, <1>15, <2>2, <3>1 DEF Captured, CaptureFailed
    <2> QED
      BY <2>1, <2>2
  <1>16. CASE Released(c)
    <2>1. acked' \subseteq Requests /\ UNCHANGED next
      BY <1>0, <1>7, <1>16 DEF Released
    <2>2. CASE next[c] = "authorizing"
      <3>1. round[c] + 1 \in Rounds
        BY <1>0, <1>6, <1>16, <2>2 DEF Released, FailoverHasRounds, Rounds
      <3> QED
        BY <1>4, <1>6, <1>16, <2>1, <2>2, <3>1, ZenonT(40) DEF Released
    <2>3. CASE next[c] # "authorizing"
      <3>1. next[c] \in Finished
        BY <2>3 DEF ClientTypes
      <3> QED
        BY <1>5, <1>16, <2>1, <2>3, <3>1 DEF Released, Finished
    <2> QED
      BY <2>2, <2>3
  <1>17. CASE Timeout(c)
    BY <1>17 DEF Timeout, ClientTypes, FailoverHasRounds, Replies
  <1>18. CASE Abandon(c)
    BY <1>5, <1>7, <1>18 DEF Abandon, Finished
  <1> QED
    BY <1>10, <1>11, <1>12, <1>13, <1>14, <1>15, <1>16, <1>17, <1>18 DEF ClientStep

\* A client that may be charged in a round stays so, one that has released a
\* hold has done so for good, and it asks for captures and releases only then.
LEMMA RoundsStep ==
    ASSUME ClientTypes, NEW c \in Clients, ClientStep(c) \/ Timeout(c) \/ Abandon(c)
    PROVE  /\ \A n \in Rounds : Chargeable(c, n) => Chargeable(c, n)'
           /\ \A n \in Rounds : Unreleased(c, n)' => Unreleased(c, n)
           /\ \A call \in calls' \ calls :
                  /\ call.op = "capturing" => Chargeable(c, call.round)'
                  /\ call.op = "releasing" => ~Unreleased(c, call.round)'
  <1> USE DEF ClientTypes, Send, Finish, Release, Chargeable, Unreleased, Finished, Rounds
  <1>0. MaxFailovers \in Nat /\ round[c] \in 0 .. MaxFailovers
    BY BillingClientAssumption
  <1>1. CASE AuthorizeBillingSession(c)
    BY <1>0, <1>1 DEF AuthorizeBillingSession
  <1>2. CASE Authorized(c)
    BY <1>0, <1>2 DEF Authorized
  <1>3. CASE SettleAuthorizedBilling(c)
    BY <1>0, <1>3 DEF SettleAuthorizedBilling
  <1>4. CASE ReleaseBillingHoldBestEffort(c) \/ ReleaseForCrossAccountFailover(c)
    BY <1>0, <1>4 DEF ReleaseBillingHoldBestEffort, ReleaseForCrossAccountFailover
  <1>5. CASE Captured(c)
    BY <1>0, <1>5 DEF Captured, CaptureFailed
  <1>6. CASE Released(c)
    BY <1>0, <1>6 DEF Released
  <1>7. CASE Timeout(c)
    BY <1>0, <1>7 DEF Timeout
  <1>8. CASE Abandon(c)
    BY <1>0, <1>8 DEF Abandon
  <1> QED
    BY <1>1, <1>2, <1>3, <1>4, <1>5, <1>6, <1>7, <1>8, ZenonT(40) DEF ClientStep

\* What a client concludes follows from the answers it was given.
LEMMA ConclusionsStep ==
    ASSUME ClientTypes, AnswersAreTrue, SettledIsCharged, AcknowledgedReleaseIsFinal,
           NEW c \in Clients, ClientStep(c) \/ Timeout(c) \/ Abandon(c)
    PROVE  /\ pc'[c] = "capturing" /\ reply'[c] = "ok" => Id(c)' \in indexed
           /\ pc'[c] = "releasing" /\ next'[c] = "settled" => Id(c)' \in indexed
           /\ pc'[c] = "releasing" /\ reply'[c] = "ok" => auths[Id(c)'].status = "released"
           /\ pc'[c] = "settled" => Id(c)' \in indexed /\ auths[Id(c)'].status = "released"
           /\ \A r \in acked' : auths[r].status = "released"
  <1> USE DEF ClientTypes, Send, Finish, Release, Finished, Id
  <1> USE DEF AnswersAreTrue, SettledIsCharged, AcknowledgedReleaseIsFinal
  <1>1. CASE AuthorizeBillingSession(c)
    BY <1>1, ZenonT(40) DEF AuthorizeBillingSession
  <1>2. CASE Authorized(c)
    BY <1>2, ZenonT(40) DEF Authorized
  <1>3. CASE SettleAuthorizedBilling(c)
    BY <1>3, ZenonT(40) DEF SettleAuthorizedBilling
  <1>4. CASE ReleaseBillingHoldBestEffort(c) \/ ReleaseForCrossAccountFailover(c)
    BY <1>4 DEF ReleaseBillingHoldBestEffort, ReleaseForCrossAccountFailover
  <1>5. CASE Captured(c)
    BY <1>5, ZenonT(40) DEF Captured, CaptureFailed
  <1>6. CASE Released(c)
    BY <1>6, ZenonT(40) DEF Released
  <1>7. CASE Timeout(c)
    BY <1>7, ZenonT(40) DEF Timeout
  <1>8. CASE Abandon(c)
    BY <1>8 DEF Abandon
  <1> QED
    BY <1>1, <1>2, <1>3, <1>4, <1>5, <1>6, <1>7, <1>8, ZenonT(40) DEF ClientStep

-----------------------------------------------------------------------------
\* A step of the client system moves the ledger as one of the ledger's own
\* operations does, or not at all.
LEMMA StepImplements ==
    ASSUME ClientTypes, [ClientNext]_allVars
    PROVE  [Next]_vars
  <1>1. ASSUME NEW c \in Clients, ClientStep(c) \/ Timeout(c) \/ Abandon(c)
        PROVE  UNCHANGED vars
    BY <1>1, ClientFrame
  <1>2. ASSUME NEW call \in calls, Serve(call)
        PROVE  [Next]_vars
    <2>1. KeyOf(call) \in Requests
      BY KeysAreRequests
    <2>2. CASE ServeAuthorize(call)
      BY <2>1, <2>2, ZenonT(40) DEF ServeAuthorize, Next
    <2>3. CASE ServeCapture(call)
      BY <2>1, <2>3, ZenonT(40) DEF ServeCapture, Next
    <2>4. CASE ServeRelease(call)
      BY <2>1, <2>4, ZenonT(40) DEF ServeRelease, Next
    <2> QED
      BY <1>2, <2>2, <2>3, <2>4 DEF Serve
  <1>3. CASE LedgerStep
    BY <1>3 DEF LedgerStep, Next
  <1>4. CASE UNCHANGED allVars
    BY <1>4 DEF allVars
  <1> QED
    BY <1>1, <1>2, <1>3, <1>4, ZenonT(40) DEF ClientNext

\* The commit of a reconcile transaction closes holds that are due.
LEMMA CommitClosesDue ==
    ASSUME Inv, NEW k \in Reconcilers, ReconcileCommit(k)
    PROVE  /\ UNCHANGED indexed
           /\ \A q \in Requests :
                  \/ auths'[q] = auths[q]
                  \/ /\ auths'[q].status = "released"
                     /\ auths'[q].due /\ auths'[q].due = auths[q].due
  <1>0. auths \in [Requests -> Authorizations] /\ recon[k].done \subseteq Candidates
    BY DEF Inv, TypeOK, LockedRowsStable, Held
  <1>1. ASSUME NEW q \in recon[k].done, q \in Requests
        PROVE  auths'[q].status = "released" /\ auths'[q].due /\ auths'[q].due = auths[q].due
    <2>1. auths'[q] = [auths[q] EXCEPT !.status = "released"]
      BY <1>1 DEF ReconcileCommit
    <2>2. auths[q].due /\ auths[q] \in Authorizations
      BY <1>0, <1>1 DEF Candidates
    <2> QED
      BY <2>1, <2>2, ZenonT(40) DEF Authorizations
  <1> QED
    BY <1>0, <1>1 DEF ReconcileCommit

\* Capture rows are never removed, every captured hold has one, and a released
\* hold stays as it is.
LEMMA LedgerOnlyAdvances ==
    ASSUME Inv, CapturedIsIndexed, [Next]_vars
    PROVE  /\ indexed \subseteq indexed'
           /\ CapturedIsIndexed'
           /\ \A r \in Requests : auths[r].status = "released" =>
                  auths'[r].status = "released" /\ auths'[r].due = auths[r].due
  <1> DEFINE Advances ==
                 /\ indexed \subseteq indexed'
                 /\ CapturedIsIndexed'
                 /\ \A r \in Requests : auths[r].status = "released" =>
                        auths'[r].status = "released" /\ auths'[r].due = auths[r].due
  <1>0. auths \in [Requests -> Authorizations] /\ indexed \subseteq Requests
    BY DEF Inv, TypeOK
  <1> USE DEF CapturedIsIndexed, Authorizations
  <1>1. UNCHANGED <<indexed, auths>> => Advances
    OBVIOUS
  <1>2. ASSUME NEW t \in Tenants, NEW a \in Amounts, AdminRecharge(t, a) \/ DailyCheckin(t, a)
        PROVE  UNCHANGED <<indexed, auths>>
    BY <1>2 DEF AdminRecharge, DailyCheckin, Deposit
  <1>3. ASSUME NEW r \in Requests, NEW n \in Reserves, BillingAuthorize(r, n) PROVE Advances
    BY <1>0, <1>3, ZenonT(40) DEF BillingAuthorize
  <1>4. ASSUME NEW r \in Requests, NEW n \in Charges, BillingCapture(r, n) PROVE Advances
    BY <1>0, <1>4, ZenonT(40) DEF BillingCapture
  <1>5. ASSUME NEW r \in Requests, BillingRelease(r) PROVE Advances
    BY <1>0, <1>5 DEF BillingRelease
  <1>6. ASSUME NEW r \in Requests, BecomeDue(r) PROVE Advances
    BY <1>0, <1>6, ZenonT(40) DEF BecomeDue
  <1>7. ASSUME NEW k \in Reconcilers, ReconcileStep(k) \/ ReconcileAbort(k)
        PROVE  UNCHANGED <<indexed, auths>>
    BY <1>7, ZenonT(40) DEF ReconcileStep, ReconcileSelect, ReconcileRow, ReconcileAbort, ledgerVars
  <1>8. ASSUME NEW k \in Reconcilers, ReconcileCommit(k) PROVE Advances
    BY <1>8, CommitClosesDue
  <1> HIDE DEF Advances
  <1>9. Advances
    BY <1>1, <1>2, <1>3, <1>4, <1>5, <1>6, <1>7, <1>8, ZenonT(40) DEF Next, NewDay, vars
  <1> QED
    BY <1>9 DEF Advances

\* A call is answered Ok only when it has had its effect or had it before, and
\* it touches no hold but that of its key.
LEMMA ServeEffect ==
    ASSUME ClientInv, NEW call \in calls, Serve(call)
    PROVE  /\ \E result \in Replies \ {"none"} :
                  /\ Answer(call, result)
                  /\ call.op = "capturing" /\ result = "ok" => KeyOf(call) \in indexed'
                  /\ call.op = "releasing" /\ result = "ok" =>
                         auths'[KeyOf(call)].status = "released"
           /\ \A r \in indexed' \ indexed : call.op = "capturing" /\ r = KeyOf(call)
           /\ \A r \in Requests : auths'[r].status = "released" =>
                  auths[r].status = "released" \/ (call.op = "releasing" /\ r = KeyOf(call))
  <1>0. /\ KeyOf(call) \in Requests
        /\ auths \in [Requests -> Authorizations]
        /\ CapturedIsIndexed
    BY KeysAreRequests, ZenonT(40) DEF ClientInv, Inv, TypeOK
  <1> USE DEF Replies, Authorizations
  <1>1. CASE call.op = "authorizing" /\ ServeAuthorize(call)
    BY <1>0, <1>1 DEF ServeAuthorize, BillingAuthorize, vars
  <1>2. CASE call.op = "capturing" /\ ServeCapture(call)
    <2>1. CASE \E n \in Charges : BillingCapture(KeyOf(call), n) /\ Answer(call, "ok")
      BY <1>0, <1>2, <2>1 DEF BillingCapture
    <2>2. CASE UNCHANGED vars /\ Answer(call, "ok") /\ auths[KeyOf(call)].status = "captured"
      BY <1>0, <1>2, <2>2 DEF vars, CapturedIsIndexed
    <2>3. CASE UNCHANGED vars /\ (Answer(call, "rejected") \/ Answer(call, "retryable"))
      BY <1>0, <1>2, <2>3 DEF vars
    <2> QED
      BY <1>2, <2>1, <2>2, <2>3, ZenonT(40) DEF ServeCapture
  <1>3. CASE call.op = "releasing" /\ ServeRelease(call)
    BY <1>0, <1>3 DEF ServeRelease, BillingRelease, vars
  <1> QED
    BY <1>1, <1>2, <1>3, ZenonT(40) DEF Serve

-----------------------------------------------------------------------------
\* No call is on its way and no hold is taken.
LEMMA ClientInitInv == ClientInit => ClientInv
  <1> SUFFICES ASSUME ClientInit PROVE ClientInv
    OBVIOUS
  <1> USE DEF ClientInit
  <1>1. Inv
    BY InitInv
  <1>2. ClientTypes
    BY BillingClientAssumption DEF ClientTypes, Rounds, Replies, Finished
  <1>3. \A r \in Requests : auths[r].status = "none"
    BY DEF Init, NoAuthorization
  <1>4. indexed = {}
    BY DEF Init
  <1>5. FailoverHasRounds /\ AnswersAreTrue /\ AcknowledgedReleaseIsFinal /\ SettledIsCharged
    BY DEF FailoverHasRounds, AnswersAreTrue, AcknowledgedReleaseIsFinal, SettledIsCharged
  <1>6. CapturedIsIndexed /\ ChargesAreOfOneRound
    BY <1>3, <1>4 DEF CapturedIsIndexed, ChargesAreOfOneRound
  <1>7. OnlyExpiryCloses
    BY <1>3, BillingClientAssumption DEF OnlyExpiryCloses
  <1> QED
    BY <1>1, <1>2, <1>5, <1>6, <1>7 DEF ClientInv

\* A step of one client.
LEMMA ClientStepInv ==
    ASSUME ClientInv, NEW c \in Clients, ClientStep(c) \/ Timeout(c) \/ Abandon(c)
    PROVE  ClientInv'
  <1> USE DEF ClientInv
  <1>1. /\ UNCHANGED <<vars, indexed, auths>>
        /\ \A d \in Clients \ {c} :
               /\ pc'[d] = pc[d] /\ round'[d] = round[d] /\ next'[d] = next[d]
               /\ reply'[d] = reply[d]
        /\ \A call \in calls' \ calls :
               call.op = pc'[c] /\ call.client = c /\ call.round = round'[c]
    BY ClientFrame DEF vars
  <1>2. ClientTypes' /\ FailoverHasRounds'
    BY ClientTypesStep, ZenonT(40)
  <1>3. Inv'
    BY <1>1, NextInv, ZenonT(40)
  <1>4. CapturedIsIndexed'
    BY <1>1, ZenonT(40) DEF CapturedIsIndexed
  <1>5. /\ pc'[c] = "capturing" /\ reply'[c] = "ok" => Id(c)' \in indexed
        /\ pc'[c] = "releasing" /\ next'[c] = "settled" => Id(c)' \in indexed
        /\ pc'[c] = "releasing" /\ reply'[c] = "ok" => auths[Id(c)'].status = "released"
        /\ pc'[c] = "settled" => Id(c)' \in indexed /\ auths[Id(c)'].status = "released"
        /\ \A r \in acked' : auths[r].status = "released"
    BY ConclusionsStep
  <1>6. \A d \in Clients \ {c} : Id(d)' = Id(d)
    BY <1>1, ZenonT(40) DEF Id
  <1>7. AnswersAreTrue'
    BY <1>1, <1>5, <1>6 DEF AnswersAreTrue
  <1>8. SettledIsCharged' /\ AcknowledgedReleaseIsFinal'
    BY <1>1, <1>5, <1>6, ZenonT(40) DEF SettledIsCharged, AcknowledgedReleaseIsFinal
  <1>9. /\ \A n \in Rounds : Chargeable(c, n) => Chargeable(c, n)'
        /\ \A n \in Rounds : Unreleased(c, n)' => Unreleased(c, n)
        /\ \A call \in calls' \ calls :
               /\ call.op = "capturing" => Chargeable(c, call.round)'
               /\ call.op = "releasing" => ~Unreleased(c, call.round)'
    BY RoundsStep
  <1>10. \A d \in Clients \ {c}, n \in Rounds :
             Chargeable(d, n)' = Chargeable(d, n) /\ Unreleased(d, n)' = Unreleased(d, n)
    BY <1>1 DEF Chargeable, Unreleased
  <1>11. ChargesAreOfOneRound'
    <2> SUFFICES ASSUME NEW d \in Clients, NEW n \in Rounds,
                        \/ IdOf[d][n] \in indexed
                        \/ \E call \in calls' :
                               call.op = "capturing" /\ call.client = d /\ call.round = n
                 PROVE  Chargeable(d, n)'
      BY <1>1, ZenonT(40) DEF ChargesAreOfOneRound
    <2>1. Chargeable(d, n) => Chargeable(d, n)'
      BY <1>9, <1>10, ZenonT(40)
    <2>2. CASE \/ IdOf[d][n] \in indexed
               \/ \E call \in calls :
                      call.op = "capturing" /\ call.client = d /\ call.round = n
      BY <2>1, <2>2, ZenonT(40) DEF ChargesAreOfOneRound
    <2>3. CASE \E call \in calls' \ calls :
                   call.op = "capturing" /\ call.client = d /\ call.round = n
      BY <1>1, <1>9, <2>3, ZenonT(40)
    <2> QED
      BY <2>2, <2>3
  <1>12. OnlyExpiryCloses'
    <2> SUFFICES ASSUME NEW d \in Clients, NEW n \in Rounds, Unreleased(d, n)'
                 PROVE  /\ \A call \in calls' :
                               ~(call.op = "releasing" /\ call.client = d /\ call.round = n)
                        /\ auths[IdOf[d][n]].status = "released" => auths[IdOf[d][n]].due
      BY <1>1, ZenonT(40) DEF OnlyExpiryCloses
    <2>1. Unreleased(d, n)
      BY <1>9, <1>10
    <2>2. \A call \in calls' \ calls :
              ~(call.op = "releasing" /\ call.client = d /\ call.round = n)
      BY <1>1, <1>9, ZenonT(40)
    <2> QED
      BY <2>1, <2>2, ZenonT(40) DEF OnlyExpiryCloses
  <1> QED
    BY <1>2, <1>3, <1>4, <1>7, <1>8, <1>11, <1>12

\* The control plane executes a call.
LEMMA ServeInv ==
    ASSUME ClientInv, NEW call \in calls, Serve(call)
    PROVE  ClientInv'
  <1> USE DEF ClientInv
  <1>1. PICK result \in Replies \ {"none"} :
            /\ Answer(call, result)
            /\ call.op = "capturing" /\ result = "ok" => KeyOf(call) \in indexed'
            /\ call.op = "releasing" /\ result = "ok" => auths'[KeyOf(call)].status = "released"
    BY ServeEffect
  <1>2. /\ \A r \in indexed' \ indexed : call.op = "capturing" /\ r = KeyOf(call)
        /\ \A r \in Requests : auths'[r].status = "released" =>
               auths[r].status = "released" \/ (call.op = "releasing" /\ r = KeyOf(call))
    BY ServeEffect
  <1>3. [Next]_vars
    BY StepImplements DEF ClientNext
  <1>4. Inv'
    BY <1>3, NextInv
  <1>5. /\ indexed \subseteq indexed'
        /\ CapturedIsIndexed'
        /\ \A r \in Requests : auths[r].status = "released" =>
               auths'[r].status = "released" /\ auths'[r].due = auths[r].due
    BY <1>3, LedgerOnlyAdvances
  <1>6. /\ calls' = calls \ {call}
        /\ UNCHANGED <<pc, round, attempt, next, acked>>
        /\ call.client \in Clients /\ call.round \in Rounds
    BY <1>1, ZenonT(40) DEF Answer, ClientTypes, Calls
  <1>7. ClientTypes' /\ FailoverHasRounds'
    BY <1>1, <1>6 DEF ClientTypes, FailoverHasRounds, Answer
  <1>8. \A c \in Clients : Id(c)' = Id(c) /\ Id(c) \in Requests
    BY <1>6, KeysAreRequests DEF Id
  <1>9. AnswersAreTrue'
    <2> SUFFICES ASSUME NEW c \in Clients
                 PROVE  /\ pc[c] = "capturing" /\ reply'[c] = "ok" => Id(c) \in indexed'
                        /\ pc[c] = "releasing" /\ next[c] = "settled" => Id(c) \in indexed'
                        /\ pc[c] = "releasing" /\ reply'[c] = "ok" =>
                               auths'[Id(c)].status = "released"
      BY <1>6, <1>8 DEF AnswersAreTrue
    <2>1. CASE reply'[c] = reply[c]
      BY <1>5, <1>8, <2>1 DEF AnswersAreTrue
    <2>2. CASE reply'[c] # reply[c]
      <3>1. c = call.client /\ call = CallOf(c) /\ reply'[c] = result
        BY <1>1, <2>2 DEF Answer, ClientTypes
      <3>2. call.op = pc[c] /\ KeyOf(call) = Id(c)
        BY <3>1 DEF CallOf, KeyOf, Id
      <3> QED
        BY <1>1, <1>5, <3>1, <3>2, ZenonT(40) DEF AnswersAreTrue
    <2> QED
      BY <2>1, <2>2
  <1>10. AcknowledgedReleaseIsFinal' /\ SettledIsCharged'
    BY <1>5, <1>6, <1>8 DEF AcknowledgedReleaseIsFinal, SettledIsCharged, ClientTypes
  <1>11. \A c \in Clients, n \in Rounds :
             /\ Chargeable(c, n)' = Chargeable(c, n)
             /\ Unreleased(c, n)' = Unreleased(c, n)
             /\ IdOf[c][n] \in Requests
             /\ IdOf[c][n] = KeyOf(call) => c = call.client /\ n = call.round
    BY <1>6, BillingClientAssumption DEF Chargeable, Unreleased, KeyOf
  <1>12. ChargesAreOfOneRound'
    <2> SUFFICES ASSUME NEW c \in Clients, NEW n \in Rounds,
                        \/ IdOf[c][n] \in indexed'
                        \/ \E other \in calls' :
                               other.op = "capturing" /\ other.client = c /\ other.round = n
                 PROVE  Chargeable(c, n)'
      BY ZenonT(40) DEF ChargesAreOfOneRound
    <2>1. Chargeable(c, n)' = Chargeable(c, n)
      BY <1>11, ZenonT(40)
    <2>2. CASE IdOf[c][n] \in indexed' \ indexed
      BY <1>2, <1>11, <2>1, <2>2, ZenonT(40) DEF ChargesAreOfOneRound
    <2>3. CASE IdOf[c][n] \in indexed
      BY <2>1, <2>3, ZenonT(40) DEF ChargesAreOfOneRound
    <2>4. CASE \E other \in calls' :
                   other.op = "capturing" /\ other.client = c /\ other.round = n
      BY <1>6, <2>1, <2>4, ZenonT(40) DEF ChargesAreOfOneRound
    <2> QED
      BY <2>2, <2>3, <2>4, ZenonT(40)
  <1>13. OnlyExpiryCloses'
    <2> SUFFICES ASSUME NEW c \in Clients, NEW n \in Rounds, Unreleased(c, n)'
                 PROVE  /\ \A other \in calls' :
                               ~(other.op = "releasing" /\ other.client = c /\ other.round = n)
                        /\ auths'[IdOf[c][n]].status = "released" => auths'[IdOf[c][n]].due
      BY ZenonT(40) DEF OnlyExpiryCloses
    <2>1. Unreleased(c, n) /\ IdOf[c][n] \in Requests
      BY <1>11, ZenonT(40)
    <2>2. /\ \A other \in calls :
                 ~(other.op = "releasing" /\ other.client = c /\ other.round = n)
          /\ auths[IdOf[c][n]].status = "released" => auths[IdOf[c][n]].due
      BY <2>1, ZenonT(40) DEF OnlyExpiryCloses
    <2>3. ~(call.op = "releasing" /\ IdOf[c][n] = KeyOf(call))
      BY <1>11, <2>2, ZenonT(40)
    <2>4. auths'[IdOf[c][n]].status = "released" => auths'[IdOf[c][n]].due
      BY <1>2, <1>5, <2>1, <2>2, <2>3, ZenonT(40)
    <2> QED
      BY <1>6, <2>2, <2>4, ZenonT(40)
  <1> QED
    BY <1>4, <1>5, <1>7, <1>9, <1>10, <1>12, <1>13

\* The ledger's own steps: recharges, the clock and the reconcile loops.
LEMMA LedgerStepInv ==
    ASSUME ClientInv, LedgerStep
    PROVE  ClientInv'
  <1> USE DEF ClientInv
  <1>1. UNCHANGED <<pc, round, attempt, next, reply, calls, acked>>
    BY DEF LedgerStep, clientVars
  <1>2. [Next]_vars
    BY StepImplements DEF ClientNext
  <1>3. Inv'
    BY <1>2, NextInv
  <1>4. /\ indexed \subseteq indexed'
        /\ CapturedIsIndexed'
        /\ \A r \in Requests : auths[r].status = "released" =>
               auths'[r].status = "released" /\ auths'[r].due = auths[r].due
    BY <1>2, LedgerOnlyAdvances
  <1>5. /\ UNCHANGED indexed
        /\ \A r \in Requests : auths'[r].status = "released" =>
               auths[r].status = "released" \/ auths'[r].due
    <2>0. auths \in [Requests -> Authorizations]
      BY DEF Inv, TypeOK
    <2>1. ASSUME NEW t \in Tenants, NEW a \in Amounts, AdminRecharge(t, a)
          PROVE  UNCHANGED <<indexed, auths>>
      BY <2>1 DEF AdminRecharge, Deposit
    <2>2. ASSUME NEW r \in Requests, BecomeDue(r)
          PROVE  /\ UNCHANGED indexed
                 /\ \A q \in Requests : auths'[q].status = auths[q].status
      BY <2>0, <2>2 DEF BecomeDue, Authorizations
    <2>3. ASSUME NEW k \in Reconcilers, ReconcileStep(k) \/ ReconcileAbort(k)
          PROVE  UNCHANGED <<indexed, auths>>
      BY <2>3, ZenonT(40) DEF ReconcileStep, ReconcileSelect, ReconcileRow, ReconcileAbort, ledgerVars
    <2>4. ASSUME NEW k \in Reconcilers, ReconcileCommit(k)
          PROVE  /\ UNCHANGED indexed
                 /\ \A q \in Requests : auths'[q] = auths[q] \/ auths'[q].due
      BY <2>4, CommitClosesDue
    <2> QED
      BY <2>1, <2>2, <2>3, <2>4, ZenonT(40) DEF LedgerStep
  <1>6. ClientTypes' /\ FailoverHasRounds'
    BY <1>1 DEF ClientTypes, FailoverHasRounds
  <1>7. \A c \in Clients : Id(c)' = Id(c) /\ Id(c) \in Requests
    BY <1>1, KeysAreRequests DEF Id
  <1>8. AnswersAreTrue'
    BY <1>1, <1>4, <1>7 DEF AnswersAreTrue
  <1>9. AcknowledgedReleaseIsFinal' /\ SettledIsCharged'
    BY <1>1, <1>4, <1>7, ZenonT(40) DEF AcknowledgedReleaseIsFinal, SettledIsCharged, ClientTypes
  <1>10. \A c \in Clients, n \in Rounds :
             /\ Chargeable(c, n)' = Chargeable(c, n)
             /\ Unreleased(c, n)' = Unreleased(c, n)
             /\ IdOf[c][n] \in Requests
    BY <1>1, BillingClientAssumption DEF Chargeable, Unreleased
  <1>11. ChargesAreOfOneRound'
    BY <1>1, <1>5, <1>10 DEF ChargesAreOfOneRound
  <1>12. OnlyExpiryCloses'
    BY <1>1, <1>4, <1>5, <1>10 DEF OnlyExpiryCloses
  <1> QED
    BY <1>3, <1>4, <1>6, <1>8, <1>9, <1>11, <1>12, ZenonT(40)

\* The invariant holds in every reachable state.
LEMMA ClientInvAlways == ClientSafetySpec => []ClientInv
  <1>1. ClientInv /\ [ClientNext]_allVars => ClientInv'
    <2> SUFFICES ASSUME ClientInv, [ClientNext]_allVars PROVE ClientInv'
      OBVIOUS
    <2>1. CASE UNCHANGED allVars
      <3>1. UNCHANGED <<vars, indexed, auths, pc, round, next, reply, calls, acked, attempt>>
        BY <2>1 DEF allVars, vars, clientVars
      <3>2. Inv'
        BY <3>1, NextInv DEF ClientInv
      <3>3. ClientTypes' /\ FailoverHasRounds' /\ CapturedIsIndexed'
        BY <3>1, ZenonT(40) DEF ClientInv, ClientTypes, FailoverHasRounds, CapturedIsIndexed
      <3>4. AnswersAreTrue' /\ AcknowledgedReleaseIsFinal' /\ SettledIsCharged'
        BY <3>1, ZenonT(40) DEF ClientInv, AnswersAreTrue, AcknowledgedReleaseIsFinal, SettledIsCharged, Id
      <3>5. ChargesAreOfOneRound' /\ OnlyExpiryCloses'
        BY <3>1 DEF ClientInv, ChargesAreOfOneRound, OnlyExpiryCloses, Chargeable, Unreleased
      <3> QED
        BY <3>2, <3>3, <3>4, <3>5 DEF ClientInv
    <2> QED
      BY <2>1, ClientStepInv, ServeInv, LedgerStepInv DEF ClientNext
  <1> QED
    BY <1>1, ClientInitInv, PTL DEF ClientSafetySpec

\* However calls are delayed, lost, executed late or repeated, the data plane
\* moves the ledger only as the ledger's own operations do.
THEOREM ClientImplementsLedger == ClientSafetySpec => ImplementsLedger
  <1>1. ClientInit => Init
    BY DEF ClientInit
  <1>2. ClientInv /\ [ClientNext]_allVars => [Next]_vars
    BY StepImplements DEF ClientInv
  <1> QED
    BY <1>1, <1>2, ClientInvAlways, PTL DEF ClientSafetySpec, ImplementsLedger, SafetySpec

\* A settle that returns Ok has charged the request and closed its hold
\* (settle_authorized_billing).
THEOREM SettledAlwaysCharged == ClientSafetySpec => []SettledIsCharged
  <1>1. ClientInv => SettledIsCharged
    BY DEF ClientInv
  <1> QED
    BY <1>1, ClientInvAlways, PTL

\* A client is charged for one of its keys at most, however often it fails
\* over to another account and however late its calls are executed.
THEOREM ClientChargedOnce == ClientSafetySpec => []ChargedOnce
  <1>1. ClientInv => ChargedOnce
    BY DEF ClientInv, ChargesAreOfOneRound, Chargeable, ChargedOnce
  <1> QED
    BY <1>1, ClientInvAlways, PTL

\* A release the client has seen acknowledged is final, and a capture refused
\* because the hold is released has lost it to the expiry alone.
THEOREM HoldsCloseForGood ==
    ClientSafetySpec => [](AcknowledgedReleaseIsFinal /\ CaptureOnlyLosesToExpiry)
  <1>1. ClientInv => AcknowledgedReleaseIsFinal /\ CaptureOnlyLosesToExpiry
    <2> SUFFICES ASSUME ClientInv, NEW c \in Clients, pc[c] = "capturing",
                        auths[Id(c)].status = "released"
                 PROVE  auths[Id(c)].due
      BY DEF ClientInv, CaptureOnlyLosesToExpiry
    <2>1. round[c] \in Rounds /\ Unreleased(c, round[c])
      BY DEF ClientInv, ClientTypes, Unreleased, Finished
    <2> QED
      BY <2>1 DEF ClientInv, OnlyExpiryCloses, Id
  <1> QED
    BY <1>1, ClientInvAlways, PTL
=============================================================================
