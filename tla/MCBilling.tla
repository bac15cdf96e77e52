------------------------------ MODULE MCBilling ------------------------------
(***************************************************************************)
(* The credit ledger on one small instance, called in any order (focus is  *)
(* "ledger") or by the data plane's billing client ("client").             *)
(***************************************************************************)
EXTENDS BillingClient, FiniteSetsExt, TLC

CONSTANTS t1, c1, r1, r2, k1, k2

VARIABLE focus

\* One client with a key for each of its two rounds.
MCIdOf == c1 :> (0 :> r1 @@ 1 :> r2)
MCTenantOf == r1 :> t1 @@ r2 :> t1

-----------------------------------------------------------------------------
billingVars == <<focus, allVars>>

BillingInit == focus \in {"ledger", "client"} /\ ClientInit

LedgerDoes(A) == focus = "ledger" /\ A /\ UNCHANGED <<focus, clientVars>>
ClientDoes(A) == focus = "client" /\ A /\ UNCHANGED focus

BillingNext == LedgerDoes(Next) \/ ClientDoes(ClientNext)

\* The fairness of the ledger, whoever calls it, and of the client (ClientFairness).
BillingSpec ==
    /\ BillingInit /\ [][BillingNext]_billingVars
    /\ Fairness
    /\ \A c \in Clients : /\ WF_billingVars(ClientDoes(ClientStep(c)))
                          /\ WF_billingVars(ClientDoes(Timeout(c)))

-----------------------------------------------------------------------------
\* Until a deposit has saturated, the balance is what was paid in minus what
\* the tenant's authorizations cost: credits are neither made nor lost.
CreditsConserved ==
    \A t \in Tenants : deposits[t] <= MaxI64 =>
        balance[t] = deposits[t]
                   - MapThenSumSet(LAMBDA r : Owed(auths[r]), {r \in Requests : TenantOf[r] = t})
=============================================================================
