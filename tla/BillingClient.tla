---------------------------- MODULE BillingClient ----------------------------
(***************************************************************************)
(* The data plane's billing of proxied requests, composed with the credit  *)
(* ledger it calls over HTTP. A call may be executed after its caller has  *)
(* given up (the 5 s timeout), its answer may be lost, and it may never be *)
(* executed; a caller may disappear between any two steps (a client that   *)
(* disconnects drops the handler, a process stops).                        *)
(*                                                                         *)
(* A data-plane request uses one ledger key per round: a failover to       *)
(* another upstream account releases the hold and goes on with a fresh key.*)
(***************************************************************************)
EXTENDS CreditLedger

CONSTANTS
    Clients,          \* proxied requests
    IdOf,             \* the key a client uses in each round
    MaxFailovers,     \* bound: failovers of one client
    CaptureRetryMax   \* billing_capture_retry_max

Rounds == 0 .. MaxFailovers

\* Keys are version 4 UUIDs: no two rounds share one.
ASSUME BillingClientAssumption ==
    /\ MaxFailovers \in Nat
    /\ CaptureRetryMax \in Nat
    /\ IdOf \in [Clients -> [Rounds -> Requests]]
    /\ \A c, d \in Clients : \A m, n \in Rounds :
           IdOf[c][m] = IdOf[d][n] => c = d /\ m = n

VARIABLES
    pc,       \* what the client is doing
    round,    \* number of its failovers
    attempt,  \* failed tries of the current capture
    next,     \* where a client that releases its hold goes afterwards
    reply,    \* the answer that waits for the client
    calls,    \* calls sent and not executed
    acked     \* keys whose release a client has seen acknowledged

clientVars == <<pc, round, attempt, next, reply, calls, acked>>
allVars == <<vars, clientVars>>

Waiting == {"authorizing", "capturing", "releasing"}

Finished == {"settled", "unsettled", "released", "refused", "gone"}

Replies == {"none", "ok", "rejected", "retryable"}

Calls == [op: Waiting, client: Clients, round: Rounds, attempt: 0 .. CaptureRetryMax]

ClientInit ==
    /\ Init
    /\ pc = [c \in Clients |-> "new"]
    /\ round = [c \in Clients |-> 0]
    /\ attempt = [c \in Clients |-> 0]
    /\ next = [c \in Clients |-> "released"]
    /\ reply = [c \in Clients |-> "none"]
    /\ calls = {}
    /\ acked = {}

-----------------------------------------------------------------------------
Id(c) == IdOf[c][round[c]]

CallOf(c) == [op |-> pc[c], client |-> c, round |-> round[c], attempt |-> attempt[c]]

\* The client sends a call and waits for its answer.
Send(c, op, n, a) ==
    /\ pc' = [pc EXCEPT ![c] = op]
    /\ round' = [round EXCEPT ![c] = n]
    /\ attempt' = [attempt EXCEPT ![c] = a]
    /\ reply' = [reply EXCEPT ![c] = "none"]
    /\ calls' = calls \cup {[op |-> op, client |-> c, round |-> n, attempt |-> a]}

Finish(c, outcome) ==
    /\ pc' = [pc EXCEPT ![c] = outcome]
    /\ reply' = [reply EXCEPT ![c] = "none"]
    /\ UNCHANGED <<round, attempt, calls>>

AuthorizeBillingSession(c) ==
    /\ pc[c] = "new"
    /\ Send(c, "authorizing", round[c], 0)
    /\ UNCHANGED <<vars, next, acked>>

\* No hold is released for an authorize call that failed.
Authorized(c) ==
    /\ pc[c] = "authorizing"
    /\ reply[c] # "none"
    /\ Finish(c, IF reply[c] = "ok" THEN "upstream" ELSE "refused")
    /\ UNCHANGED <<vars, next, acked>>

\* The upstream has answered: the hold is captured, or released because the
\* answer is a failure or shows no usage.
SettleAuthorizedBilling(c) ==
    /\ pc[c] = "upstream"
    /\ Send(c, "capturing", round[c], 0)
    /\ UNCHANGED <<vars, next, acked>>

Release(c, after) ==
    /\ Send(c, "releasing", round[c], 0)
    /\ next' = [next EXCEPT ![c] = after]
    /\ UNCHANGED <<vars, acked>>

ReleaseBillingHoldBestEffort(c) ==
    /\ pc[c] = "upstream"
    /\ Release(c, "released")

ReleaseForCrossAccountFailover(c) ==
    /\ pc[c] = "upstream"
    /\ round[c] < MaxFailovers
    /\ Release(c, "authorizing")

\* A capture is tried again after a gateway error, and then given up.
CaptureFailed(c) ==
    IF reply[c] = "retryable" /\ attempt[c] + 1 < CaptureRetryMax
    THEN Send(c, "capturing", round[c], attempt[c] + 1) /\ UNCHANGED <<vars, next, acked>>
    ELSE Release(c, "unsettled")

Captured(c) ==
    /\ pc[c] = "capturing"
    /\ reply[c] # "none"
    /\ IF reply[c] = "ok" THEN Release(c, "settled") ELSE CaptureFailed(c)

\* Only a settle looks at the outcome of its release. A failover goes on with
\* a rotated key whether or not the old hold was released.
Released(c) ==
    /\ pc[c] = "releasing"
    /\ reply[c] # "none"
    /\ acked' = IF reply[c] = "ok" THEN acked \cup {Id(c)} ELSE acked
    /\ IF next[c] = "authorizing"
       THEN Send(c, "authorizing", round[c] + 1, 0)
       ELSE Finish(c, IF reply[c] = "ok" \/ next[c] # "settled" THEN next[c] ELSE "unsettled")
    /\ UNCHANGED <<vars, next>>

\* The call timed out, or its answer was lost: a gateway error to the client.
Timeout(c) ==
    /\ pc[c] \in Waiting
    /\ reply' = [reply EXCEPT ![c] = "retryable"]
    /\ UNCHANGED <<vars, pc, round, attempt, next, calls, acked>>

\* The handler is dropped or the process stops.
Abandon(c) ==
    /\ pc[c] \notin Finished
    /\ Finish(c, "gone")
    /\ UNCHANGED <<vars, next, acked>>

-----------------------------------------------------------------------------
\* The call is executed; its answer reaches a client that still waits for it.
Answer(call, result) ==
    /\ calls' = calls \ {call}
    /\ reply' = IF call = CallOf(call.client) /\ reply[call.client] = "none"
                THEN [reply EXCEPT ![call.client] = result] ELSE reply
    /\ UNCHANGED <<pc, round, attempt, next, acked>>

KeyOf(call) == IdOf[call.client][call.round]

ServeAuthorize(call) ==
    LET r == KeyOf(call)
        t == TenantOf[r]
    IN  /\ r \notin Locked
        /\ \/ \E n \in Reserves : BillingAuthorize(r, n) /\ Answer(call, "ok")
           \/ /\ auths[r].status = "none"
              /\ AccountFree(t)
              /\ \E n \in Reserves : ~Affordable(t, -n)
              /\ Answer(call, "rejected")
              /\ UNCHANGED vars
           \/ /\ auths[r].status = "authorized"
              /\ Answer(call, "ok")
              /\ UNCHANGED vars
           \/ /\ auths[r].status \in {"captured", "released"}
              /\ Answer(call, "rejected")
              /\ UNCHANGED vars

ServeCaptureOfReleased(call) ==
    LET r == KeyOf(call)
        t == TenantOf[r]
    IN  /\ r \notin Locked
        /\ \/ \E n \in Charges : BillingCapture(r, n) /\ Answer(call, "ok")
           \/ /\ auths[r].status = "authorized"
              /\ AccountFree(t)
              /\ \E n \in Charges : ~Affordable(t, -ExtraCharge(auths[r], n))
              /\ Answer(call, "rejected")
              /\ UNCHANGED vars
           \/ /\ auths[r].status \in {"captured", "released"}
              /\ Answer(call, "ok")
              /\ UNCHANGED vars

\* A missing authorization is a 404, which the client maps to a gateway error.
ServeCapture(call) ==
    LET r == KeyOf(call)
        t == TenantOf[r]
    IN  /\ r \notin Locked
        /\ \/ \E n \in Charges : BillingCapture(r, n) /\ Answer(call, "ok")
           \/ /\ auths[r].status = "authorized"
              /\ AccountFree(t)
              /\ \E n \in Charges : ~Affordable(t, -ExtraCharge(auths[r], n))
              /\ Answer(call, "rejected")
              /\ UNCHANGED vars
           \/ /\ auths[r].status = "captured"
              /\ Answer(call, "ok")
              /\ UNCHANGED vars
           \/ /\ auths[r].status = "released"
              /\ Answer(call, "rejected")
              /\ UNCHANGED vars
           \/ /\ auths[r].status = "none"
              /\ Answer(call, "retryable")
              /\ UNCHANGED vars

ServeReleaseNoRefund(call) ==
    LET r == KeyOf(call)
    IN  /\ r \notin Locked
        /\ auths[r].status \in {"authorized", "captured"}
        /\ auths' = [auths EXCEPT ![r].status = "released"]
        /\ Answer(call, "ok")
        /\ UNCHANGED <<balance, deposits, posted, indexed, claimed, recon>>

ServeRelease(call) ==
    LET r == KeyOf(call)
    IN  /\ r \notin Locked
        /\ \/ BillingRelease(r) /\ Answer(call, "ok")
           \/ /\ auths[r].status = "released"
              /\ Answer(call, "ok")
              /\ UNCHANGED vars
           \/ /\ auths[r].status = "none"
              /\ Answer(call, "retryable")
              /\ UNCHANGED vars

Serve(call) ==
    \/ call.op = "authorizing" /\ ServeAuthorize(call)
    \/ call.op = "capturing" /\ ServeCapture(call)
    \/ call.op = "releasing" /\ ServeRelease(call)

ClientStep(c) ==
    \/ AuthorizeBillingSession(c) \/ Authorized(c)
    \/ SettleAuthorizedBilling(c) \/ ReleaseBillingHoldBestEffort(c)
    \/ ReleaseForCrossAccountFailover(c)
    \/ Captured(c) \/ Released(c)

LedgerStep ==
    /\ \/ \E t \in Tenants, a \in Amounts : AdminRecharge(t, a)
       \/ \E r \in Requests : BecomeDue(r)
       \/ \E k \in Reconcilers : ReconcileStep(k) \/ ReconcileCommit(k) \/ ReconcileAbort(k)
    /\ UNCHANGED clientVars

ClientNext ==
    \/ \E c \in Clients : ClientStep(c) \/ Timeout(c) \/ Abandon(c)
    \/ \E call \in calls : Serve(call)
    \/ LedgerStep

\* The timeout bounds every wait, and the client's code then runs on; nothing
\* makes the control plane execute a call.
ClientFairness ==
    /\ Fairness
    /\ \A c \in Clients : WF_allVars(ClientStep(c)) /\ WF_allVars(Timeout(c))

ClientSafetySpec == ClientInit /\ [][ClientNext]_allVars

ClientSpec == ClientSafetySpec /\ ClientFairness

-----------------------------------------------------------------------------
\* The composed system only moves the ledger as the ledger's own operations
\* do, so what holds of CreditLedger holds of it.
ImplementsLedger == SafetySpec

\* Once a client has seen its release acknowledged, the hold is closed for
\* good: neither a late capture nor a late authorize of the same key can charge
\* it or take it again (billing_capture and billing_authorize refuse it).
AcknowledgedReleaseIsFinal == \A r \in acked : auths[r].status = "released"

\* A settle that returns Ok has charged the request: the capture row exists
\* and the rest of the hold went back.
SettledIsCharged ==
    \A c \in Clients : pc[c] = "settled" =>
        Id(c) \in indexed /\ auths[Id(c)].status = "released"

\* A client is charged in one round at most, although captures of a timed-out
\* settle and authorizations of later rounds may be executed in any order.
ChargedOnce ==
    \A c \in Clients : \A m, n \in Rounds :
        IdOf[c][m] \in indexed /\ IdOf[c][n] \in indexed => m = n

\* The client whose capture is refused as "released" has lost its hold to the
\* expiry, never to a release of its own.
CaptureOnlyLosesToExpiry ==
    \A c \in Clients :
        pc[c] = "capturing" /\ auths[Id(c)].status = "released" => auths[Id(c)].due

\* A hold that was taken is closed in the end, even one taken by a late
\* authorize call whose client is gone.
HoldsAreClosed == EveryHoldIsClosed

=============================================================================
