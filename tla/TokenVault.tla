----------------------------- MODULE TokenVault -----------------------------
(***************************************************************************)
(* The vault of imported refresh tokens and the loop that turns its        *)
(* records into accounts, in both stores: the Postgres store of the team   *)
(* editions and the in-memory store of the personal edition.  A record is  *)
(* queued, probed with the access token that came with it, and activated:  *)
(* a record that was found ready becomes an account as it is, any other    *)
(* one is refreshed at the provider first.                                 *)
(*                                                                         *)
(* There is one record per refresh token (refresh_token_sha256 is unique), *)
(* so records are named by their token.  A provider that rotates gives a   *)
(* new refresh token in exchange and refuses the old one from then on: the *)
(* tokens that descend from t are numbered, and the vault holds number 0.  *)
(* A job is what a process does with a record; its fields are what it has  *)
(* read so far.  Times are the events that end them.                       *)
(***************************************************************************)
EXTENDS Naturals, FiniteSets, Sequences, SequencesExt, FiniteSetsExt

CONSTANTS Tokens,
          Identity,       \* chatgpt_account_user_id behind each token
          Workspace,      \* chatgpt_account_id behind each token
          VaultWorlds,    \* stores, providers and access tokens considered, bounds on calls and faults
          VaultCallers,        \* calls of the API
          Activator,      \* the activation loop
          NoIdentity,
          RuntimeCap, ActiveTarget, ActivateBatch,
          RetryLimit,     \* OAUTH_VAULT_TERMINAL_AUTH_RETRY_LIMIT
          ProbeErrors,    \* the signals found in a refused probe
          MaxAccounts

\* What the code looks for in the code and the message of a refusal.
ProbeSignals == {"fatal", "quota", "transient", "auth"}

VaultProcs == VaultCallers \cup {Activator}
AccountIds == 1..MaxAccounts

ASSUME VaultAssumption ==
    /\ IsFiniteSet(Tokens) /\ Activator \notin VaultCallers
    /\ \A w \in VaultWorlds : w.store \in {"memory", "postgres"} /\ w.rotates \in BOOLEAN
                             /\ {w.calls, w.faults} \subseteq Nat
    /\ ProbeErrors \subseteq SUBSET ProbeSignals
    /\ {RuntimeCap, ActiveTarget, ActivateBatch, RetryLimit} \subseteq Nat \ {0}

VARIABLES vaultWorld,     \* the store and the provider at hand
          vault,     \* oauth_refresh_token_vault
          arrived,   \* its records by created_at
          pool,      \* upstream_accounts with their credentials
          ranked,    \* accounts as an identity prefers them, the best one last
          current,   \* the descendant of a token that the provider accepts
          expired,   \* tokens whose access token has run out
          job,       \* what a process is doing with a record
          stage,     \* the activation loop: between passes, or reprobing
          given,     \* history: identities whose token was given up
          marked,    \* history: records last written by an operator who marked them failed
          outside,   \* history: accounts created by callers
          born, vaultCalls, vaultFaults

vaultVars == <<vaultWorld, vault, arrived, pool, ranked, current, expired, job, stage, given, marked, outside,
               born, vaultCalls, vaultFaults>>

OnMemory == vaultWorld.store = "memory"

NoRecord == [kept |-> FALSE, status |-> "queued", fails |-> 0, transients |-> 0, backoff |-> FALSE,
             retry |-> "none", retryable |-> TRUE, fallback |-> "none"]
Queued(f) == [NoRecord EXCEPT !.kept = TRUE, !.fallback = f]
NoAccountRow == [kept |-> FALSE, chain |-> "none", number |-> 0, who |-> NoIdentity]
\* late: the record was marked failed when the job took it up.
Seen(rec) == [status |-> rec.status, transients |-> rec.transients, fallback |-> rec.fallback]
NoJob == [at |-> "none", rec |-> Seen(NoRecord), number |-> 0, target |-> 0, late |-> FALSE]
Busy(p) == \E t \in Tokens : job[p][t].at # "none"

VaultInit ==
    /\ vaultWorld \in VaultWorlds
    /\ vault = [t \in Tokens |-> NoRecord] /\ arrived = <<>>
    /\ pool = [a \in AccountIds |-> NoAccountRow] /\ ranked = <<>>
    /\ current = [t \in Tokens |-> 0] /\ expired = {}
    /\ job = [p \in VaultProcs |-> [t \in Tokens |-> NoJob]] /\ stage = "idle"
    /\ given = {} /\ marked = {} /\ outside = 0
    /\ born = 0 /\ vaultCalls = 0 /\ vaultFaults = 0

-----------------------------------------------------------------------------
(* The admission probe.                                                    *)

\* What the probe of a record writes.  Without an access token to ask with
\* it does not ask; an answer needs a known expiry to make the record ready.
Verdict(status, retry, retryable) ==
    [status |-> status, retry |-> retry, retryable |-> retryable, spend |-> 0]

Unasked(rec) == IF rec.fallback = "none" THEN Verdict("needs_refresh", "none", TRUE)
                ELSE Verdict("failed", "none", FALSE)

Answered(rec, blocked) ==
    IF rec.fallback = "undated" THEN Verdict("needs_refresh", "none", TRUE)
    ELSE IF blocked THEN Verdict("no_quota", "later", TRUE)
    ELSE Verdict("ready", "none", FALSE)

RetryAfter(rec, signals) ==
    IF \/ signals \cap {"quota", "transient"} = {}
       \/ "transient" \in signals /\ rec.transients >= RetryLimit
    THEN "none" ELSE "later"

Refused(rec, signals) ==
    LET retry == RetryAfter(rec, signals)
        status == IF "fatal" \in signals THEN "failed"
                  ELSE IF retry # "none" /\ "quota" \in signals THEN "no_quota"
                  ELSE IF "auth" \in signals THEN "needs_refresh" ELSE "failed"
    IN [Verdict(status, retry, status = "needs_refresh" \/ (retry # "none" /\ "fatal" \notin signals))
        EXCEPT !.spend = IF "transient" \in signals /\ retry # "none" THEN 1 ELSE 0]

\* The record as it is by now gets the verdict on the record as it was read.
Admitted(rec, v) ==
    [rec EXCEPT !.status = v.status, !.retry = v.retry, !.retryable = v.retryable,
                !.transients = Min({@ + v.spend, RetryLimit})]

ReadForProbe(p, t) ==
    /\ job[p][t].at = "read"
    /\ job' = [job EXCEPT ![p][t] = IF vault[t].kept THEN [@ EXCEPT !.at = "ask", !.rec = Seen(vault[t])]
                                    ELSE NoJob]
    /\ UNCHANGED <<vaultWorld, vault, arrived, pool, ranked, current, expired, stage, given, marked, outside,
                   born, vaultCalls, vaultFaults>>

\* The verdicts on what was read, and whether they spend a fault.
Verdicts(rec) ==
    IF rec.fallback \in {"none", "broken"} THEN {<<Unasked(rec), 0>>}
    ELSE {<<Answered(rec, FALSE), 0>>, <<Answered(rec, TRUE), 1>>}
         \cup {<<Refused(rec, e), 1>> : e \in ProbeErrors}

\* In memory the loop probes a ready record once more before it uses it.
EndProbeJob(p, t) ==
    /\ job[p][t].at = "ask"
    /\ \E v \in Verdicts(job[p][t].rec) :
          /\ vaultFaults + v[2] <= vaultWorld.faults /\ vaultFaults' = vaultFaults + v[2]
          /\ vault' = [vault EXCEPT ![t] = IF @.kept THEN Admitted(@, v[1]) ELSE @]
    /\ job' = [job EXCEPT ![p][t] = IF p = Activator /\ stage = "idle"
                                    THEN [@ EXCEPT !.at = "reread"] ELSE NoJob]
    /\ marked' = marked \ {t}
    /\ UNCHANGED <<vaultWorld, arrived, pool, ranked, current, expired, stage, given, outside,
                   born, vaultCalls>>

-----------------------------------------------------------------------------
(* Calls of the API.                                                       *)

VaultCall(c) == vaultCalls < vaultWorld.calls /\ vaultCalls' = vaultCalls + 1 /\ ~Busy(c)

\* Queueing a token again starts its record afresh; Postgres keeps an access
\* token that the new request lacks.
QueuedAgain(rec, f) == Queued(IF ~OnMemory /\ f = "none" THEN rec.fallback ELSE f)

QueueToken(c, t) ==
    \E f \in vaultWorld.fallbacks :
        /\ VaultCall(c)
        /\ vault' = [vault EXCEPT ![t] = QueuedAgain(@, f)]
        /\ arrived' = IF vault[t].kept THEN arrived ELSE Append(arrived, t)
        /\ job' = [job EXCEPT ![c][t].at = "read"] /\ marked' = marked \ {t}
        /\ UNCHANGED <<vaultWorld, pool, ranked, current, expired, stage, given, outside, born, vaultFaults>>

Marked(rec) == [rec EXCEPT !.status = "failed", !.retry = "none", !.retryable = FALSE]

\* Of several records at once, in memory under one lock; Postgres takes
\* them one by one.
Chosen(S) == S # {} /\ (\A t \in S : vault[t].kept) /\ (OnMemory \/ Cardinality(S) = 1)

MarkRecordsFailed(c, S) ==
    /\ VaultCall(c) /\ Chosen(S)
    /\ vault' = [t \in Tokens |-> IF t \in S THEN Marked(vault[t]) ELSE vault[t]]
    /\ marked' = marked \cup S
    /\ UNCHANGED <<vaultWorld, arrived, pool, ranked, current, expired, job, stage, given, outside, born,
                   vaultFaults>>

RestoreRecords(c, S) ==
    /\ VaultCall(c) /\ Chosen(S)
    /\ vault' = [t \in Tokens |-> IF t \in S THEN Queued(vault[t].fallback) ELSE vault[t]]
    /\ marked' = marked \ S
    /\ UNCHANGED <<vaultWorld, arrived, pool, ranked, current, expired, job, stage, given, outside, born,
                   vaultFaults>>

\* A record that is probed on demand is restored first.
ReprobeRecord(c, t) ==
    /\ VaultCall(c) /\ vault[t].kept
    /\ vault' = [vault EXCEPT ![t] = Queued(@.fallback)]
    /\ job' = [job EXCEPT ![c][t].at = "read"] /\ marked' = marked \ {t}
    /\ UNCHANGED <<vaultWorld, arrived, pool, ranked, current, expired, stage, given, outside, born,
                   vaultFaults>>

DropRecords(S) ==
    /\ vault' = [t \in Tokens |-> IF t \in S THEN NoRecord ELSE vault[t]]
    /\ arrived' = SelectSeq(arrived, LAMBDA t : t \notin S)
    /\ marked' = marked \ S

DeleteRecords(c, S) ==
    /\ VaultCall(c) /\ Chosen(S)
    /\ DropRecords(S) /\ given' = given \cup {Identity[t] : t \in S}
    /\ UNCHANGED <<vaultWorld, pool, ranked, current, expired, job, stage, outside, born, vaultFaults>>

DeletePoolAccount(c, a) ==
    /\ VaultCall(c) /\ pool[a].kept
    /\ pool' = [pool EXCEPT ![a] = NoAccountRow] /\ ranked' = Remove(ranked, a)
    /\ given' = given \cup {Identity[pool[a].chain]}
    /\ UNCHANGED <<vaultWorld, vault, arrived, current, expired, job, stage, marked, outside, born, vaultFaults>>

\* An import that waits for its account, past the vault.
UpsertToken(c, t) ==
    /\ VaultCall(c)
    /\ job' = [job EXCEPT ![c][t].at = "refresh"]
    /\ UNCHANGED <<vaultWorld, vault, arrived, pool, ranked, current, expired, stage, given, marked, outside, born,
                   vaultFaults>>

\* Validation refreshes the token to see whether it works, and forgets what
\* the provider sent.
ValidateToken(c, t) ==
    /\ VaultCall(c)
    /\ current[t] = 0 /\ vaultWorld.rotates
    /\ current' = [current EXCEPT ![t] = 1] /\ given' = given \cup {Identity[t]}
    /\ UNCHANGED <<vaultWorld, vault, arrived, pool, ranked, expired, job, stage, marked, outside, born, vaultFaults>>

-----------------------------------------------------------------------------
(* The activation loop.                                                    *)

ReprobeDue(t) == vault[t].kept /\ vault[t].status \in {"no_quota", "failed"} /\ vault[t].retry = "due"
Activatable(t) == vault[t].kept /\ vault[t].status \in {"ready", "needs_refresh", "queued"}
                  /\ ~vault[t].backoff

\* Postgres takes the oldest records, and sorts those; in memory the limit
\* applies to the sorted list.
Candidates(limit) ==
    LET ofStatus(s) == SelectSeq(arrived, LAMBDA t : Activatable(t) /\ vault[t].status = s)
        sorted == IF OnMemory THEN ofStatus("ready") \o ofStatus("needs_refresh") \o ofStatus("queued")
                  ELSE SelectSeq(arrived, Activatable)
    IN ToSet(SubSeq(sorted, 1, Min({limit, Len(sorted)})))

Runtime == Cardinality({a \in AccountIds : pool[a].kept})
MonusV(x, y) == IF x > y THEN x - y ELSE 0

PassLimit == Min({MonusV(ActiveTarget, Runtime), ActivateBatch, MonusV(RuntimeCap, Runtime)})

StartReprobes ==
    /\ stage = "idle" /\ ~Busy(Activator)
    /\ \E t \in Tokens : ReprobeDue(t) \/ Activatable(t)
    /\ \E S \in SUBSET {t \in Tokens : ReprobeDue(t)} :
          /\ Cardinality(S) = Min({ActivateBatch, Cardinality({t \in Tokens : ReprobeDue(t)})})
          /\ job' = [job EXCEPT ![Activator] = [t \in Tokens |-> IF t \in S THEN [NoJob EXCEPT !.at = "read", !.late = t \in marked]
                                                                 ELSE NoJob]]
    /\ stage' = "reprobe"
    /\ UNCHANGED <<vaultWorld, vault, arrived, pool, ranked, current, expired, given, marked, outside, born,
                   vaultCalls, vaultFaults>>

PickCandidates ==
    /\ stage = "reprobe" /\ ~Busy(Activator) /\ stage' = "idle"
    /\ job' = [job EXCEPT ![Activator] =
                 [t \in Tokens |-> IF t \in Candidates(PassLimit)
                                   THEN [NoJob EXCEPT !.at = "picked", !.rec = Seen(vault[t])] ELSE NoJob]]
    /\ UNCHANGED <<vaultWorld, vault, arrived, pool, ranked, current, expired, given, marked, outside, born,
                   vaultCalls, vaultFaults>>

\* Candidates are worked on concurrently in Postgres, one by one in memory.
MayBegin == OnMemory => \A t \in Tokens : job[Activator][t].at \in {"none", "picked"}

\* An access token that cannot be decrypted is a failure of its record in
\* Postgres; in memory the error ends the pass.
BeginCandidate(t) ==
    LET rec == job[Activator][t].rec
        next == IF rec.status = "ready"
                THEN IF OnMemory THEN "read" ELSE IF t \in expired THEN "failed" ELSE "match_ready"
                ELSE IF rec.fallback = "broken" THEN "unreadable" ELSE "refresh"
    IN
    /\ job[Activator][t].at = "picked" /\ MayBegin
    /\ job' = IF next = "unreadable" /\ OnMemory
              THEN [job EXCEPT ![Activator] = [u \in Tokens |-> NoJob]]
              ELSE [job EXCEPT ![Activator][t].at = next]
    /\ UNCHANGED <<vaultWorld, vault, arrived, pool, ranked, current, expired, stage, given, marked, outside, born,
                   vaultCalls, vaultFaults>>

\* After the second probe the record must still be ready.
ReadAgain(t) ==
    /\ job[Activator][t].at = "reread"
    /\ job' = [job EXCEPT ![Activator][t] =
                 IF ~vault[t].kept \/ vault[t].status # "ready" THEN NoJob
                 ELSE [@ EXCEPT !.rec = Seen(vault[t]),
                                !.at = IF t \in expired THEN "failed" ELSE "match_ready"]]
    /\ UNCHANGED <<vaultWorld, vault, arrived, pool, ranked, current, expired, stage, given, marked, outside, born,
                   vaultCalls, vaultFaults>>

\* Refusals that may be retried without end, and the others.
ActivationErrors == {"failed", "fatal"}

\* The token of the vault is refreshed.  The answer may be lost.
RefreshAtProvider(p, t) ==
    LET number == IF vaultWorld.rotates THEN 1 ELSE 0
        Faulty == vaultFaults < vaultWorld.faults /\ vaultFaults' = vaultFaults + 1
        To(s) == job' = [job EXCEPT ![p][t].at = s, ![p][t].number = number]
    IN
    /\ job[p][t].at = "refresh"
    /\ \/ /\ current[t] = 0 /\ current' = [current EXCEPT ![t] = number]
          /\ \/ To("match") /\ UNCHANGED <<given, vaultFaults>>
             \/ Faulty /\ To("failed") /\ given' = given \cup {Identity[t]}
       \/ current[t] # 0 /\ To("fatal") /\ UNCHANGED <<current, given, vaultFaults>>
       \/ Faulty /\ (\E e \in ActivationErrors : To(e)) /\ UNCHANGED <<current, given>>
    /\ UNCHANGED <<vaultWorld, vault, arrived, pool, ranked, expired, stage, marked, outside, born, vaultCalls>>

LastOf(S) == IF S = {} THEN 0 ELSE Max(S)
CanonicalAccount(who) ==
    LET s == SelectSeq(ranked, LAMBDA a : pool[a].who = who) IN IF s = <<>> THEN 0 ELSE Last(s)

\* The account a ready record becomes: the one that has its refresh token
\* or, in memory, the newest of the same chatgpt_account_id.
MatchedReady(t) ==
    LET same == {a \in AccountIds : pool[a].kept /\ pool[a].chain = t /\ pool[a].number = 0}
        workspace == {a \in AccountIds : pool[a].kept /\ Workspace[pool[a].chain] = Workspace[t]}
    IN IF same = {} /\ OnMemory THEN LastOf(workspace) ELSE LastOf(same)

\* The account of a refreshed token: the one that has the new token, or the
\* preferred one of its identity.
MatchedToken(t, number) ==
    LET same == {a \in AccountIds : pool[a].kept /\ pool[a].chain = t /\ pool[a].number = number}
    IN IF same # {} THEN LastOf(same) ELSE CanonicalAccount(Identity[t])

\* For a new account Postgres refreshes the token of the request once more.
MatchAccount(p, t) ==
    LET j == job[p][t]
        found == IF j.at = "match_ready" THEN MatchedReady(t) ELSE MatchedToken(t, j.number)
    IN
    /\ j.at \in {"match", "match_ready"}
    /\ job' = [job EXCEPT ![p][t].target = found,
                          ![p][t].at = IF j.at = "match_ready" THEN "write_ready"
                                       ELSE IF found = 0 /\ ~OnMemory THEN "again" ELSE "write"]
    /\ UNCHANGED <<vaultWorld, vault, arrived, pool, ranked, current, expired, stage, given, marked, outside, born,
                   vaultCalls, vaultFaults>>

RefreshAgain(p, t) ==
    /\ job[p][t].at = "again"
    /\ job' = [job EXCEPT ![p][t].at = IF current[t] = 0 THEN "write" ELSE "fatal"]
    /\ UNCHANGED <<vaultWorld, vault, arrived, pool, ranked, current, expired, stage, given, marked, outside, born,
                   vaultCalls, vaultFaults>>

\* An account with its credential.  A session profile keeps what a new
\* one does not say: a ready record knows no identity.
AccountRow(t, number, who) == [kept |-> TRUE, chain |-> t, number |-> number, who |-> who]
KeptIdentity(a) == pool[a].who

ReadyAccount(t, a) == AccountRow(t, 0, KeptIdentity(a))
UpsertedAccountOldToken(t, number) == AccountRow(t, 0, Identity[t])
UpsertedAccount(t, number) == AccountRow(t, number, Identity[t])
NewAccount(t, number) == AccountRow(t, number, Identity[t])

\* A write moves an account to the front of its identity in Postgres, where
\* updated_at counts; in memory created_at does.
Promoted(a) == IF OnMemory /\ a \in ToSet(ranked) THEN ranked ELSE Append(Remove(ranked, a), a)

StoreAccount(p, t, a, row, next) ==
    /\ pool' = [pool EXCEPT ![a] = row] /\ ranked' = Promoted(a)
    /\ born' = Max({born, a})
    /\ outside' = IF ~pool[a].kept /\ p # Activator THEN outside + 1 ELSE outside
    /\ job' = [job EXCEPT ![p][t].at = next]

Abandoned(p, t) == job' = [job EXCEPT ![p][t].at = "failed"] /\ UNCHANGED <<pool, ranked, born, outside>>

\* A matched account that is gone by now is an error in memory; the upsert
\* of Postgres brings it back.
WriteReady(p, t) ==
    LET a == job[p][t].target IN
    /\ job[p][t].at = "write_ready"
    /\ \/ a = 0 /\ born < MaxAccounts /\ StoreAccount(p, t, born + 1, ReadyAccount(t, born + 1), "settle")
       \/ a # 0 /\ OnMemory /\ ~pool[a].kept /\ Abandoned(p, t)
       \/ a # 0 /\ ~(OnMemory /\ ~pool[a].kept) /\ StoreAccount(p, t, a, ReadyAccount(t, a), "settle")
    /\ UNCHANGED <<vaultWorld, vault, arrived, current, expired, stage, given, marked, vaultCalls, vaultFaults>>

\* A credential without its account violates a foreign key in Postgres.
WriteUpserted(p, t) ==
    LET a == job[p][t].target
        n == job[p][t].number
    IN
    /\ job[p][t].at = "write"
    /\ \/ a = 0 /\ born < MaxAccounts /\ StoreAccount(p, t, born + 1, NewAccount(t, n), "dedupe")
       \/ a # 0 /\ ~pool[a].kept /\ Abandoned(p, t)
       \/ a # 0 /\ pool[a].kept /\ StoreAccount(p, t, a, UpsertedAccount(t, n), "dedupe")
    /\ UNCHANGED <<vaultWorld, vault, arrived, current, expired, stage, given, marked, vaultCalls, vaultFaults>>

\* Of the accounts of one identity the preferred one stays.
Duplicates(S) == ToSet(S) \ {Last(S)}

DedupeIdentity(p, t) ==
    LET mine == SelectSeq(ranked, LAMBDA a : pool[a].who = Identity[t])
        doomed == IF mine = <<>> THEN {} ELSE Duplicates(mine)
    IN
    /\ job[p][t].at = "dedupe"
    /\ pool' = [a \in AccountIds |-> IF a \in doomed THEN NoAccountRow ELSE pool[a]]
    /\ ranked' = SelectSeq(ranked, LAMBDA a : a \notin doomed)
    /\ job' = [job EXCEPT ![p][t] = IF p = Activator THEN [@ EXCEPT !.at = "settle"] ELSE NoJob]
    /\ UNCHANGED <<vaultWorld, vault, arrived, current, expired, stage, given, marked, outside, born,
                   vaultCalls, vaultFaults>>

\* The record goes once its account is there, whatever it says by now.
SettleRecord(t) ==
    /\ job[Activator][t].at = "settle"
    /\ DropRecords({t}) /\ job' = [job EXCEPT ![Activator][t] = NoJob]
    /\ UNCHANGED <<vaultWorld, pool, ranked, current, expired, stage, given, outside, born,
                   vaultCalls, vaultFaults>>

\* The record as it is by now gets the status the candidate had.
ActivationFailed(rec, status, why) ==
    LET n == Min({rec.fails + 1, RetryLimit})
        retry == why = "failed" \/ (why = "fatal" /\ n < RetryLimit)
    IN [rec EXCEPT !.fails = n, !.backoff = retry, !.retryable = retry,
                   !.status = IF ~retry THEN "failed" ELSE IF status = "ready" THEN "needs_refresh" ELSE status]

FailCandidate(p, t) ==
    LET j == job[p][t] IN
    /\ j.at \in {"failed", "fatal", "unreadable"}
    /\ vault' = [vault EXCEPT ![t] = IF @.kept /\ p = Activator
                                     THEN ActivationFailed(@, j.rec.status, j.at) ELSE @]
    /\ job' = [job EXCEPT ![p][t] = NoJob]
    /\ marked' = marked \ {t}
    /\ UNCHANGED <<vaultWorld, arrived, pool, ranked, current, expired, stage, given, outside, born,
                   vaultCalls, vaultFaults>>

-----------------------------------------------------------------------------
(* The purge of terminal records, and the clock.                           *)

\* The delay of a terminal record is over, and the loop removes it.
PurgeRecord(t) ==
    /\ vault[t].kept /\ vault[t].status = "failed" /\ ~vault[t].retryable
    /\ DropRecords({t}) /\ given' = given \cup {Identity[t]}
    /\ UNCHANGED <<vaultWorld, pool, ranked, current, expired, job, stage, outside, born,
                   vaultCalls, vaultFaults>>

VaultClock(t) ==
    /\ vault[t].kept
    /\ \/ /\ \/ vault[t].retry = "later" /\ vault' = [vault EXCEPT ![t].retry = "due"]
             \/ vault[t].backoff /\ vault' = [vault EXCEPT ![t].backoff = FALSE]
          /\ UNCHANGED expired
       \/ vault[t].fallback = "good" /\ t \notin expired /\ expired' = expired \cup {t} /\ UNCHANGED vault
    /\ UNCHANGED <<vaultWorld, arrived, pool, ranked, current, job, stage, given, marked, outside, born,
                   vaultCalls, vaultFaults>>

-----------------------------------------------------------------------------

JobStep(p, t) ==
    \/ ReadForProbe(p, t) \/ EndProbeJob(p, t) \/ RefreshAtProvider(p, t) \/ RefreshAgain(p, t)
    \/ MatchAccount(p, t) \/ WriteUpserted(p, t) \/ DedupeIdentity(p, t) \/ FailCandidate(p, t)
LoopStep(t) == \/ JobStep(Activator, t) \/ BeginCandidate(t) \/ ReadAgain(t)
               \/ WriteReady(Activator, t) \/ SettleRecord(t)

VaultNext ==
    \/ \E c \in VaultCallers :
          \/ \E t \in Tokens : \/ QueueToken(c, t) \/ ReprobeRecord(c, t)
                               \/ UpsertToken(c, t) \/ ValidateToken(c, t) \/ JobStep(c, t)
          \/ \E S \in SUBSET Tokens : MarkRecordsFailed(c, S) \/ RestoreRecords(c, S) \/ DeleteRecords(c, S)
          \/ \E a \in AccountIds : DeletePoolAccount(c, a)
    \/ StartReprobes \/ PickCandidates
    \/ \E t \in Tokens : LoopStep(t) \/ VaultClock(t) \/ PurgeRecord(t)

\* The loops tick for ever, calls of the provider time out, the clock runs.
VaultFairness ==
    /\ WF_vaultVars(StartReprobes \/ PickCandidates \/ \E t \in Tokens : LoopStep(t))
    /\ WF_vaultVars(\E c \in VaultCallers, t \in Tokens : JobStep(c, t))
    /\ WF_vaultVars(\E t \in Tokens : VaultClock(t))

VaultSpec == VaultInit /\ [][VaultNext]_vaultVars /\ VaultFairness

-----------------------------------------------------------------------------

Held(t) ==
    \/ vault[t].kept /\ current[t] = 0
    \/ \E a \in AccountIds : pool[a].kept /\ pool[a].chain = t /\ pool[a].number = current[t]
    \/ \E p \in VaultProcs : job[p][t].at \in {"match", "write", "again"} /\ job[p][t].number = current[t]

\* A refresh token that the provider accepts and that was brought into the
\* vault or the pool is not dropped: some record, account or running
\* activation holds it or the token of another import of its identity,
\* unless an operator or the purge gave it up, or the provider's answer was
\* lost.
TokenIsNotDropped ==
    \A t \in Tokens :
        (/\ Identity[t] \notin given
         /\ \/ vault[t].kept
            \/ current[t] # 0
            \/ \E a \in AccountIds : pool[a].kept /\ pool[a].chain = t)
        => \E u \in Tokens : Identity[u] = Identity[t] /\ Held(u)

=============================================================================
