------------------------------- MODULE Tenants -------------------------------
(***************************************************************************)
(* Tenants, their users and their API keys on PostgreSQL                   *)
(* (TenantAuthService: session_core.rs, self_service.rs, admin_ops.rs,     *)
(* api_keys_credits.rs) and the handlers that call it.  Statements outside *)
(* a transaction, and transactions that wait for a row lock, are steps of  *)
(* their own; handlers run side by side.  Codes go out by mail and may be  *)
(* lost.  A password is a model value: hashing tells equal from different. *)
(***************************************************************************)
EXTENDS Integers, Sequences, FiniteSets

CONSTANTS
  Handlers,          \* requests being handled at one time
  Mails,             \* e-mail addresses
  AdminMail,         \* the address of the default tenant's login
  Secrets,           \* passwords
  DefaultSecret,     \* the one given to the default tenant's login
  TenantWorlds,      \* sets of operations that clients call in a run
  MaxTenantCalls,    \* calls in a run
  MaxFailures,       \* login_rate_limit_max_attempts
  NoUser

\* No handler is the mark of a row that nobody holds.
ASSUME TenantAssumption == MaxTenantCalls \in Nat /\ NoUser \notin Handlers /\ AdminMail \in Mails

VARIABLES
  tenantCalls,             \* per handler: operation, step, arguments, what it has read
  asked,             \* the operations of this run
  spentCalls,        \* calls begun
  tenants,           \* tenants in order of creation: [name, status]
  users,             \* tenant_users by e-mail
  mailCodes,         \* tenant_email_verification_codes in order of creation
  codeLocks,         \* the handler holding a code's row, by code
  mailbox,           \* codes that arrived
  usedCodes,         \* history: how often a code has taken effect
  failures,          \* login_attempts within the window, by e-mail
  portalSessions,          \* admin_impersonation_sessions: tenant by session
  tenantKeys,        \* api_keys: [tenant, enabled, group] in order of creation
  group,             \* the key group of this run: "usable" or "deleted"
  audits             \* audit_logs

tnVars == <<tenantCalls, asked, spentCalls, tenants, users, mailCodes, codeLocks, mailbox, usedCodes,
            failures, portalSessions, tenantKeys, group, audits>>
accountVars == <<tenants, users, mailCodes, codeLocks, mailbox, usedCodes>>
accessVars == <<portalSessions, tenantKeys, group>>

IdleCall == [op |-> "none", step |-> "idle", mail |-> AdminMail, secret |-> DefaultSecret,
             code |-> 0, row |-> NoUser, id |-> 0]
Purpose == [verify |-> "email_verify", reset |-> "password_reset",
            register |-> "email_verify", forgot |-> "password_reset"]
CallGoes(p, step) == tenantCalls' = [tenantCalls EXCEPT ![p].step = step]
Ends(p) == tenantCalls' = [tenantCalls EXCEPT ![p] = IdleCall]
At(p, op, step) == tenantCalls[p].op = op /\ tenantCalls[p].step = step

TnInit ==
  /\ asked \in TenantWorlds /\ tenantCalls = [p \in Handlers |-> IdleCall] /\ spentCalls = 0
  /\ tenants = <<>> /\ users = [m \in Mails |-> NoUser]
  /\ mailCodes = <<>> /\ codeLocks = [c \in 1..MaxTenantCalls |-> NoUser]
  /\ mailbox = {} /\ usedCodes = [c \in 1..MaxTenantCalls |-> 0]
  /\ failures = [m \in Mails |-> 0] /\ portalSessions = [s \in {} |-> 0]
  /\ tenantKeys = <<>> /\ group = "usable" /\ audits = <<>>

-----------------------------------------------------------------------------
\* The handlers hand their input on; those of tenants and administrators first
\* ask who is calling.

BeginTenantCall(p, op, call) ==
  /\ tenantCalls[p].step = "idle" /\ op \in asked /\ spentCalls < MaxTenantCalls
  /\ tenantCalls' = [tenantCalls EXCEPT ![p] = [call EXCEPT !.op = op]]
  /\ spentCalls' = spentCalls + 1
  /\ UNCHANGED <<asked, accountVars, failures, accessVars, audits>>

From(step, m, s, c) == [IdleCall EXCEPT !.step = step, !.mail = m, !.secret = s, !.code = c]

TenantRegister(p) == \E m \in Mails, s \in Secrets : BeginTenantCall(p, "register", From("insert", m, s, 0))
TenantVerifyEmail(p) == \E m \in Mails, c \in mailbox \cup {0} : BeginTenantCall(p, "verify", From("find", m, DefaultSecret, c))
TenantForgotPassword(p) == \E m \in Mails : BeginTenantCall(p, "forgot", From("find", m, DefaultSecret, 0))
TenantResetPassword(p) ==
  \E m \in Mails, s \in Secrets, c \in mailbox \cup {0} : BeginTenantCall(p, "reset", From("find", m, s, c))
TenantLogin(p) == \E m \in Mails, s \in Secrets : BeginTenantCall(p, "login", From("limit", m, s, 0))
EnsureDefaultAdminTenant(p) == BeginTenantCall(p, "ensure", From("find", AdminMail, DefaultSecret, 0))
CreateAdminTenant(p) == BeginTenantCall(p, "create_tenant", From("work", AdminMail, DefaultSecret, 0))
PatchAdminTenant(p) == \E t \in DOMAIN tenants : BeginTenantCall(p, "patch_tenant", [From("work", AdminMail, DefaultSecret, 0) EXCEPT !.id = t])
CreateAdminImpersonation(p) == \E t \in DOMAIN tenants : BeginTenantCall(p, "impersonate", [From("work", AdminMail, DefaultSecret, 0) EXCEPT !.id = t])
DeleteAdminImpersonation(p) == \E s \in 1..MaxTenantCalls : BeginTenantCall(p, "revoke", [From("work", AdminMail, DefaultSecret, 0) EXCEPT !.id = s])

\* Calls with a session of an impersonating administrator (code is the session)
\* or, with code 0, with a user's token, which is not looked up.
CreateTenantApiKey(p) == \E s \in 0..MaxTenantCalls, t \in DOMAIN tenants :
  BeginTenantCall(p, "create_key", [From("principal", AdminMail, DefaultSecret, s) EXCEPT !.id = t])
PatchTenantApiKey(p) == \E s \in 0..MaxTenantCalls, t \in DOMAIN tenants :
  BeginTenantCall(p, "patch_key", [From("principal", AdminMail, DefaultSecret, s) EXCEPT !.id = t])
DeleteTenantApiKey(p) == \E s \in 0..MaxTenantCalls, t \in DOMAIN tenants :
  BeginTenantCall(p, "delete_key", [From("principal", AdminMail, DefaultSecret, s) EXCEPT !.id = t])

\* ensure_principal_active: an impersonation session must still be there and
\* be that of the tenant.
EnsurePrincipalActive(p) ==
  LET s == tenantCalls[p].code IN
  /\ tenantCalls[p].step = "principal"
  /\ IF s = 0 \/ (s \in DOMAIN portalSessions /\ portalSessions[s] = tenantCalls[p].id) THEN CallGoes(p, "work") ELSE Ends(p)
  /\ UNCHANGED <<asked, spentCalls, accountVars, failures, accessVars, audits>>

\* write_audit_log_best_effort, after the change; it may fail.
Audit(p) ==
  /\ tenantCalls[p].step = "audit" /\ Ends(p)
  /\ \/ audits' = Append(audits, tenantCalls[p].op)
     \/ UNCHANGED audits
  /\ UNCHANGED <<asked, spentCalls, accountVars, failures, accessVars>>

-----------------------------------------------------------------------------
\* Registration and codes.

InsertCode(m, purpose) ==
  mailCodes' = Append(mailCodes, [mail |-> m, purpose |-> purpose, consumed |-> FALSE, expired |-> FALSE])

\* One transaction; an address that is taken fails the unique index.
Register(p) ==
  LET c == tenantCalls[p] IN
  /\ At(p, "register", "insert")
  /\ IF users[c.mail] # NoUser
       THEN Ends(p) /\ UNCHANGED <<tenants, users, mailCodes>>
       ELSE /\ tenants' = Append(tenants, [name |-> "tenant", status |-> "active"])
            /\ users' = [users EXCEPT ![c.mail] = [tenant |-> Len(tenants) + 1, secret |-> c.secret,
                                                   verified |-> FALSE, enabled |-> TRUE]]
            /\ InsertCode(c.mail, Purpose["register"])
            /\ tenantCalls' = [tenantCalls EXCEPT ![p].step = "dispatch", ![p].code = Len(mailCodes) + 1]
  /\ UNCHANGED <<asked, spentCalls, codeLocks, mailbox, usedCodes, failures, accessVars, audits>>

ForgotPassword(p) ==
  LET c == tenantCalls[p] IN
  /\ At(p, "forgot", "find")
  /\ IF users[c.mail] = NoUser \/ ~users[c.mail].enabled THEN Ends(p) ELSE CallGoes(p, "insert")
  /\ UNCHANGED <<asked, spentCalls, accountVars, failures, accessVars, audits>>

ForgotPasswordInsert(p) ==
  /\ At(p, "forgot", "insert")
  /\ InsertCode(tenantCalls[p].mail, Purpose["forgot"])
  /\ tenantCalls' = [tenantCalls EXCEPT ![p].step = "dispatch", ![p].code = Len(mailCodes) + 1]
  /\ UNCHANGED <<asked, spentCalls, tenants, users, codeLocks, mailbox, usedCodes, failures, accessVars, audits>>

\* dispatch_email_code: a failure is logged and nothing else.
DispatchEmailCode(p) ==
  /\ tenantCalls[p].step = "dispatch" /\ Ends(p)
  /\ \/ mailbox' = mailbox \cup {tenantCalls[p].code}
     \/ UNCHANGED mailbox
  /\ UNCHANGED <<asked, spentCalls, tenants, users, mailCodes, codeLocks, usedCodes, failures, accessVars, audits>>

\* verify_email and reset_password find the user, choose the newest code of the
\* purpose, wait for its row and look at it as it is then.
FindUser(p) ==
  LET c == tenantCalls[p] IN
  /\ c.op \in {"verify", "reset"} /\ c.step = "find"
  /\ IF users[c.mail] = NoUser \/ (c.op = "reset" /\ ~users[c.mail].enabled) THEN Ends(p) ELSE CallGoes(p, "select")
  /\ UNCHANGED <<asked, spentCalls, accountVars, failures, accessVars, audits>>

CodesFor(m, purpose) == {k \in DOMAIN mailCodes : mailCodes[k].mail = m /\ mailCodes[k].purpose = purpose}

SelectCode(p) ==
  LET c == tenantCalls[p]
      mine == CodesFor(c.mail, Purpose[c.op])
  IN  /\ c.op \in {"verify", "reset"} /\ c.step = "select"
      /\ IF mine = {} THEN Ends(p)
         ELSE tenantCalls' = [tenantCalls EXCEPT ![p].step = "lock",
                                     ![p].id = CHOOSE k \in mine : \A j \in mine : j <= k]
      /\ UNCHANGED <<asked, spentCalls, accountVars, failures, accessVars, audits>>

\* consume_code_inner.  A wrong code ends the transaction with an error, and
\* with it the count of its attempts.
RowIsFreeAlways(p, k) == TRUE
RowIsFree(p, k) == codeLocks[k] = NoUser

ConsumeCode(p) ==
  LET c == tenantCalls[p]
      k == c.id
  IN  /\ c.op \in {"verify", "reset"} /\ c.step = "lock" /\ RowIsFree(p, k)
      /\ IF mailCodes[k].consumed \/ mailCodes[k].expired \/ c.code # k
           THEN Ends(p) /\ UNCHANGED codeLocks
           ELSE CallGoes(p, "commit") /\ codeLocks' = [codeLocks EXCEPT ![k] = p]
      /\ UNCHANGED <<asked, spentCalls, tenants, users, mailCodes, mailbox, usedCodes, failures, accessVars, audits>>

TakeEffect(c, row) ==
  IF c.op = "verify" THEN [row EXCEPT !.verified = TRUE] ELSE [row EXCEPT !.secret = c.secret]

\* The rest of the transaction and its commit.
VerifyOrReset(p) ==
  LET c == tenantCalls[p] IN
  /\ c.op \in {"verify", "reset"} /\ c.step = "commit"
  /\ users' = [users EXCEPT ![c.mail] = TakeEffect(c, @)]
  /\ mailCodes' = [mailCodes EXCEPT ![c.id].consumed = TRUE]
  /\ usedCodes' = [usedCodes EXCEPT ![c.id] = @ + 1]
  /\ codeLocks' = [codeLocks EXCEPT ![c.id] = NoUser]
  /\ Ends(p)
  /\ UNCHANGED <<asked, spentCalls, tenants, mailbox, failures, accessVars, audits>>

CodeExpires ==
  /\ \E k \in DOMAIN mailCodes : ~mailCodes[k].expired /\ mailCodes' = [mailCodes EXCEPT ![k].expired = TRUE]
  /\ UNCHANGED <<tenantCalls, asked, spentCalls, tenants, users, codeLocks, mailbox, usedCodes, failures, accessVars, audits>>

-----------------------------------------------------------------------------
\* Login.  The limit is looked at first and a failure counted last, each under
\* the mutex; between them the row is read and the password compared.

IsRateLimited(m) == failures[m] >= MaxFailures

CheckLimit(p) ==
  /\ At(p, "login", "limit")
  /\ IF IsRateLimited(tenantCalls[p].mail) THEN Ends(p) ELSE CallGoes(p, "compare")
  /\ UNCHANGED <<asked, spentCalls, accountVars, failures, accessVars, audits>>

Login(p) ==
  LET c == tenantCalls[p]
      u == users[c.mail]
      ok == u # NoUser /\ u.enabled /\ u.verified /\ u.secret = c.secret
  IN  /\ At(p, "login", "compare")
      /\ CallGoes(p, IF ok THEN "clear" ELSE "record")
      /\ UNCHANGED <<asked, spentCalls, accountVars, failures, accessVars, audits>>

RecordLoginFailure(p) ==
  /\ At(p, "login", "record") /\ Ends(p)
  /\ failures' = [failures EXCEPT ![tenantCalls[p].mail] = @ + 1]
  /\ UNCHANGED <<asked, spentCalls, accountVars, accessVars, audits>>

ClearLoginFailures(p) ==
  /\ At(p, "login", "clear") /\ Ends(p)
  /\ failures' = [failures EXCEPT ![tenantCalls[p].mail] = 0]
  /\ UNCHANGED <<asked, spentCalls, accountVars, accessVars, audits>>

FailureAges ==
  /\ \E m \in Mails : failures[m] > 0 /\ failures' = [failures EXCEPT ![m] = @ - 1]
  /\ UNCHANGED <<tenantCalls, asked, spentCalls, accountVars, accessVars, audits>>

-----------------------------------------------------------------------------
\* The tenants of administrators.

AdminTenants == {t \in DOMAIN tenants : tenants[t].name = "admin"}
AddTenant(name) == tenants' = Append(tenants, [name |-> name, status |-> "active"])

AdminCreateTenant(p) ==
  /\ At(p, "create_tenant", "work") /\ CallGoes(p, "audit") /\ AddTenant("tenant")
  /\ UNCHANGED <<asked, spentCalls, users, mailCodes, codeLocks, mailbox, usedCodes, failures, accessVars, audits>>

AdminPatchTenant(p) ==
  /\ At(p, "patch_tenant", "work") /\ CallGoes(p, "audit")
  /\ \E s \in {"active", "disabled"} : tenants' = [tenants EXCEPT ![tenantCalls[p].id].status = s]
  /\ UNCHANGED <<asked, spentCalls, users, mailCodes, codeLocks, mailbox, usedCodes, failures, accessVars, audits>>

\* admin_ensure_default_tenant: look for the oldest tenant of that name, create
\* it if there is none, then see to its login.
EnsureDefaultTenant(p) ==
  /\ At(p, "ensure", "find")
  /\ tenantCalls' = IF AdminTenants = {} THEN [tenantCalls EXCEPT ![p].step = "create"]
              ELSE [tenantCalls EXCEPT ![p].step = "seek", ![p].id = CHOOSE t \in AdminTenants : \A u \in AdminTenants : t <= u]
  /\ UNCHANGED <<asked, spentCalls, accountVars, failures, accessVars, audits>>

EnsureDefaultTenantCreates(p) ==
  /\ At(p, "ensure", "create") /\ AddTenant("admin")
  /\ tenantCalls' = [tenantCalls EXCEPT ![p].step = "seek", ![p].id = Len(tenants) + 1]
  /\ UNCHANGED <<asked, spentCalls, users, mailCodes, codeLocks, mailbox, usedCodes, failures, accessVars, audits>>

\* ensure_default_admin_tenant_login reads the user of the address, then
\* updates it or inserts one.  The address of another tenant is an error.
SeekDefaultLogin(p) ==
  /\ At(p, "ensure", "seek")
  /\ IF users[AdminMail] # NoUser /\ users[AdminMail].tenant # tenantCalls[p].id THEN Ends(p)
     ELSE tenantCalls' = [tenantCalls EXCEPT ![p].step = "put", ![p].row = users[AdminMail]]
  /\ UNCHANGED <<asked, spentCalls, accountVars, failures, accessVars, audits>>

PutDefaultLogin(p) ==
  LET c == tenantCalls[p] IN
  /\ At(p, "ensure", "put")
  /\ IF c.row = NoUser /\ users[AdminMail] # NoUser   \* the unique index
       THEN Ends(p) /\ UNCHANGED users
       ELSE /\ users' = [users EXCEPT ![AdminMail] = [tenant |-> c.id, secret |-> DefaultSecret,
                                                     verified |-> TRUE, enabled |-> TRUE]]
            /\ CallGoes(p, "audit")
  /\ UNCHANGED <<asked, spentCalls, tenants, mailCodes, codeLocks, mailbox, usedCodes, failures, accessVars, audits>>

AdminImpersonate(p) ==
  /\ At(p, "impersonate", "work") /\ CallGoes(p, "audit")
  /\ portalSessions' = [s \in DOMAIN portalSessions \cup {spentCalls} |->
                   IF s \in DOMAIN portalSessions THEN portalSessions[s] ELSE tenantCalls[p].id]
  /\ UNCHANGED <<asked, spentCalls, accountVars, failures, tenantKeys, group, audits>>

AdminRevokeImpersonation(p) ==
  LET s == tenantCalls[p].id IN
  /\ At(p, "revoke", "work")
  /\ portalSessions' = [x \in DOMAIN portalSessions \ {s} |-> portalSessions[x]]
  /\ IF s \in DOMAIN portalSessions THEN CallGoes(p, "audit") ELSE Ends(p)
  /\ UNCHANGED <<asked, spentCalls, accountVars, failures, tenantKeys, group, audits>>

-----------------------------------------------------------------------------
\* API keys.  The group is looked at before the key is written.

CheckGroup(p) ==
  /\ tenantCalls[p].op \in {"create_key", "patch_key"} /\ tenantCalls[p].step = "work"
  /\ \/ group = "usable" /\ CallGoes(p, "write")
     \/ group = "deleted" /\ Ends(p)
     \/ tenantCalls[p].op = "patch_key" /\ CallGoes(p, "write")   \* the group is not changed
  /\ UNCHANGED <<asked, spentCalls, accountVars, failures, accessVars, audits>>

InsertApiKey(p) ==
  /\ At(p, "create_key", "write") /\ CallGoes(p, "audit")
  /\ tenantKeys' = Append(tenantKeys, [tenant |-> tenantCalls[p].id, enabled |-> TRUE, gone |-> FALSE])
  /\ UNCHANGED <<asked, spentCalls, accountVars, failures, portalSessions, group, audits>>

KeysOf(t) == {k \in DOMAIN tenantKeys : tenantKeys[k].tenant = t /\ ~tenantKeys[k].gone}

PatchApiKey(p) ==
  /\ At(p, "patch_key", "write")
  /\ \/ \E k \in KeysOf(tenantCalls[p].id) :
          /\ tenantKeys' = [tenantKeys EXCEPT ![k].enabled = ~@]
          /\ CallGoes(p, "audit")
     \/ UNCHANGED tenantKeys /\ Ends(p)     \* no such key
  /\ UNCHANGED <<asked, spentCalls, accountVars, failures, portalSessions, group, audits>>

DeleteApiKey(p) ==
  /\ At(p, "delete_key", "work")
  /\ \/ \E k \in KeysOf(tenantCalls[p].id) :
          /\ tenantKeys' = [tenantKeys EXCEPT ![k].gone = TRUE]
          /\ CallGoes(p, "audit")
     \/ UNCHANGED tenantKeys /\ Ends(p)
  /\ UNCHANGED <<asked, spentCalls, accountVars, failures, portalSessions, group, audits>>

GroupIsDeleted ==
  /\ group = "usable" /\ "create_key" \in asked /\ group' = "deleted"
  /\ UNCHANGED <<tenantCalls, asked, spentCalls, accountVars, failures, portalSessions, tenantKeys, audits>>

-----------------------------------------------------------------------------

HandlerStarts(p) ==
  \/ TenantRegister(p) \/ TenantVerifyEmail(p) \/ TenantForgotPassword(p) \/ TenantResetPassword(p)
  \/ TenantLogin(p) \/ EnsureDefaultAdminTenant(p) \/ CreateAdminTenant(p) \/ PatchAdminTenant(p)
  \/ CreateAdminImpersonation(p) \/ DeleteAdminImpersonation(p)
  \/ CreateTenantApiKey(p) \/ PatchTenantApiKey(p) \/ DeleteTenantApiKey(p)

HandlerStep(p) ==
  \/ Register(p) \/ ForgotPassword(p) \/ ForgotPasswordInsert(p) \/ DispatchEmailCode(p)
  \/ FindUser(p) \/ SelectCode(p) \/ ConsumeCode(p) \/ VerifyOrReset(p)
  \/ CheckLimit(p) \/ Login(p) \/ RecordLoginFailure(p) \/ ClearLoginFailures(p)
  \/ AdminCreateTenant(p) \/ AdminPatchTenant(p) \/ EnsureDefaultTenant(p) \/ EnsureDefaultTenantCreates(p)
  \/ SeekDefaultLogin(p) \/ PutDefaultLogin(p) \/ AdminImpersonate(p) \/ AdminRevokeImpersonation(p)
  \/ EnsurePrincipalActive(p) \/ CheckGroup(p) \/ InsertApiKey(p) \/ PatchApiKey(p) \/ DeleteApiKey(p)
  \/ Audit(p)

TnNext == (\E p \in Handlers : HandlerStarts(p) \/ HandlerStep(p)) \/ CodeExpires \/ FailureAges \/ GroupIsDeleted

TnSpec == TnInit /\ [][TnNext]_tnVars

-----------------------------------------------------------------------------
\* Properties.

\* A code sent by mail takes effect once: a second verification or reset with
\* it that runs at the same time waits for the code's row and then finds it
\* consumed.
CodeIsSpentOnce == \A c \in DOMAIN usedCodes : usedCodes[c] <= 1

================================================================================
