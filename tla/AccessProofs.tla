---------------------------- MODULE AccessProofs -----------------------------
(***************************************************************************)
(* What is proved of how people get in: a verification code is spent once  *)
(* (Tenants), and the sweep drops no login under way (OAuthLogin).         *)
(***************************************************************************)
EXTENDS Tenants, OAuthLogin, WellFoundedInduction, TLAPS

-----------------------------------------------------------------------------
\* OAuthLogin: the sweeps of the session table, for any number of sessions and servers.

SessionRow == [status : Pending \cup {"expired", "failed", "completed"},
               age : {"fresh", "due", "stale"}, callback : CallbackServers \cup {"listener"}]

\* What the sweep relies on: every row of the table is one.
RowsAreSessions(table) == \A s \in DOMAIN table : table[s] \in SessionRow

\* The sweep of table t leaves u: a row it drops was settled and is stale.
Swept(t, u) ==
  \A s \in DOMAIN t \ DOMAIN u : t[s].status \notin Pending /\ t[s].age = "stale"

LEMMA MarkExpiredRow ==
  ASSUME NEW s \in SessionRow
  PROVE  /\ MarkExpired(s) \in SessionRow
         /\ MarkExpired(s).age = "stale" => s.age = "stale" /\ s.status \notin Pending
<1>1. CASE s.age # "fresh" /\ s.status \in Pending
  BY <1>1, ZenonT(40) DEF MarkExpired, SessionRow, Updated
<1>2. CASE ~(s.age # "fresh" /\ s.status \in Pending)
  BY <1>2 DEF MarkExpired, SessionRow
<1> QED BY <1>1, <1>2

LEMMA CleanupSweeps ==
  ASSUME NEW t, RowsAreSessions(t)
  PROVE  RowsAreSessions(CleanupSessions(t)) /\ Swept(t, CleanupSessions(t))
<1> DEFINE marked == [s \in DOMAIN t |-> MarkExpired(t[s])]
           kept == {s \in DOMAIN t : marked[s].age # "stale"}
<1>1. CleanupSessions(t) = [s \in kept |-> marked[s]]
  BY DEF CleanupSessions
<1>2. \A s \in DOMAIN t : /\ marked[s] \in SessionRow
                          /\ marked[s].age = "stale" => t[s].age = "stale" /\ t[s].status \notin Pending
  BY MarkExpiredRow DEF RowsAreSessions
<1> HIDE DEF marked
<1> QED BY <1>1, <1>2 DEF RowsAreSessions, Swept

\* An update follows the sweep and drops nothing.
LEMMA UpdateSweeps ==
  ASSUME RowsAreSessions(login), NEW s, NEW status \in Pending \cup {"expired", "failed", "completed"}
  PROVE  RowsAreSessions(UpdateSession(s, status)) /\ Swept(login, UpdateSession(s, status))
<1> DEFINE table == CleanupSessions(login)
<1>1. RowsAreSessions(table) /\ Swept(login, table)
  BY CleanupSweeps
<1> HIDE DEF table
<1>2. CASE s \in DOMAIN table
  <2>1. UpdateSession(s, status) = [table EXCEPT ![s].status = status, ![s].age = Updated(@)]
    BY <1>2 DEF UpdateSession, table
  <2>2. table[s] \in SessionRow
    BY <1>1, <1>2 DEF RowsAreSessions
  <2>3. [table[s] EXCEPT !.status = status, !.age = Updated(table[s].age)] \in SessionRow
    BY <2>2, ZenonT(40) DEF SessionRow, Updated
  <2>4. UpdateSession(s, status) =
          [x \in DOMAIN table |-> IF x = s THEN [table[s] EXCEPT !.status = status, !.age = Updated(table[s].age)]
                                  ELSE table[x]]
    BY <2>1, <2>2, ZenonT(40) DEF SessionRow
  <2> QED BY <1>1, <2>3, <2>4 DEF RowsAreSessions, Swept
<1>3. CASE s \notin DOMAIN table
  BY <1>1, <1>3 DEF UpdateSession, table
<1> QED BY <1>2, <1>3

\* What every step does to the table.
Tidy == RowsAreSessions(login') /\ Swept(login, login')

LEMMA SweepIsTidy ==
  ASSUME RowsAreSessions(login), login' = login \/ login' = CleanupSessions(login)
  PROVE  Tidy
  BY CleanupSweeps DEF Tidy, Swept

LEMMA UpdateIsTidy ==
  ASSUME RowsAreSessions(login), NEW s, NEW status \in Pending \cup {"expired", "failed", "completed"},
         login' = UpdateSession(s, status)
  PROVE  Tidy
  BY UpdateSweeps DEF Tidy

LEMMA CreateSessionIsTidy ==
  ASSUME RowsAreSessions(login), NEW s, NEW env \in Environments, NEW h \in RequestHosts,
         CreateSession(s, env, h)
  PROVE  Tidy
<1> DEFINE table == CleanupSessions(login)
           row == [status |-> "waiting_callback", age |-> "fresh", callback |-> ResolveRedirectUrl(env, h)]
<1>1. RowsAreSessions(table) /\ Swept(login, table)
  BY CleanupSweeps
<1>2. ResolveRedirectUrl(env, h) \in CallbackServers \cup {"listener"}
  BY DEF ResolveRedirectUrl, DeriveRequestCallback, Environments, RequestHosts
<1>3. row \in SessionRow
  BY <1>2 DEF SessionRow, Pending
<1>4. login' = [x \in DOMAIN table \cup {s} |-> IF x = s THEN row ELSE table[x]]
  BY DEF CreateSession
<1> HIDE DEF table, row
<1> QED BY <1>1, <1>3, <1>4 DEF RowsAreSessions, Swept, Tidy

LEMMA AgeSessionIsTidy ==
  ASSUME RowsAreSessions(login), NEW s, AgeSession(s)
  PROVE  Tidy
<1>1. s \in DOMAIN login /\ login[s] \in SessionRow
  BY DEF AgeSession, RowsAreSessions
<1>2. PICK age \in {"due", "stale"} : login' = [login EXCEPT ![s].age = age]
  BY ZenonT(40) DEF AgeSession
<1>3. [login[s] EXCEPT !.age = age] \in SessionRow
  BY <1>1 DEF SessionRow
<1>4. login' = [x \in DOMAIN login |-> IF x = s THEN [login[s] EXCEPT !.age = age] ELSE login[x]]
  BY <1>2, ZenonT(40)
<1> QED BY <1>3, <1>4 DEF RowsAreSessions, Swept, Tidy

LEMMA EnterFlowIsTidy ==
  ASSUME RowsAreSessions(login), NEW f, NEW s, NEW via, NEW cb, EnterFlow(f, s, via, cb)
  PROVE  Tidy
<1>1. \/ login' = CleanupSessions(login)
      \/ login' = UpdateSession(s, "failed") \/ login' = UpdateSession(s, "exchanging")
  BY DEF EnterFlow
<1> QED BY <1>1, SweepIsTidy, UpdateIsTidy DEF Pending

LEMMA FlowStepIsTidy ==
  ASSUME RowsAreSessions(login), NEW f, FlowStep(f)
  PROVE  Tidy
<1>1. CASE \/ ExchangeWithoutRefreshToken(f) \/ ImportAccount(f) \/ CheckIdle(f)
           \/ TakeListener(f) \/ JoinListener(f)
  <2>1. login' = login \/ login' = CleanupSessions(login)
    BY <1>1 DEF ExchangeWithoutRefreshToken, ImportAccount, CheckIdle, TakeListener, JoinListener
  <2> QED BY <2>1, SweepIsTidy
<1>2. CASE ExchangeFails(f) \/ ImportFails(f) \/ RecordCompleted(f)
  <2>1. PICK status \in {"failed", "completed"} : login' = UpdateSession(flow[f].session, status)
    BY <1>2 DEF ExchangeFails, ImportFails, RecordCompleted, RecordOutcome
  <2> QED BY <2>1, UpdateIsTidy
<1>3. CASE ExchangeSucceeds(f)
  <2>1. login' = UpdateSession(flow[f].session, "importing")
    BY <1>3 DEF ExchangeSucceeds, UpdateSession
  <2> QED BY <2>1, UpdateIsTidy DEF Pending
<1> QED BY <1>1, <1>2, <1>3 DEF FlowStep

LEMMA LoginStepIsTidy == RowsAreSessions(login) /\ [LoginNext]_loginVars => Tidy
<1> SUFFICES ASSUME RowsAreSessions(login), [LoginNext]_loginVars PROVE Tidy OBVIOUS
<1>1. CASE UNCHANGED loginVars
  BY <1>1, SweepIsTidy DEF loginVars
<1>2. ASSUME NEW s, StartListener(s) \/ BindListener(s) \/ BindFails(s) PROVE Tidy
  BY <1>2, SweepIsTidy DEF StartListener, BindListener, BindFails
<1>3. ASSUME NEW f, HangUp(f) PROVE Tidy
  BY <1>3, SweepIsTidy DEF HangUp
<1>4. CASE GetSession
  BY <1>4, SweepIsTidy DEF GetSession
<1>5. ASSUME NEW f, NEW s, NEW cb, HandleCallback(f, s, cb) \/ SubmitCallback(f, s, cb) PROVE Tidy
  BY <1>5, EnterFlowIsTidy DEF HandleCallback, SubmitCallback
<1> QED BY <1>1, <1>2, <1>3, <1>4, <1>5, CreateSessionIsTidy, AgeSessionIsTidy, FlowStepIsTidy
        DEF LoginNext, OpeningStep

\* For any sessions and callback flows: a login session that is dropped was settled
\* and stayed readable for the retention time.
THEOREM PendingSessionsStay == LoginSpec => NoPendingSessionIsDropped
<1>1. LoginInit => RowsAreSessions(login)
  BY DEF LoginInit, RowsAreSessions
<1>2. RowsAreSessions(login) /\ [LoginNext]_loginVars => RowsAreSessions(login)'
  BY LoginStepIsTidy DEF Tidy, RowsAreSessions
<1>3. RowsAreSessions(login) /\ [LoginNext]_loginVars =>
        [\A s \in DOMAIN login \ DOMAIN login' :
           login[s].status \notin Pending /\ login[s].age = "stale"]_loginVars
  BY LoginStepIsTidy DEF Tidy, Swept
<1> QED BY <1>1, <1>2, <1>3, PTL DEF LoginSpec, NoPendingSessionIsDropped

-----------------------------------------------------------------------------
\* Tenants: verification codes, for any number of handlers, users and codes.

\* The oldest of some rows, and the newest of finitely many.
LEMMA OldestExists ==
  ASSUME NEW S \in SUBSET Nat, S # {}
  PROVE  \E x \in S : \A y \in S : x <= y
<1> DEFINE less == OpToRel(<, Nat)
<1>1. PICK x \in S : \A y \in S : ~(<<y, x>> \in less)
  BY WFMin, NatLessThanWellFounded, ZenonT(40)
<1>2. less = {ss \in Nat \X Nat : ss[1] < ss[2]}
  BY DEF OpToRel
<1> HIDE DEF less
<1>3. ASSUME NEW y \in S PROVE x <= y
  <2>1. x \in Nat /\ y \in Nat /\ ~(<<y, x>> \in less)
    BY <1>1
  <2>2. ~(y < x)
    BY <1>2, <2>1
  <2> QED BY <2>1, <2>2
<1> QED BY <1>3

LEMMA NewestExists ==
  ASSUME NEW n \in Nat, NEW S \in SUBSET (1..n), S # {}
  PROVE  \E x \in S : \A y \in S : y <= x
<1> DEFINE T == {m \in Nat : \E x \in S : m = n - x}
<1>1. \A x \in S : n - x \in T
  OBVIOUS
<1>2. T \in SUBSET Nat /\ T # {}
  BY <1>1, ZenonT(40)
<1>3. PICK m \in T : \A k \in T : m <= k
  BY <1>2, OldestExists, ZenonT(40)
<1>4. PICK x \in S : m = n - x
  BY <1>3
<1>5. ASSUME NEW y \in S PROVE y <= x
  <2>1. n - x <= n - y
    BY <1>1, <1>3, <1>4
  <2>2. x \in 1..n /\ y \in 1..n
    OBVIOUS
  <2> QED BY <2>1, <2>2
<1> QED BY <1>5

Passwords == Secrets \cup {DefaultSecret}
UserRow == [tenant : Nat, secret : Passwords, verified : BOOLEAN, enabled : BOOLEAN]
Operations == {"none", "register", "verify", "forgot", "reset", "login", "ensure", "create_tenant",
               "patch_tenant", "impersonate", "revoke", "create_key", "patch_key", "delete_key"}
CallSteps == {"idle", "insert", "find", "limit", "work", "principal", "dispatch", "select", "lock",
              "commit", "compare", "clear", "record", "create", "seek", "put", "audit", "write"}
TenantCall == [op : Operations, step : CallSteps, mail : Mails, secret : Passwords,
               code : Nat, row : UserRow \cup {NoUser}, id : Nat]
MailCode == [mail : Mails, purpose : {"email_verify", "password_reset"},
             consumed : BOOLEAN, expired : BOOLEAN]

CodeTypes ==
  /\ tenantCalls \in [Handlers -> TenantCall]
  /\ users \in [Mails -> UserRow \cup {NoUser}]
  /\ tenants \in Seq([name : {"tenant", "admin"}, status : {"active", "disabled"}])
  /\ mailCodes \in Seq(MailCode)
  /\ codeLocks \in [1..MaxTenantCalls -> Handlers \cup {NoUser}]
  /\ usedCodes \in [1..MaxTenantCalls -> Nat]
  /\ mailbox \subseteq Nat

\* A handler at a step of consume_code_inner.
Consuming(p, steps) == tenantCalls[p].op \in {"verify", "reset"} /\ tenantCalls[p].step \in steps

\* The handler about to commit holds the row of its code, which it found unspent.
CommitHoldsRow ==
  \A p \in Handlers : 
    /\ Consuming(p, {"select", "lock", "commit"}) => users[tenantCalls[p].mail] \in UserRow
    /\ Consuming(p, {"lock", "commit"}) => tenantCalls[p].id \in DOMAIN mailCodes
    /\ Consuming(p, {"commit"}) /\ tenantCalls[p].id \in 1..MaxTenantCalls =>
         codeLocks[tenantCalls[p].id] = p /\ ~mailCodes[tenantCalls[p].id].consumed

\* A code that took effect is marked in its row.
SpentIsConsumed ==
  \A k \in 1..MaxTenantCalls :
    usedCodes[k] = 0 \/ (usedCodes[k] = 1 /\ k \in DOMAIN mailCodes /\ mailCodes[k].consumed)

CodeInv == CodeTypes /\ CommitHoldsRow /\ SpentIsConsumed

\* Steps that take no row and no user away.
RowsKept ==
  /\ UNCHANGED <<codeLocks, usedCodes>>
  /\ \A m \in Mails : users[m] \in UserRow => users'[m] \in UserRow
  /\ \A k \in DOMAIN mailCodes : k \in DOMAIN mailCodes' /\ mailCodes'[k].consumed = mailCodes[k].consumed

\* A step of one handler that takes no row and no user away, and ends outside of
\* consume_code_inner, keeps the invariant.
LEMMA RowsKeptInv ==
  ASSUME CodeInv, CodeTypes', RowsKept, NEW p \in Handlers,
         \A q \in Handlers \ {p} : tenantCalls'[q] = tenantCalls[q],
         tenantCalls'[p].step \notin {"select", "lock", "commit"} \/ tenantCalls'[p] = tenantCalls[p]
  PROVE  CodeInv'
<1>1. CommitHoldsRow'
  <2> SUFFICES ASSUME NEW q \in Handlers, tenantCalls'[q].step \in {"select", "lock", "commit"}
               PROVE  CommitHoldsRow!(q)'
    BY DEF CommitHoldsRow, Consuming
  <2>1. tenantCalls'[q] = tenantCalls[q] /\ tenantCalls[q].mail \in Mails
    BY DEF CodeInv, CodeTypes, TenantCall
  <2> QED BY <2>1 DEF CodeInv, RowsKept, CommitHoldsRow, Consuming
<1>2. SpentIsConsumed'
  BY DEF CodeInv, RowsKept, SpentIsConsumed
<1> QED BY <1>1, <1>2 DEF CodeInv

\* The same, when only the handler's record changes.
LEMMA CallInv ==
  ASSUME CodeInv, NEW p \in Handlers, NEW c \in TenantCall,
         c.step \notin {"select", "lock", "commit"},
         tenantCalls' = [tenantCalls EXCEPT ![p] = c], UNCHANGED accountVars
  PROVE  CodeInv'
<1>1. CodeTypes' /\ RowsKept
  BY DEF CodeInv, CodeTypes, accountVars, RowsKept
<1>2. tenantCalls'[p] = c /\ \A q \in Handlers \ {p} : tenantCalls'[q] = tenantCalls[q]
  BY DEF CodeInv, CodeTypes
<1> QED BY <1>1, <1>2, RowsKeptInv

LEMMA IdleIsCall == IdleCall \in TenantCall /\ IdleCall.step = "idle" /\ IdleCall.op = "none"
<1>1. IdleCall \in [op : Operations, step : CallSteps, mail : Mails, secret : Passwords,
                    code : Nat, row : {NoUser}, id : Nat]
  BY TenantAssumption DEF IdleCall, Passwords, Operations, CallSteps
<1> QED BY <1>1 DEF IdleCall, TenantCall

LEMMA EndsInv ==
  ASSUME CodeInv, NEW p \in Handlers, Ends(p)
  PROVE  /\ tenantCalls' \in [Handlers -> TenantCall]
         /\ tenantCalls'[p].step = "idle" /\ tenantCalls'[p].op = "none"
         /\ \A q \in Handlers \ {p} : tenantCalls'[q] = tenantCalls[q]
  BY IdleIsCall DEF CodeInv, CodeTypes, Ends

LEMMA GoesInv ==
  ASSUME CodeInv, NEW p \in Handlers, NEW step \in CallSteps, CallGoes(p, step)
  PROVE  /\ tenantCalls' \in [Handlers -> TenantCall]
         /\ tenantCalls'[p] = [tenantCalls[p] EXCEPT !.step = step]
         /\ tenantCalls'[p].step = step
         /\ \A q \in Handlers \ {p} : tenantCalls'[q] = tenantCalls[q]
  BY ZenonT(40) DEF CodeInv, CodeTypes, CallGoes, TenantCall

LEMMA CodeInit == TnInit => CodeInv
<1> SUFFICES ASSUME TnInit PROVE CodeInv OBVIOUS
<1> USE TenantAssumption DEF TnInit
<1>1. CodeTypes
  BY IdleIsCall DEF CodeTypes
<1>2. CommitHoldsRow
  BY DEF CommitHoldsRow, Consuming, IdleCall
<1>3. SpentIsConsumed
  BY DEF SpentIsConsumed
<1> QED BY <1>1, <1>2, <1>3 DEF CodeInv

\* The call a handler begins with.
LEMMA FromIsCall ==
  ASSUME NEW step \in CallSteps, NEW m \in Mails, NEW s \in Passwords, NEW c \in Nat
  PROVE  /\ From(step, m, s, c) \in TenantCall /\ From(step, m, s, c).step = step
         /\ \A t \in Nat : /\ [From(step, m, s, c) EXCEPT !.id = t] \in TenantCall
                           /\ [From(step, m, s, c) EXCEPT !.id = t].step = step
<1>1. From(step, m, s, c) \in TenantCall /\ From(step, m, s, c).step = step
  BY IdleIsCall, ZenonT(40) DEF From, TenantCall
<1>2. ASSUME NEW t \in Nat
      PROVE  /\ [From(step, m, s, c) EXCEPT !.id = t] \in TenantCall
             /\ [From(step, m, s, c) EXCEPT !.id = t].step = step
  BY <1>1 DEF TenantCall
<1> QED BY <1>1, <1>2

LEMMA BeginInv ==
  ASSUME CodeInv, NEW p \in Handlers, NEW op \in Operations, NEW c \in TenantCall,
         c.step \notin {"select", "lock", "commit"}, BeginTenantCall(p, op, c)
  PROVE  CodeInv'
<1>1. [c EXCEPT !.op = op] \in TenantCall /\ [c EXCEPT !.op = op].step = c.step
  BY DEF TenantCall
<1> QED BY <1>1, CallInv, ZenonT(40) DEF BeginTenantCall

LEMMA StartsInv ==
  ASSUME CodeInv, NEW p \in Handlers, HandlerStarts(p)
  PROVE  CodeInv'
<1>0. /\ AdminMail \in Mails /\ DefaultSecret \in Passwords /\ Secrets \subseteq Passwords
      /\ mailbox \cup {0} \subseteq Nat /\ DOMAIN tenants \subseteq Nat
      /\ 0..MaxTenantCalls \subseteq Nat /\ 1..MaxTenantCalls \subseteq Nat
  BY TenantAssumption DEF CodeInv, CodeTypes, Passwords
<1>1. CASE TenantRegister(p)
  <2>1. PICK m \in Mails, s \in Secrets :
          BeginTenantCall(p, "register", From("insert", m, s, 0))
    BY <1>1 DEF TenantRegister
  <2>2. From("insert", m, s, 0) \in TenantCall
        /\ From("insert", m, s, 0).step = "insert"
    BY <1>0, <2>1, FromIsCall DEF CallSteps
  <2> QED BY <2>1, <2>2, BeginInv DEF Operations
<1>2. CASE TenantVerifyEmail(p)
  <2>1. PICK m \in Mails, c \in mailbox \cup {0} :
          BeginTenantCall(p, "verify", From("find", m, DefaultSecret, c))
    BY <1>2 DEF TenantVerifyEmail
  <2>2. From("find", m, DefaultSecret, c) \in TenantCall
        /\ From("find", m, DefaultSecret, c).step = "find"
    BY <1>0, <2>1, FromIsCall DEF CallSteps
  <2> QED BY <2>1, <2>2, BeginInv DEF Operations
<1>3. CASE TenantForgotPassword(p)
  <2>1. PICK m \in Mails :
          BeginTenantCall(p, "forgot", From("find", m, DefaultSecret, 0))
    BY <1>3 DEF TenantForgotPassword
  <2>2. From("find", m, DefaultSecret, 0) \in TenantCall
        /\ From("find", m, DefaultSecret, 0).step = "find"
    BY <1>0, <2>1, FromIsCall DEF CallSteps
  <2> QED BY <2>1, <2>2, BeginInv DEF Operations
<1>4. CASE TenantResetPassword(p)
  <2>1. PICK m \in Mails, s \in Secrets, c \in mailbox \cup {0} :
          BeginTenantCall(p, "reset", From("find", m, s, c))
    BY <1>4 DEF TenantResetPassword
  <2>2. From("find", m, s, c) \in TenantCall
        /\ From("find", m, s, c).step = "find"
    BY <1>0, <2>1, FromIsCall DEF CallSteps
  <2> QED BY <2>1, <2>2, BeginInv DEF Operations
<1>5. CASE TenantLogin(p)
  <2>1. PICK m \in Mails, s \in Secrets :
          BeginTenantCall(p, "login", From("limit", m, s, 0))
    BY <1>5 DEF TenantLogin
  <2>2. From("limit", m, s, 0) \in TenantCall
        /\ From("limit", m, s, 0).step = "limit"
    BY <1>0, <2>1, FromIsCall DEF CallSteps
  <2> QED BY <2>1, <2>2, BeginInv DEF Operations
<1>6. CASE EnsureDefaultAdminTenant(p)
  <2>1. From("find", AdminMail, DefaultSecret, 0) \in TenantCall
        /\ From("find", AdminMail, DefaultSecret, 0).step = "find"
    BY <1>0, FromIsCall DEF CallSteps
  <2> QED BY <1>6, <2>1, BeginInv DEF Operations, EnsureDefaultAdminTenant
<1>7. CASE CreateAdminTenant(p)
  <2>1. From("work", AdminMail, DefaultSecret, 0) \in TenantCall
        /\ From("work", AdminMail, DefaultSecret, 0).step = "work"
    BY <1>0, FromIsCall DEF CallSteps
  <2> QED BY <1>7, <2>1, BeginInv DEF Operations, CreateAdminTenant
<1>8. CASE PatchAdminTenant(p)
  <2>1. PICK t \in DOMAIN tenants :
          BeginTenantCall(p, "patch_tenant", [From("work", AdminMail, DefaultSecret, 0) EXCEPT !.id = t])
    BY <1>8 DEF PatchAdminTenant
  <2>2. [From("work", AdminMail, DefaultSecret, 0) EXCEPT !.id = t] \in TenantCall
        /\ [From("work", AdminMail, DefaultSecret, 0) EXCEPT !.id = t].step = "work"
    BY <1>0, <2>1, FromIsCall DEF CallSteps
  <2> QED BY <2>1, <2>2, BeginInv, ZenonT(40) DEF Operations
<1>9. CASE CreateAdminImpersonation(p)
  <2>1. PICK t \in DOMAIN tenants :
          BeginTenantCall(p, "impersonate", [From("work", AdminMail, DefaultSecret, 0) EXCEPT !.id = t])
    BY <1>9 DEF CreateAdminImpersonation
  <2>2. [From("work", AdminMail, DefaultSecret, 0) EXCEPT !.id = t] \in TenantCall
        /\ [From("work", AdminMail, DefaultSecret, 0) EXCEPT !.id = t].step = "work"
    BY <1>0, <2>1, FromIsCall DEF CallSteps
  <2> QED BY <2>1, <2>2, BeginInv, ZenonT(40) DEF Operations
<1>10. CASE DeleteAdminImpersonation(p)
  <2>1. PICK t \in 1..MaxTenantCalls :
          BeginTenantCall(p, "revoke", [From("work", AdminMail, DefaultSecret, 0) EXCEPT !.id = t])
    BY <1>10 DEF DeleteAdminImpersonation
  <2>2. [From("work", AdminMail, DefaultSecret, 0) EXCEPT !.id = t] \in TenantCall
        /\ [From("work", AdminMail, DefaultSecret, 0) EXCEPT !.id = t].step = "work"
    BY <1>0, <2>1, FromIsCall DEF CallSteps
  <2> QED BY <2>1, <2>2, BeginInv, ZenonT(40) DEF Operations
<1>11. CASE CreateTenantApiKey(p)
  <2>1. PICK s \in 0..MaxTenantCalls, t \in DOMAIN tenants :
          BeginTenantCall(p, "create_key", [From("principal", AdminMail, DefaultSecret, s) EXCEPT !.id = t])
    BY <1>11 DEF CreateTenantApiKey
  <2>2. [From("principal", AdminMail, DefaultSecret, s) EXCEPT !.id = t] \in TenantCall
        /\ [From("principal", AdminMail, DefaultSecret, s) EXCEPT !.id = t].step = "principal"
    BY <1>0, <2>1, FromIsCall DEF CallSteps
  <2> QED BY <2>1, <2>2, BeginInv, ZenonT(40) DEF Operations
<1>12. CASE PatchTenantApiKey(p)
  <2>1. PICK s \in 0..MaxTenantCalls, t \in DOMAIN tenants :
          BeginTenantCall(p, "patch_key", [From("principal", AdminMail, DefaultSecret, s) EXCEPT !.id = t])
    BY <1>12 DEF PatchTenantApiKey
  <2>2. [From("principal", AdminMail, DefaultSecret, s) EXCEPT !.id = t] \in TenantCall
        /\ [From("principal", AdminMail, DefaultSecret, s) EXCEPT !.id = t].step = "principal"
    BY <1>0, <2>1, FromIsCall DEF CallSteps
  <2> QED BY <2>1, <2>2, BeginInv, ZenonT(40) DEF Operations
<1>13. CASE DeleteTenantApiKey(p)
  <2>1. PICK s \in 0..MaxTenantCalls, t \in DOMAIN tenants :
          BeginTenantCall(p, "delete_key", [From("principal", AdminMail, DefaultSecret, s) EXCEPT !.id = t])
    BY <1>13 DEF DeleteTenantApiKey
  <2>2. [From("principal", AdminMail, DefaultSecret, s) EXCEPT !.id = t] \in TenantCall
        /\ [From("principal", AdminMail, DefaultSecret, s) EXCEPT !.id = t].step = "principal"
    BY <1>0, <2>1, FromIsCall DEF CallSteps
  <2> QED BY <2>1, <2>2, BeginInv, ZenonT(40) DEF Operations
<1> QED BY <1>1, <1>2, <1>3, <1>4, <1>5, <1>6, <1>7, <1>8, <1>9, <1>10, <1>11, <1>12, <1>13
        DEF HandlerStarts

\* A step that only moves the handler on, or ends its call.
LEMMA MovesInv ==
  ASSUME CodeInv, NEW p \in Handlers, UNCHANGED accountVars,
         \/ Ends(p)
         \/ \E step \in CallSteps \ {"select", "lock", "commit"} : CallGoes(p, step)
  PROVE  CodeInv'
<1>1. CASE Ends(p)
  BY <1>1, CallInv, IdleIsCall, ZenonT(40) DEF Ends
<1>2. ASSUME NEW step \in CallSteps \ {"select", "lock", "commit"}, CallGoes(p, step) PROVE CodeInv'
  <2>1. /\ [tenantCalls[p] EXCEPT !.step = step] \in TenantCall
        /\ [tenantCalls[p] EXCEPT !.step = step].step = step
    BY ZenonT(40) DEF CodeInv, CodeTypes, TenantCall
  <2> QED BY <1>2, <2>1, CallInv, ZenonT(40) DEF CallGoes
<1> QED BY <1>1, <1>2

\* A step that also notes a number: a code or a row.
LEMMA NotesTypes ==
  ASSUME CodeInv, NEW p \in Handlers, NEW step \in CallSteps, NEW n \in Nat,
         \/ tenantCalls' = [tenantCalls EXCEPT ![p].step = step, ![p].code = n]
         \/ tenantCalls' = [tenantCalls EXCEPT ![p].step = step, ![p].id = n]
  PROVE  /\ tenantCalls' \in [Handlers -> TenantCall] /\ tenantCalls'[p].step = step
         /\ \A q \in Handlers \ {p} : tenantCalls'[q] = tenantCalls[q]
<1>1. tenantCalls \in [Handlers -> TenantCall]
  BY DEF CodeInv, CodeTypes
<1>2. CASE tenantCalls' = [tenantCalls EXCEPT ![p].step = step, ![p].code = n]
  <2> DEFINE v == [tenantCalls[p] EXCEPT !.step = step, !.code = n]
  <2>1. v \in TenantCall /\ v.step = step
    BY <1>1, ZenonT(40) DEF TenantCall
  <2>2. tenantCalls' = [tenantCalls EXCEPT ![p] = v]
    BY <1>2, ZenonT(40)
  <2> HIDE DEF v
  <2> QED BY <1>1, <2>1, <2>2, ZenonT(40)
<1>3. CASE tenantCalls' = [tenantCalls EXCEPT ![p].step = step, ![p].id = n]
  <2> DEFINE v == [tenantCalls[p] EXCEPT !.step = step, !.id = n]
  <2>1. v \in TenantCall /\ v.step = step
    BY <1>1, ZenonT(40) DEF TenantCall
  <2>2. tenantCalls' = [tenantCalls EXCEPT ![p] = v]
    BY <1>3, ZenonT(40)
  <2> HIDE DEF v
  <2> QED BY <1>1, <2>1, <2>2, ZenonT(40)
<1> QED BY <1>2, <1>3

LEMMA Lengths == ASSUME CodeInv PROVE Len(tenants) + 1 \in Nat /\ Len(mailCodes) + 1 \in Nat
<1>1. tenants \in Seq([name : {"tenant", "admin"}, status : {"active", "disabled"}]) /\ mailCodes \in Seq(MailCode)
  BY DEF CodeInv, CodeTypes
<1> QED BY <1>1

\* Registration, and the code of a forgotten password.
LEMMA InsertCodeTypes ==
  ASSUME CodeInv, NEW m \in Mails, NEW purpose \in {"email_verify", "password_reset"},
         InsertCode(m, purpose)
  PROVE  /\ mailCodes' \in Seq(MailCode)
         /\ \A k \in DOMAIN mailCodes : k \in DOMAIN mailCodes' /\ mailCodes'[k] = mailCodes[k]
  BY DEF CodeInv, CodeTypes, InsertCode, MailCode

LEMMA RegisterInv ==
  ASSUME CodeInv, NEW p \in Handlers, Register(p)
  PROVE  CodeInv'
<1> DEFINE c == tenantCalls[p]
<1>1. c \in TenantCall /\ c.mail \in Mails /\ c.secret \in Passwords
  BY DEF CodeInv, CodeTypes, TenantCall
<1>2. CASE users[c.mail] # NoUser
  BY <1>2, MovesInv DEF Register, accountVars
<1>3. CASE users[c.mail] = NoUser
  <2>1. /\ mailCodes' \in Seq(MailCode)
        /\ \A k \in DOMAIN mailCodes : k \in DOMAIN mailCodes' /\ mailCodes'[k] = mailCodes[k]
    BY <1>1, <1>3, InsertCodeTypes DEF Register, Purpose
  <2>2. /\ tenantCalls' \in [Handlers -> TenantCall] /\ tenantCalls'[p].step = "dispatch"
        /\ \A q \in Handlers \ {p} : tenantCalls'[q] = tenantCalls[q]
    <3>1. tenantCalls' = [tenantCalls EXCEPT ![p].step = "dispatch", ![p].code = Len(mailCodes) + 1]
      BY <1>3 DEF Register
    <3> QED BY <3>1, Lengths, NotesTypes, ZenonT(40) DEF CallSteps
  <2>3. tenants' \in Seq([name : {"tenant", "admin"}, status : {"active", "disabled"}])
    <3> DEFINE T == [name : {"tenant", "admin"}, status : {"active", "disabled"}]
    <3>1. tenants \in Seq(T) /\ [name |-> "tenant", status |-> "active"] \in T
      BY DEF CodeInv, CodeTypes
    <3>2. tenants' = Append(tenants, [name |-> "tenant", status |-> "active"])
      BY <1>3 DEF Register
    <3> HIDE DEF T
    <3>3. tenants' \in Seq(T)
      BY <3>1, <3>2
    <3> QED BY <3>3 DEF T
  <2>4. users' \in [Mails -> UserRow \cup {NoUser}] /\ \A m \in Mails : users[m] \in UserRow => users'[m] \in UserRow
    <3> DEFINE u == [tenant |-> Len(tenants) + 1, secret |-> c.secret, verified |-> FALSE, enabled |-> TRUE]
    <3>1. u \in UserRow
      BY <1>1, Lengths DEF UserRow
    <3>2. users' = [users EXCEPT ![c.mail] = u]
      BY <1>3 DEF Register
    <3> HIDE DEF u
    <3> QED BY <1>1, <3>1, <3>2 DEF CodeInv, CodeTypes
  <2>5. CodeTypes'
    BY <2>1, <2>2, <2>3, <2>4 DEF CodeInv, CodeTypes, Register
  <2>6. RowsKept
    BY <2>1, <2>4 DEF RowsKept, Register
  <2> QED BY <2>2, <2>5, <2>6, RowsKeptInv
<1> QED BY <1>2, <1>3

LEMMA ForgotInsertInv ==
  ASSUME CodeInv, NEW p \in Handlers, ForgotPasswordInsert(p)
  PROVE  CodeInv'
<1>1. tenantCalls[p].mail \in Mails
  BY DEF CodeInv, CodeTypes, TenantCall
<1>2. /\ mailCodes' \in Seq(MailCode)
      /\ \A k \in DOMAIN mailCodes : k \in DOMAIN mailCodes' /\ mailCodes'[k] = mailCodes[k]
  BY <1>1, InsertCodeTypes DEF ForgotPasswordInsert, Purpose
<1>3. /\ tenantCalls' \in [Handlers -> TenantCall] /\ tenantCalls'[p].step = "dispatch"
      /\ \A q \in Handlers \ {p} : tenantCalls'[q] = tenantCalls[q]
  BY Lengths, NotesTypes, ZenonT(40) DEF ForgotPasswordInsert, CallSteps
<1>4. CodeTypes' /\ RowsKept
  BY <1>2, <1>3 DEF CodeInv, CodeTypes, ForgotPasswordInsert, RowsKept
<1> QED BY <1>3, <1>4, RowsKeptInv

LEMMA DispatchInv ==
  ASSUME CodeInv, NEW p \in Handlers, DispatchEmailCode(p)
  PROVE  CodeInv'
<1>1. tenantCalls[p].code \in Nat
  BY DEF CodeInv, CodeTypes, TenantCall
<1>2. CodeTypes' /\ RowsKept
  BY <1>1, EndsInv, ZenonT(40) DEF CodeInv, CodeTypes, DispatchEmailCode, RowsKept
<1> QED BY <1>2, EndsInv, RowsKeptInv DEF DispatchEmailCode

\* The default tenant, its login, and what administrators change: none of it
\* touches a code.
LEMMA AddTenantTypes ==
  ASSUME CodeInv, NEW name \in {"tenant", "admin"}, AddTenant(name)
  PROVE  tenants' \in Seq([name : {"tenant", "admin"}, status : {"active", "disabled"}])
<1> DEFINE T == [name : {"tenant", "admin"}, status : {"active", "disabled"}]
<1>1. tenants \in Seq(T) /\ [name |-> name, status |-> "active"] \in T
  BY DEF CodeInv, CodeTypes
<1>2. tenants' = Append(tenants, [name |-> name, status |-> "active"])
  BY DEF AddTenant
<1> HIDE DEF T
<1>3. tenants' \in Seq(T)
  BY <1>1, <1>2
<1> QED BY <1>3 DEF T

LEMMA AdminTenantInv ==
  ASSUME CodeInv, NEW p \in Handlers,
         AdminCreateTenant(p) \/ AdminPatchTenant(p) \/ EnsureDefaultTenantCreates(p)
  PROVE  CodeInv'
<1> DEFINE Tenant == [name : {"tenant", "admin"}, status : {"active", "disabled"}]
<1>1. /\ UNCHANGED <<users, mailCodes, codeLocks, mailbox, usedCodes>>
      /\ tenants' \in Seq(Tenant)
  <2>1. CASE AdminCreateTenant(p)
    BY <2>1, AddTenantTypes DEF AdminCreateTenant
  <2>2. CASE EnsureDefaultTenantCreates(p)
    BY <2>2, AddTenantTypes DEF EnsureDefaultTenantCreates
  <2>3. CASE AdminPatchTenant(p)
    <3>1. PICK s \in {"active", "disabled"} : tenants' = [tenants EXCEPT ![tenantCalls[p].id].status = s]
      BY <2>3, ZenonT(40) DEF AdminPatchTenant
    <3>2. tenants \in Seq(Tenant)
      BY DEF CodeInv, CodeTypes
    <3> HIDE DEF Tenant
    <3>3. \A t \in DOMAIN tenants : tenants[t] \in Tenant
      BY <3>2
    <3>4. \A t \in DOMAIN tenants : [tenants[t] EXCEPT !.status = s] \in Tenant
      BY <3>3 DEF Tenant
    <3>5. tenants' \in [1..Len(tenants) -> Tenant] /\ Len(tenants) \in Nat
      <4>1. tenants \in [1..Len(tenants) -> Tenant] /\ Len(tenants) \in Nat
        BY <3>2
      <4>2. \A t \in 1..Len(tenants) : tenants'[t] \in Tenant
        BY <3>1, <3>4, <4>1
      <4>3. tenants' = [t \in 1..Len(tenants) |-> tenants'[t]]
        BY <3>1, <4>1, ZenonT(40)
      <4> QED BY <4>1, <4>2, <4>3
    <3>6. tenants' \in Seq(Tenant)
      BY <3>5
    <3> QED BY <2>3, <3>6 DEF AdminPatchTenant
  <2> QED BY <2>1, <2>2, <2>3
<1>2. /\ tenantCalls' \in [Handlers -> TenantCall] /\ tenantCalls'[p].step \in {"audit", "seek"}
      /\ \A q \in Handlers \ {p} : tenantCalls'[q] = tenantCalls[q]
  <2>1. CASE AdminCreateTenant(p) \/ AdminPatchTenant(p)
    <3>1. CallGoes(p, "audit") BY <2>1 DEF AdminCreateTenant, AdminPatchTenant
    <3> QED BY <3>1, GoesInv, ZenonT(40) DEF CallSteps
  <2>2. CASE EnsureDefaultTenantCreates(p)
    BY <2>2, Lengths, NotesTypes, ZenonT(40) DEF EnsureDefaultTenantCreates, CallSteps
  <2> QED BY <2>1, <2>2
<1>3. CodeTypes' /\ RowsKept
  BY <1>1, <1>2 DEF CodeInv, CodeTypes, RowsKept
<1> QED BY <1>2, <1>3, RowsKeptInv

LEMMA EnsureDefaultTenantInv ==
  ASSUME CodeInv, NEW p \in Handlers, EnsureDefaultTenant(p)
  PROVE  CodeInv'
<1>1. UNCHANGED accountVars
  BY DEF EnsureDefaultTenant
<1>2. CASE AdminTenants = {}
  <2>1. CallGoes(p, "create") BY <1>2 DEF EnsureDefaultTenant, CallGoes
  <2> QED BY <1>1, <2>1, MovesInv DEF CallSteps
<1>3. CASE AdminTenants # {}
  <2>1. PICK t : tenantCalls' = [tenantCalls EXCEPT ![p].step = "seek", ![p].id = t]
                 /\ t = CHOOSE x \in AdminTenants : \A u \in AdminTenants : x <= u
    BY <1>3, ZenonT(40) DEF EnsureDefaultTenant
  <2>2. AdminTenants \in SUBSET Nat
    BY DEF AdminTenants, CodeInv, CodeTypes
  <2>3. t \in Nat
    BY <1>3, <2>1, <2>2, OldestExists
  <2>4. CodeTypes' /\ RowsKept
    BY <1>1, <2>1, <2>3, NotesTypes, ZenonT(40) DEF CodeInv, CodeTypes, RowsKept, accountVars, CallSteps
  <2> QED BY <2>1, <2>3, <2>4, NotesTypes, RowsKeptInv, ZenonT(40) DEF CallSteps
<1> QED BY <1>2, <1>3

LEMMA DefaultLoginInv ==
  ASSUME CodeInv, NEW p \in Handlers, SeekDefaultLogin(p) \/ PutDefaultLogin(p)
  PROVE  CodeInv'
<1> DEFINE c == tenantCalls[p]
<1>1. /\ users[AdminMail] \in UserRow \cup {NoUser} /\ c.id \in Nat
      /\ DefaultSecret \in Passwords
  BY TenantAssumption DEF CodeInv, CodeTypes, TenantCall, Passwords
<1>2. CASE SeekDefaultLogin(p)
  <2>1. CASE Ends(p)
    BY <1>2, <2>1, MovesInv DEF SeekDefaultLogin
  <2>2. CASE tenantCalls' = [tenantCalls EXCEPT ![p].step = "put", ![p].row = users[AdminMail]]
    <3>1. /\ tenantCalls' \in [Handlers -> TenantCall] /\ tenantCalls'[p].step = "put"
          /\ \A q \in Handlers \ {p} : tenantCalls'[q] = tenantCalls[q]
      <4>1. tenantCalls' = [tenantCalls EXCEPT ![p] = [tenantCalls[p] EXCEPT !.step = "put", !.row = users[AdminMail]]]
        BY <2>2, ZenonT(40) DEF CodeInv, CodeTypes
      <4>2. /\ [tenantCalls[p] EXCEPT !.step = "put", !.row = users[AdminMail]] \in TenantCall
            /\ [tenantCalls[p] EXCEPT !.step = "put", !.row = users[AdminMail]].step = "put"
        BY <1>1, ZenonT(40) DEF CodeInv, CodeTypes, TenantCall, CallSteps
      <4> QED BY <4>1, <4>2 DEF CodeInv, CodeTypes
    <3>2. CodeTypes' /\ RowsKept
      BY <1>2, <3>1 DEF SeekDefaultLogin, CodeInv, CodeTypes, RowsKept, accountVars
    <3> QED BY <3>1, <3>2, RowsKeptInv
  <2> QED BY <1>2, <2>1, <2>2 DEF SeekDefaultLogin
<1>3. CASE PutDefaultLogin(p)
  <2>1. CASE Ends(p) /\ UNCHANGED users
    BY <1>3, <2>1, MovesInv DEF PutDefaultLogin, accountVars
  <2>2. CASE /\ users' = [users EXCEPT ![AdminMail] = [tenant |-> c.id, secret |-> DefaultSecret,
                                                     verified |-> TRUE, enabled |-> TRUE]]
             /\ CallGoes(p, "audit")
    <3> DEFINE u == [tenant |-> c.id, secret |-> DefaultSecret, verified |-> TRUE, enabled |-> TRUE]
    <3>1. u \in UserRow
      BY <1>1 DEF UserRow
    <3>2. users' = [users EXCEPT ![AdminMail] = u]
      BY <2>2
    <3> HIDE DEF u
    <3>3. users' \in [Mails -> UserRow \cup {NoUser}] /\ \A m \in Mails : users[m] \in UserRow => users'[m] \in UserRow
      BY <3>1, <3>2, ZenonT(40) DEF CodeInv, CodeTypes
    <3>4. /\ tenantCalls' \in [Handlers -> TenantCall] /\ tenantCalls'[p].step = "audit"
          /\ \A q \in Handlers \ {p} : tenantCalls'[q] = tenantCalls[q]
      BY <2>2, GoesInv, ZenonT(40) DEF CallSteps
    <3>5. CodeTypes' /\ RowsKept
      BY <1>3, <3>3, <3>4 DEF PutDefaultLogin, CodeInv, CodeTypes, RowsKept
    <3> QED BY <3>4, <3>5, RowsKeptInv
  <2> QED BY <1>3, <2>1, <2>2 DEF PutDefaultLogin
<1> QED BY <1>2, <1>3

\* Steps that leave tenants, users and codes alone and only move the handler on.
LEMMA OtherStepsInv ==
  ASSUME CodeInv, NEW p \in Handlers,
         \/ ForgotPassword(p) \/ CheckLimit(p) \/ Login(p) \/ RecordLoginFailure(p) \/ ClearLoginFailures(p)
         \/ AdminImpersonate(p) \/ AdminRevokeImpersonation(p) \/ EnsurePrincipalActive(p)
         \/ CheckGroup(p) \/ InsertApiKey(p) \/ PatchApiKey(p) \/ DeleteApiKey(p) \/ Audit(p)
  PROVE  CodeInv'
<1>1. /\ UNCHANGED accountVars
      /\ \/ Ends(p)
         \/ \E step \in {"insert", "compare", "clear", "record", "audit", "work", "write"} : CallGoes(p, step)
  BY DEF ForgotPassword, CheckLimit, Login, RecordLoginFailure, ClearLoginFailures, AdminImpersonate,
         AdminRevokeImpersonation, EnsurePrincipalActive, CheckGroup, InsertApiKey, PatchApiKey,
         DeleteApiKey, Audit
<1> QED BY <1>1, MovesInv DEF CallSteps

\* A code is looked for.
LEMMA FindUserInv ==
  ASSUME CodeInv, NEW p \in Handlers, FindUser(p)
  PROVE  CodeInv'
<1>1. CASE Ends(p)
  BY <1>1, MovesInv DEF FindUser
<1>2. CASE CallGoes(p, "select") /\ users[tenantCalls[p].mail] # NoUser
  <2>1. /\ tenantCalls' \in [Handlers -> TenantCall]
        /\ tenantCalls'[p] = [tenantCalls[p] EXCEPT !.step = "select"]
        /\ \A q \in Handlers \ {p} : tenantCalls'[q] = tenantCalls[q]
    BY <1>2, GoesInv, ZenonT(40) DEF CallSteps
  <2>2. /\ tenantCalls'[p].mail = tenantCalls[p].mail /\ tenantCalls'[p].step = "select"
        /\ users[tenantCalls[p].mail] \in UserRow
    BY <1>2, <2>1 DEF CodeInv, CodeTypes, TenantCall
  <2>3. CodeTypes'
    BY <2>1 DEF FindUser, accountVars, CodeInv, CodeTypes
  <2>4. CommitHoldsRow'
    <3>1. UNCHANGED <<users, mailCodes, codeLocks>> BY DEF FindUser, accountVars
    <3>2. ASSUME NEW q \in Handlers PROVE CommitHoldsRow!(q)'
      <4>1. CASE q = p BY <2>2, <3>1, <4>1 DEF Consuming
      <4>2. CASE q # p BY <2>1, <3>1, <4>2 DEF CodeInv, CommitHoldsRow, Consuming
      <4> QED BY <4>1, <4>2
    <3> QED BY <3>2 DEF CommitHoldsRow
  <2>5. SpentIsConsumed'
    BY DEF FindUser, accountVars, CodeInv, SpentIsConsumed
  <2> QED BY <2>3, <2>4, <2>5 DEF CodeInv
<1> QED BY <1>1, <1>2 DEF FindUser

LEMMA SelectCodeInv ==
  ASSUME CodeInv, NEW p \in Handlers, SelectCode(p)
  PROVE  CodeInv'
<1> DEFINE mine == CodesFor(tenantCalls[p].mail, Purpose[tenantCalls[p].op])
           k == CHOOSE j \in mine : \A i \in mine : i <= j
<1>1. CASE Ends(p)
  BY <1>1, MovesInv DEF SelectCode
<1>2. CASE mine # {} /\ tenantCalls' = [tenantCalls EXCEPT ![p].step = "lock", ![p].id = k]
  <2>1. mailCodes \in Seq(MailCode) /\ mine \in SUBSET (1..Len(mailCodes)) /\ Len(mailCodes) \in Nat
    <3>1. mailCodes \in Seq(MailCode)
      BY DEF CodeInv, CodeTypes
    <3> QED BY <3>1 DEF CodesFor
  <2>2. k \in mine
    <3> HIDE DEF mine
    <3> QED BY <1>2, <2>1, NewestExists, ZenonT(40)
  <2>3. k \in DOMAIN mailCodes /\ k \in Nat
    BY <2>1, <2>2
  <2> HIDE DEF k
  <2>4. /\ tenantCalls' \in [Handlers -> TenantCall] /\ tenantCalls'[p].step = "lock"
        /\ \A q \in Handlers \ {p} : tenantCalls'[q] = tenantCalls[q]
    BY <1>2, <2>3, NotesTypes, ZenonT(40) DEF CallSteps
  <2>5. /\ tenantCalls'[p].mail = tenantCalls[p].mail /\ tenantCalls'[p].id = k
    BY <1>2 DEF CodeInv, CodeTypes, TenantCall
  <2>6. users[tenantCalls[p].mail] \in UserRow
    BY DEF SelectCode, CodeInv, CommitHoldsRow, Consuming
  <2>7. CodeTypes'
    BY <2>4 DEF SelectCode, accountVars, CodeInv, CodeTypes
  <2>8. CommitHoldsRow'
    BY <2>3, <2>4, <2>5, <2>6 DEF SelectCode, accountVars, CodeInv, CommitHoldsRow, Consuming
  <2>9. SpentIsConsumed'
    BY DEF SelectCode, accountVars, CodeInv, SpentIsConsumed
  <2> QED BY <2>7, <2>8, <2>9 DEF CodeInv
<1> QED BY <1>1, <1>2 DEF SelectCode

\* The row of the code is locked: nobody else is about to commit with it.
LEMMA ConsumeCodeInv ==
  ASSUME CodeInv, NEW p \in Handlers, ConsumeCode(p)
  PROVE  CodeInv'
<1> DEFINE k == tenantCalls[p].id
<1>1. CASE Ends(p) /\ UNCHANGED codeLocks
  BY <1>1, MovesInv DEF ConsumeCode, accountVars
<1>2. CASE /\ CallGoes(p, "commit") /\ codeLocks' = [codeLocks EXCEPT ![k] = p]
           /\ ~mailCodes[k].consumed
  <2>1. /\ tenantCalls' \in [Handlers -> TenantCall]
        /\ tenantCalls'[p] = [tenantCalls[p] EXCEPT !.step = "commit"]
        /\ \A q \in Handlers \ {p} : tenantCalls'[q] = tenantCalls[q]
    BY <1>2, GoesInv, ZenonT(40) DEF CallSteps
  <2>2. /\ tenantCalls'[p].mail = tenantCalls[p].mail /\ tenantCalls'[p].id = k
        /\ tenantCalls'[p].step = "commit"
    BY <2>1 DEF CodeInv, CodeTypes, TenantCall
  <2>3. /\ users[tenantCalls[p].mail] \in UserRow /\ k \in DOMAIN mailCodes
        /\ codeLocks[k] = NoUser
    BY DEF ConsumeCode, RowIsFree, CodeInv, CommitHoldsRow, Consuming
  <2>4. UNCHANGED <<users, tenants, mailCodes, mailbox, usedCodes>>
    BY DEF ConsumeCode
  <2>5. CodeTypes'
    BY <1>2, <2>1, <2>4, ZenonT(40) DEF CodeInv, CodeTypes
  <2>6. ASSUME NEW q \in Handlers PROVE CommitHoldsRow!(q)'
    <3>1. CASE q = p
      BY <1>2, <2>2, <2>3, <2>4, <3>1 DEF CodeInv, CodeTypes, Consuming
    <3>2. CASE q # p
      <4>1. tenantCalls'[q] = tenantCalls[q] /\ codeLocks \in [1..MaxTenantCalls -> Handlers \cup {NoUser}]
        BY <2>1, <3>2 DEF CodeInv, CodeTypes
      <4>2. Consuming(q, {"commit"}) /\ tenantCalls[q].id \in 1..MaxTenantCalls => tenantCalls[q].id # k
        BY <2>3, TenantAssumption DEF CodeInv, CommitHoldsRow
      <4> QED BY <1>2, <2>4, <4>1, <4>2 DEF CodeInv, CommitHoldsRow, Consuming
    <3> QED BY <3>1, <3>2
  <2>7. SpentIsConsumed'
    BY <2>4 DEF CodeInv, SpentIsConsumed
  <2> QED BY <2>5, <2>6, <2>7 DEF CodeInv, CommitHoldsRow
<1> QED BY <1>1, <1>2 DEF ConsumeCode

\* The code takes effect and is marked, and its row is free again.
LEMMA VerifyOrResetInv ==
  ASSUME CodeInv, NEW p \in Handlers, VerifyOrReset(p)
  PROVE  CodeInv'
<1> DEFINE c == tenantCalls[p]
           k == c.id
<1>1. /\ c \in TenantCall /\ c.mail \in Mails /\ c.secret \in Passwords /\ k \in Nat
      /\ mailCodes \in Seq(MailCode) /\ users \in [Mails -> UserRow \cup {NoUser}]
      /\ codeLocks \in [1..MaxTenantCalls -> Handlers \cup {NoUser}]
      /\ usedCodes \in [1..MaxTenantCalls -> Nat]
  BY DEF CodeInv, CodeTypes, TenantCall
<1>2. /\ users[c.mail] \in UserRow /\ k \in DOMAIN mailCodes
      /\ k \in 1..MaxTenantCalls => codeLocks[k] = p /\ ~mailCodes[k].consumed
  BY DEF VerifyOrReset, CodeInv, CommitHoldsRow, Consuming
<1>3. /\ tenantCalls' \in [Handlers -> TenantCall] /\ tenantCalls'[p].step = "idle"
      /\ \A q \in Handlers \ {p} : tenantCalls'[q] = tenantCalls[q]
  BY EndsInv DEF VerifyOrReset
<1>4. /\ users' \in [Mails -> UserRow \cup {NoUser}]
      /\ \A m \in Mails : users[m] \in UserRow => users'[m] \in UserRow
  <2>1. TakeEffect(c, users[c.mail]) \in UserRow
    BY <1>1, <1>2, ZenonT(40) DEF TakeEffect, UserRow
  <2> QED BY <1>1, <2>1 DEF VerifyOrReset
<1>5. /\ mailCodes' \in Seq(MailCode) /\ DOMAIN mailCodes' = DOMAIN mailCodes
      /\ mailCodes'[k].consumed = TRUE
      /\ \A j \in DOMAIN mailCodes : j # k => mailCodes'[j] = mailCodes[j]
  <2>1. mailCodes' = [mailCodes EXCEPT ![k].consumed = TRUE]
    BY DEF VerifyOrReset
  <2>2. mailCodes[k] \in MailCode
    BY <1>1, <1>2
  <2>3. [mailCodes[k] EXCEPT !.consumed = TRUE] \in MailCode /\ [mailCodes[k] EXCEPT !.consumed = TRUE].consumed = TRUE
    BY <2>2, ZenonT(40) DEF MailCode
  <2>4. mailCodes' = [mailCodes EXCEPT ![k] = [mailCodes[k] EXCEPT !.consumed = TRUE]]
    BY <2>1
  <2>5. mailCodes \in [1..Len(mailCodes) -> MailCode] /\ Len(mailCodes) \in Nat
    BY <1>1
  <2>6. mailCodes' \in [1..Len(mailCodes) -> MailCode]
    BY <2>3, <2>4, <2>5, ZenonT(40)
  <2>7. mailCodes' \in Seq(MailCode)
    BY <2>5, <2>6
  <2> QED BY <1>2, <2>3, <2>4, <2>5, <2>6, <2>7, ZenonT(40)
<1>6. /\ usedCodes' = [usedCodes EXCEPT ![k] = @ + 1] /\ codeLocks' = [codeLocks EXCEPT ![k] = NoUser]
      /\ UNCHANGED <<tenants, mailbox>>
  BY DEF VerifyOrReset
<1>7. CodeTypes'
  <2>1. usedCodes' \in [1..MaxTenantCalls -> Nat] /\ codeLocks' \in [1..MaxTenantCalls -> Handlers \cup {NoUser}]
    <3> HIDE DEF k
    <3>1. usedCodes' \in [1..MaxTenantCalls -> Nat]
      <4>1. usedCodes' = [j \in 1..MaxTenantCalls |-> IF j = k THEN usedCodes[j] + 1 ELSE usedCodes[j]]
        BY <1>1, <1>6, ZenonT(40)
      <4>2. \A j \in 1..MaxTenantCalls : usedCodes[j] \in Nat /\ usedCodes[j] + 1 \in Nat
        BY <1>1
      <4> QED BY <4>1, <4>2
    <3>2. codeLocks' \in [1..MaxTenantCalls -> Handlers \cup {NoUser}] BY <1>1, <1>6, ZenonT(40)
    <3> QED BY <3>1, <3>2
  <2> QED BY <1>3, <1>4, <1>5, <1>6, <2>1 DEF CodeInv, CodeTypes
<1>8. ASSUME NEW q \in Handlers PROVE CommitHoldsRow!(q)'
  <2>1. CASE q = p
    BY <1>3, <2>1 DEF Consuming
  <2>2. CASE q # p
    <3>1. tenantCalls'[q] = tenantCalls[q] /\ tenantCalls[q].mail \in Mails
      BY <1>3, <2>2 DEF CodeInv, CodeTypes, TenantCall
    <3>2. Consuming(q, {"commit"}) /\ tenantCalls[q].id \in 1..MaxTenantCalls => tenantCalls[q].id # k
      BY <1>2, <2>2 DEF CodeInv, CommitHoldsRow
    <3> HIDE DEF k
    <3> QED BY <1>1, <1>4, <1>5, <1>6, <3>1, <3>2 DEF CodeInv, CommitHoldsRow, Consuming
  <2> QED BY <2>1, <2>2
<1>9. SpentIsConsumed'
  <2> HIDE DEF k
  <2> QED BY <1>1, <1>2, <1>5, <1>6 DEF CodeInv, SpentIsConsumed
<1> QED BY <1>7, <1>8, <1>9 DEF CodeInv, CommitHoldsRow

LEMMA CodeExpiresInv ==
  ASSUME CodeInv, CodeExpires
  PROVE  CodeInv'
<1>1. PICK k \in DOMAIN mailCodes : mailCodes' = [mailCodes EXCEPT ![k].expired = TRUE]
  BY ZenonT(40) DEF CodeExpires
<1>2. mailCodes \in [1..Len(mailCodes) -> MailCode] /\ Len(mailCodes) \in Nat
  BY DEF CodeInv, CodeTypes
<1>3. /\ [mailCodes[k] EXCEPT !.expired = TRUE] \in MailCode
      /\ [mailCodes[k] EXCEPT !.expired = TRUE].consumed = mailCodes[k].consumed
  BY <1>2, ZenonT(40) DEF MailCode
<1>4. mailCodes' = [mailCodes EXCEPT ![k] = [mailCodes[k] EXCEPT !.expired = TRUE]]
  BY <1>1
<1>5. /\ mailCodes' \in [1..Len(mailCodes) -> MailCode] /\ DOMAIN mailCodes' = DOMAIN mailCodes
      /\ \A j \in DOMAIN mailCodes : mailCodes'[j].consumed = mailCodes[j].consumed
  BY <1>2, <1>3, <1>4
<1>6. mailCodes' \in Seq(MailCode)
  BY <1>2, <1>5
<1>7. CodeTypes'
  BY <1>6 DEF CodeExpires, CodeInv, CodeTypes
<1>8. CommitHoldsRow'
  <2>1. UNCHANGED <<tenantCalls, users, codeLocks>> BY DEF CodeExpires
  <2>2. ASSUME NEW q \in Handlers PROVE CommitHoldsRow!(q)'
    BY <1>5, <2>1 DEF CodeInv, CommitHoldsRow, Consuming
  <2> QED BY <2>2 DEF CommitHoldsRow
<1>9. SpentIsConsumed'
  BY <1>5 DEF CodeExpires, CodeInv, SpentIsConsumed
<1> QED BY <1>7, <1>8, <1>9 DEF CodeInv

LEMMA CodeInvKept ==
  ASSUME CodeInv, UNCHANGED <<tenantCalls, accountVars>>
  PROVE  CodeInv'
  BY DEF accountVars, CodeInv, CodeTypes, CommitHoldsRow, Consuming, SpentIsConsumed

LEMMA CodeNext == CodeInv /\ [TnNext]_tnVars => CodeInv'
<1> SUFFICES ASSUME CodeInv, [TnNext]_tnVars PROVE CodeInv' OBVIOUS
<1>1. ASSUME NEW p \in Handlers, HandlerStep(p) PROVE CodeInv'
  BY <1>1, RegisterInv, ForgotInsertInv, DispatchInv, FindUserInv, SelectCodeInv, ConsumeCodeInv,
     VerifyOrResetInv, AdminTenantInv, EnsureDefaultTenantInv, DefaultLoginInv, OtherStepsInv
     DEF HandlerStep
<1>2. CASE CodeExpires
  BY <1>2, CodeExpiresInv
<1>3. CASE FailureAges \/ GroupIsDeleted \/ UNCHANGED tnVars
  BY <1>3, CodeInvKept DEF FailureAges, GroupIsDeleted, tnVars, accountVars
<1> QED BY <1>1, <1>2, <1>3, StartsInv DEF TnNext

\* For any handlers, addresses and codes: a code sent by mail takes effect once.
THEOREM CodeAlwaysSpentOnce == TnSpec => []CodeIsSpentOnce
<1>1. CodeInv => CodeIsSpentOnce
  BY DEF CodeInv, CodeTypes, SpentIsConsumed, CodeIsSpentOnce
<1> QED BY <1>1, CodeInit, CodeNext, PTL DEF TnSpec
=============================================================================
