----------------------------- MODULE OAuthLogin -----------------------------
(***************************************************************************)
(* Signing an upstream account in with OAuth: the login sessions the       *)
(* control plane keeps in memory, the callback flows that exchange a code  *)
(* and import the account, and the on-demand callback listener             *)
(* (app/core_handlers/account_access.rs, app.rs).                          *)
(*                                                                         *)
(* A flow is the handler of one callback request.  The session table is    *)
(* behind a lock, so each locked section is one step; the exchange, the    *)
(* import and the wait for the listener's task are separate steps, and a   *)
(* client that disconnects drops the handler at any of them.               *)
(***************************************************************************)
EXTENDS Naturals, FiniteSets

CONSTANTS LoginSessions, Flows, CallbackServers, Callbacks, MaxListeners

\* A callback carries a code or an error, or neither, or another session's
\* state.
ASSUME LoginAssumption ==
  /\ MaxListeners \in Nat
  /\ Callbacks \subseteq {"code", "access_denied", "provider_error", "no_code", "other_state"}

VARIABLES listenMode,     \* "always", "on_demand" or "off"
          login,          \* the session table: session -> record
          opening,        \* sessions being created, with their step
          listener,       \* number of the running on-demand listener, or 0
          listenersMade,
          listenerLock,   \* who holds the mutex around the listener
          flow            \* the callback handlers

loginVars == <<listenMode, login, opening, listener, listenersMade, listenerLock, flow>>

Pending == {"waiting_callback", "exchanging", "importing"}
NoFlow == [pc |-> "idle", session |-> "none", listener |-> 0, joins |-> 0]
NoHolder == "nobody"

\* Time, as the table sees it: a session is due once its ten minutes are
\* over, and stale once it was not updated for thirty; the second comes only
\* after the first, since an update is never older than the session.
Updated(age) == IF age = "stale" THEN "due" ELSE age

-----------------------------------------------------------------------------
\* The URL the provider redirects to.  Each source names the server that
\* answers it, or is absent: the configured redirect, the public base URL,
\* the request's own host, the base URL; the built-in default is the
\* listener's address.

DeriveRequestCallback(h) == IF h.forwarded # "none" THEN h.forwarded
                            ELSE IF h.origin # "none" THEN h.origin ELSE h.host

ResolveRedirectUrl(env, h) ==
  IF env.redirect # "none" THEN env.redirect
  ELSE IF env.public # "none" THEN env.public
  ELSE IF DeriveRequestCallback(h) # "none" THEN DeriveRequestCallback(h)
  ELSE IF env.base # "none" THEN env.base ELSE "listener"

-----------------------------------------------------------------------------
\* The session table.

MarkExpired(s) ==
  IF s.age # "fresh" /\ s.status \in Pending
  THEN [s EXCEPT !.status = "expired", !.age = Updated(@)]
  ELSE s

CleanupSessionsDropsFirst(table) ==
  [s \in {x \in DOMAIN table : table[x].age # "stale"} |-> MarkExpired(table[s])]

CleanupSessions(table) ==
  LET marked == [s \in DOMAIN table |-> MarkExpired(table[s])]
  IN  [s \in {x \in DOMAIN table : marked[x].age # "stale"} |-> marked[s]]

\* Cleanup, then an update of one session that survived it.
UpdateSession(s, status) ==
  LET table == CleanupSessions(login)
  IN  IF s \in DOMAIN table
      THEN [table EXCEPT ![s].status = status, ![s].age = Updated(@)]
      ELSE table

FindByState(table, s) == {x \in DOMAIN table : x = s}

-----------------------------------------------------------------------------
\* Creating a session: the listener is started before the session exists.

StartListener(s) ==
  /\ s \notin DOMAIN login \cup DOMAIN opening
  /\ IF listenMode # "on_demand"
     THEN /\ opening' = [x \in DOMAIN opening \cup {s} |-> IF x = s THEN "insert" ELSE opening[x]]
          /\ UNCHANGED listenerLock
     ELSE /\ listenerLock = NoHolder
          /\ IF listener # 0
             THEN /\ opening' = [x \in DOMAIN opening \cup {s} |->
                                   IF x = s THEN "insert" ELSE opening[x]]
                  /\ UNCHANGED listenerLock
             ELSE /\ opening' = [x \in DOMAIN opening \cup {s} |->
                                   IF x = s THEN "bind" ELSE opening[x]]
                  /\ listenerLock' = s
  /\ UNCHANGED <<listenMode, login, listener, listenersMade, flow>>

BindListener(s) ==
  /\ s \in DOMAIN opening /\ opening[s] = "bind" /\ listenersMade < MaxListeners
  /\ listenersMade' = listenersMade + 1
  /\ listener' = listenersMade'
  /\ listenerLock' = NoHolder
  /\ opening' = [opening EXCEPT ![s] = "insert"]
  /\ UNCHANGED <<listenMode, login, flow>>

\* The address is taken: the request is refused and no session exists.
BindFails(s) ==
  /\ s \in DOMAIN opening /\ opening[s] = "bind"
  /\ listenerLock' = NoHolder
  /\ opening' = [x \in DOMAIN opening \ {s} |-> opening[x]]
  /\ UNCHANGED <<listenMode, login, listener, listenersMade, flow>>

CreateSession(s, env, h) ==
  /\ s \in DOMAIN opening /\ opening[s] = "insert"
  /\ LET table == CleanupSessions(login)
         row == [status |-> "waiting_callback", age |-> "fresh",
                 callback |-> ResolveRedirectUrl(env, h)]
     IN  login' = [x \in DOMAIN table \cup {s} |-> IF x = s THEN row ELSE table[x]]
  /\ opening' = [x \in DOMAIN opening \ {s} |-> opening[x]]
  /\ UNCHANGED <<listenMode, listener, listenersMade, listenerLock, flow>>

GetSession ==
  /\ login' = CleanupSessions(login)
  /\ login' # login
  /\ UNCHANGED <<listenMode, opening, listener, listenersMade, listenerLock, flow>>

-----------------------------------------------------------------------------
FlowAt(f, pc) == flow[f].pc = pc
FlowGoto(f, pc) == flow' = [flow EXCEPT ![f].pc = pc]
FlowReturn(f) == flow' = [flow EXCEPT ![f] = [NoFlow EXCEPT !.pc = "done"]]

\* A callback: the first locked section of the flow.

EnterFlow(f, s, via, cb) ==
  /\ flow[f].pc = "idle"
  /\ LET table == CleanupSessions(login)
         started == [NoFlow EXCEPT !.session = s, !.listener = via]
     IN  IF s \notin DOMAIN table \/ cb \in {"no_code", "other_state"}
         THEN login' = table /\ FlowReturn(f)
         ELSE IF table[s].status = "expired"
         THEN login' = table /\ FlowReturn(f)
         ELSE IF cb \in {"access_denied", "provider_error"}
         THEN /\ login' = UpdateSession(s, "failed")
              /\ flow' = [flow EXCEPT ![f] = [started EXCEPT !.pc = "stop"]]
         ELSE /\ login' = UpdateSession(s, "exchanging")
              /\ flow' = [flow EXCEPT ![f] = [started EXCEPT !.pc = "exchange"]]
  /\ UNCHANGED <<listenMode, opening, listener, listenersMade, listenerLock>>

\* The provider redirects the browser to the session's callback URL; the
\* session is found by its state.
HandleCallback(f, s, cb) ==
  /\ s \in DOMAIN login
  /\ FindByState(login, s) # {}
  /\ cb # "other_state"
  /\ \/ /\ login[s].callback = "main"
        /\ EnterFlow(f, s, 0, cb)
     \/ /\ login[s].callback = "listener" /\ listenMode = "always"
        /\ EnterFlow(f, s, 0, cb)
     \/ /\ login[s].callback = "listener" /\ listenMode = "on_demand" /\ listener # 0
        /\ EnterFlow(f, s, listener, cb)

\* An administrator pastes the redirect URL.
SubmitCallback(f, s, cb) == s \in LoginSessions /\ EnterFlow(f, s, 0, cb)

-----------------------------------------------------------------------------
\* The steps of the flow.

\* The outcome is written to the session, if it still exists.
RecordOutcome(f, status) ==
  LET s == flow[f].session
  IN  /\ login' = UpdateSession(s, status)
      /\ IF s \in DOMAIN login' THEN FlowGoto(f, "stop") ELSE FlowReturn(f)

ExchangeFails(f) ==
  /\ FlowAt(f, "exchange")
  /\ RecordOutcome(f, "failed")
  /\ UNCHANGED <<listenMode, opening, listener, listenersMade, listenerLock>>

\* The provider's answer has no refresh token: the session stays as it is.
ExchangeWithoutRefreshToken(f) ==
  /\ FlowAt(f, "exchange")
  /\ FlowReturn(f)
  /\ UNCHANGED <<listenMode, login, opening, listener, listenersMade, listenerLock>>

ExchangeSucceeds(f) ==
  /\ FlowAt(f, "exchange")
  /\ LET table == CleanupSessions(login)  s == flow[f].session
     IN  login' = IF s \in DOMAIN table
                  THEN [table EXCEPT ![s].status = "importing", ![s].age = Updated(@)]
                  ELSE table
  /\ FlowGoto(f, "import")
  /\ UNCHANGED <<listenMode, opening, listener, listenersMade, listenerLock>>

ImportFails(f) ==
  /\ FlowAt(f, "import")
  /\ RecordOutcome(f, "failed")
  /\ UNCHANGED <<listenMode, opening, listener, listenersMade, listenerLock>>

ImportAccount(f) ==
  /\ FlowAt(f, "import")
  /\ FlowGoto(f, "record")
  /\ UNCHANGED <<listenMode, login, opening, listener, listenersMade, listenerLock>>

RecordCompleted(f) ==
  /\ FlowAt(f, "record")
  /\ RecordOutcome(f, "completed")
  /\ UNCHANGED <<listenMode, opening, listener, listenersMade, listenerLock>>

\* Stopping the listener: no session pending, take it out, wait for its task.
CheckIdle(f) ==
  /\ FlowAt(f, "stop")
  /\ IF listenMode # "on_demand"
     THEN FlowReturn(f) /\ UNCHANGED login
     ELSE /\ login' = CleanupSessions(login)
          /\ IF \E s \in DOMAIN login' : login'[s].status \in Pending
             THEN FlowReturn(f) ELSE FlowGoto(f, "take")
  /\ UNCHANGED <<listenMode, opening, listener, listenersMade, listenerLock>>

TakeListener(f) ==
  /\ FlowAt(f, "take") /\ listenerLock = NoHolder
  /\ listener' = 0
  /\ IF listener = 0 THEN FlowReturn(f)
     ELSE flow' = [flow EXCEPT ![f].joins = listener, ![f].pc = "join"]
  /\ UNCHANGED <<listenMode, login, opening, listenersMade, listenerLock>>

\* The listener's task ends when the last of its connections is answered.
JoinListener(f) ==
  /\ FlowAt(f, "join")
  /\ \A g \in Flows : flow[g].listener = flow[f].joins => FlowAt(g, "done")
  /\ FlowReturn(f)
  /\ listenerLock' = IF listenerLock = f THEN NoHolder ELSE listenerLock
  /\ UNCHANGED <<listenMode, login, opening, listener, listenersMade>>

\* The client disconnects: its handler is dropped where it waits.
HangUp(f) ==
  /\ flow[f].pc \in {"exchange", "import", "take", "join"}
  /\ FlowReturn(f)
  /\ listenerLock' = IF listenerLock = f THEN NoHolder ELSE listenerLock
  /\ UNCHANGED <<listenMode, login, opening, listener, listenersMade>>

AgeSession(s) ==
  /\ s \in DOMAIN login /\ login[s].age # "stale"
  /\ login' = [login EXCEPT ![s].age = IF @ = "fresh" THEN "due" ELSE "stale"]
  /\ UNCHANGED <<listenMode, opening, listener, listenersMade, listenerLock, flow>>

-----------------------------------------------------------------------------
\* What may be sent to the handlers.

Environments == [redirect : CallbackServers, public : {"none"}, base : CallbackServers]
RequestHosts == [forwarded : {"none"}, origin : {"none"}, host : CallbackServers]

FlowStep(f) ==
  \/ ExchangeFails(f) \/ ExchangeWithoutRefreshToken(f) \/ ExchangeSucceeds(f)
  \/ ImportFails(f) \/ ImportAccount(f) \/ RecordCompleted(f)
  \/ CheckIdle(f) \/ TakeListener(f) \/ JoinListener(f)

OpeningStep(s) ==
  \/ BindListener(s) \/ BindFails(s)
  \/ \E env \in Environments, h \in RequestHosts : CreateSession(s, env, h)

LoginInit ==
  /\ listenMode \in {"always", "on_demand", "off"}
  /\ login = <<>> /\ opening = <<>>
  /\ listener = 0 /\ listenersMade = 0 /\ listenerLock = NoHolder
  /\ flow = [f \in Flows |-> NoFlow]

LoginNext ==
  \/ \E s \in LoginSessions : StartListener(s) \/ OpeningStep(s) \/ AgeSession(s)
  \/ \E f \in Flows, s \in LoginSessions, cb \in Callbacks :
       HandleCallback(f, s, cb) \/ SubmitCallback(f, s, cb)
  \/ \E f \in Flows : FlowStep(f) \/ HangUp(f)
  \/ GetSession

LoginSpec == LoginInit /\ [][LoginNext]_loginVars

-----------------------------------------------------------------------------
\* Every locked section sweeps the table.  A session that is dropped was
\* settled, and stayed readable for the retention time after that: one still
\* pending is first marked expired (cleanup_codex_oauth_login_sessions).
NoPendingSessionIsDropped ==
  [][\A s \in DOMAIN login \ DOMAIN login' :
        login[s].status \notin Pending /\ login[s].age = "stale"]_loginVars

=============================================================================
