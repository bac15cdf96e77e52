--------------------------- MODULE EditionMigration ---------------------------
(***************************************************************************)
(* The edition-migrate tool: it exports an installation (personal on       *)
(* SQLite, team or business on Postgres) to a package file, shrinks a      *)
(* package to one tenant, and imports a package into an empty database.    *)
(*                                                                         *)
(* An installation's control plane is a set of rows: coll names the        *)
(* collection, of the row it belongs to, v what the row says.  A SQLite    *)
(* store keeps all of them in one document; a Postgres store has a table   *)
(* per collection, read and written one after another.  The source goes on *)
(* serving while it is exported.  Commands are run one at a time; any of   *)
(* them may fail or be killed at any step.                                 *)
(***************************************************************************)
EXTENDS Naturals, FiniteSets, Sequences

CONSTANTS MigrationWorlds, \* [from, to, control, logs, users, package]
          MigrationTenants, MigrationKeys,
          NoPackage,       \* no file, or one that does not decode
          MaxSourceEdits,  \* edits of the source
          MaxCommands      \* commands the operator runs

VARIABLES source,   \* the installation that is exported
          package,  \* the package file
          target,   \* the database imported into
          command,  \* the running command
          commands, \* commands run so far
          sourceEdits,
          origins,  \* history: the packages that wrote to the target
          outcomes  \* history: [package, shape, fault, ok] of every import that ended

migVars == <<source, package, target, command, commands, sourceEdits, origins, outcomes>>

Row(coll, id, of, v) == [coll |-> coll, id |-> id, of |-> of, v |-> v]
Of(rows, colls) == {r \in rows : r.coll \in colls}
Ids(rows, coll) == {r.id : r \in Of(rows, {coll})}

Personal(edition) == edition = "personal"
SchemaVersion == 2

SettingNames == {"model_routing", "claude_code", "proxy_pool", "error_learning", "snapshot"}
\* A Postgres database is created with a row for each of the settings.
SeededSettings == {Row(s, "singleton", "none", "default") : s \in SettingNames}

\* The collections of a bundle, in the order a Postgres export reads them.
MigrationOrder ==
    <<"tenants", "api_keys", "accounts", "policies", "profiles", "model_policies",
      "model_routing", "claude_code", "proxy_pool", "proxy_nodes", "error_learning",
      "templates", "overrides", "plan_versions", "tokens", "providers", "credentials",
      "session_profiles", "health", "model_support", "snapshot">>
Bundled == {MigrationOrder[i] : i \in 1..Len(MigrationOrder)}

\* The row a foreign key of the Postgres schema asks for.
Parent(coll) ==
    IF coll \in {"api_keys", "policies"} THEN "tenants"
    ELSE IF coll = "tokens" THEN "api_keys"
    ELSE IF coll \in {"credentials", "session_profiles", "health", "model_support", "providers"}
         THEN "accounts"
    ELSE "none"
HasParent(r, rows) == Parent(r.coll) = "none" \/ r.of \in Ids(rows, Parent(r.coll))

(***************************************************************************)
(* Preflight, shrinking and the usage part of a package                    *)
(***************************************************************************)

PreflightPackage(p, edition) ==
    /\ p.schema = SchemaVersion
    /\ Personal(edition) => Cardinality(Of(p.control, {"tenants"})) <= 1

ShrinkPackageToTenant(p, t) ==
    LET keys == {r \in Of(p.control, {"api_keys"}) : r.of = t}
        mine(r) == \/ r.coll \notin {"tenants", "api_keys", "tokens", "policies"}
                   \/ r.coll = "tenants" /\ r.id = t
                   \/ r \in keys
                   \/ r.coll = "tokens" /\ r.of \in {k.id : k \in keys}
                   \/ r.coll = "policies" /\ r.of = t
    IN  [p EXCEPT !.control = {r \in p.control : mine(r)},
                  !.logs = {l \in p.logs : l.tenant = t \/ l.key \in {k.id : k \in keys}},
                  !.archive = {u \in p.archive : u.of = t}]

\* aggregate_by_hour: requests counted per account, per tenant and key, and
\* per tenant and account, each by the hour.
HourlyRows(logs) ==
    LET counted(of(_)) == {[of |-> of(l), n |-> Cardinality({m \in logs : of(m) = of(l)})] :
                           l \in logs}
        account(l) == <<"account", l.account, l.hour>>
        tenantKey(l) == <<"tenant_key", l.tenant, l.key, l.hour>>
        tenantAccount(l) == <<"tenant_account", l.tenant, l.account, l.hour>>
    IN  counted(account) \cup counted(tenantKey) \cup counted(tenantAccount)

(***************************************************************************)
(* Export                                                                  *)
(***************************************************************************)

IdleCommand == [name |-> "idle", at |-> 0, pkg |-> NoPackage, tx |-> {}, fresh |-> FALSE]
Starts(c) == /\ command.name = "idle" /\ commands < MaxCommands
             /\ commands' = commands + 1
             /\ command' = c

EmptyPackage ==
    [schema |-> SchemaVersion, from |-> source.edition, control |-> {}, logs |-> {},
     archive |-> {}, quiet |-> TRUE]

StartExport ==
    /\ Starts([IdleCommand EXCEPT !.name = "export", !.at = 1, !.pkg = EmptyPackage])
    /\ UNCHANGED <<source, package, target, sourceEdits, origins, outcomes>>

\* The whole document at once: the tool has read it into a store of its own.
SqliteStateToBundle ==
    /\ command.name = "export" /\ command.at = 1 /\ Personal(source.edition)
    /\ command' = [command EXCEPT !.at = Len(MigrationOrder) + 1,
                                  !.pkg.control = Of(source.control, Bundled)]

\* One query per collection, outside of any transaction.
ExportPostgresTable ==
    /\ command.name = "export" /\ ~ Personal(source.edition)
    /\ command.at <= Len(MigrationOrder)
    /\ command' = [command EXCEPT !.at = @ + 1,
                     !.pkg.control = @ \cup Of(source.control, {MigrationOrder[command.at]})]

\* From Postgres, the rows that no other edition runs on: the tenants'
\* logins, and for business their credit.
ArchiveRows(coll) == {u \in source.users : u.coll = coll}
ExportArchiveManifest ==
    IF Personal(source.edition) THEN {}
    ELSE ArchiveRows("users") \cup (IF source.edition = "business" THEN ArchiveRows("credit") ELSE {})

ExportUsage ==
    /\ command.name = "export" /\ command.at = Len(MigrationOrder) + 1
    /\ command' = [command EXCEPT !.at = @ + 1, !.pkg.logs = source.logs,
                                  !.pkg.archive = ExportArchiveManifest]

ExportStep ==
    /\ SqliteStateToBundle \/ ExportPostgresTable \/ ExportUsage
    /\ UNCHANGED <<source, package, target, commands, sourceEdits, origins, outcomes>>

WritePackageToFile ==
    /\ command.name = "export" /\ command.at = Len(MigrationOrder) + 2
    /\ package' \in {command.pkg, NoPackage}
    /\ command' = IdleCommand
    /\ UNCHANGED <<source, target, commands, sourceEdits, origins, outcomes>>

\* The shrink command reads the file, keeps one tenant's rows, runs the
\* preflight for the personal edition and writes a file.
ShrinkPackage(t) ==
    /\ package # NoPackage /\ t \in Ids(package.control, "tenants")
    /\ LET shrunk == ShrinkPackageToTenant(package, t) IN
       /\ PreflightPackage(shrunk, "personal")
       /\ shrunk # package
       /\ package' \in {shrunk, NoPackage}
    /\ Starts(IdleCommand)
    /\ UNCHANGED <<source, target, sourceEdits, origins, outcomes>>

(***************************************************************************)
(* Import: the control plane first, then the request logs                  *)
(***************************************************************************)

Ended(ok, fault) ==
    /\ command' = IdleCommand
    /\ outcomes' = outcomes \cup
         {[pkg |-> command.pkg, fresh |-> command.fresh, ok |-> ok, fault |-> fault]}

ImportGoesOn(next) == command' = [command EXCEPT !.at = next] /\ UNCHANGED outcomes

\* The file is read and passes the preflight; otherwise the command ends here.
StartImport ==
    /\ package # NoPackage
    /\ PreflightPackage(package, target.edition)
    /\ Starts([IdleCommand EXCEPT !.name = "import", !.at = "check", !.pkg = package,
                                  !.fresh = target.control \subseteq SeededSettings /\ target.logs = {}])
    /\ UNCHANGED <<source, package, target, sourceEdits, origins, outcomes>>

Importing(at) == command.name = "import" /\ command.at = at
Writes == origins' = origins \cup {command.pkg}

EnsureSqliteLogsEmpty == target.logs = {}
EnsureSqliteTargetEmpty == target.control = {}
EnsurePostgresTargetEmpty ==
    Of(target.control, {"tenants", "api_keys", "accounts", "profiles", "model_policies",
                        "proxy_nodes"}) = {}

\* Connecting to a Postgres target creates its schema and seeds the settings.
CheckTarget ==
    /\ Importing("check")
    /\ IF Personal(target.edition)
       THEN /\ UNCHANGED target
            /\ IF EnsureSqliteTargetEmpty THEN ImportGoesOn("state") ELSE Ended(FALSE, FALSE)
       ELSE LET seeded == target.control \cup
                    {s \in SeededSettings : s.coll \notin {r.coll : r \in target.control}}
            IN  /\ target' = [target EXCEPT !.control = seeded]
                /\ IF EnsurePostgresTargetEmpty
                   THEN /\ command' = [command EXCEPT !.at = "tenancy", !.tx = seeded]
                        /\ UNCHANGED outcomes
                   ELSE Ended(FALSE, FALSE)
    /\ UNCHANGED origins

\* The document a SQLite store loads: settings the bundle lacks take their
\* defaults; the vault, the rate-limit caches and their jobs start empty.
BundleToSqliteState(rows) ==
    rows \cup {s \in SeededSettings : s.coll \notin {r.coll : r \in rows}}

ImportSqliteState ==
    /\ Importing("state")
    /\ target' = [target EXCEPT !.control = BundleToSqliteState(command.pkg.control)]
    /\ Writes /\ ImportGoesOn("usage")

\* An INSERT fails on a row that is there, or on one whose parent is not.
Inserts(colls, next) ==
    LET rows == Of(command.pkg.control, colls)
        keys == {<<r.coll, r.id>> : r \in command.tx}
    IN  IF \A r \in rows : <<r.coll, r.id>> \notin keys /\ HasParent(r, command.tx \cup rows)
        THEN command' = [command EXCEPT !.at = next, !.tx = @ \cup rows] /\ UNCHANGED outcomes
        ELSE Ended(FALSE, FALSE)

ImportTenants == Importing("tenancy") /\ Inserts({"tenants"}, "keys")
ImportKeys == Importing("keys") /\ Inserts({"api_keys", "tokens"}, "accounts")

\* The provider is a column of the account's row; one without is a legacy one.
ImportAccounts ==
    /\ Importing("accounts")
    /\ LET accounts == Of(command.pkg.control, {"accounts"})
           known == {r \in Of(command.pkg.control, {"providers"}) : r.of \in {a.id : a \in accounts}}
           legacy == {Row("providers", a.id, a.id, "legacy_bearer") :
                      a \in {x \in accounts : x.id \notin {r.of : r \in known}}}
       IN  command' = [command EXCEPT !.at = "credentials",
                                      !.tx = @ \cup accounts \cup known \cup legacy]
    /\ UNCHANGED outcomes

ImportCredentials == Importing("credentials") /\ Inserts({"credentials", "session_profiles"}, "health")
ImportHealth == Importing("health") /\ Inserts({"health", "model_support"}, "routing")
ImportRouting == Importing("routing") /\ Inserts({"policies", "profiles", "model_policies"}, "settings")

\* UPDATEs of the seeded rows. The Claude Code settings have none.
ImportSettings ==
    /\ Importing("settings")
    /\ LET given == Of(command.pkg.control, SettingNames \ {"claude_code"})
       IN  command' = [command EXCEPT !.at = "errors",
              !.tx = {r \in @ : r.coll \notin {g.coll : g \in given}} \cup given]
    /\ UNCHANGED outcomes

ImportErrorsAndNodes ==
    Importing("errors") /\ Inserts({"proxy_nodes", "templates", "overrides", "plan_versions"}, "commit")

CommitControlPlane ==
    /\ Importing("commit")
    /\ target' = [target EXCEPT !.control = command.tx]
    /\ command' = [command EXCEPT !.at = "usage", !.tx = {}]
    /\ Writes /\ UNCHANGED outcomes

\* SQLite: rows are inserted one by one, each for good.
ImportSqliteUsage ==
    /\ Importing("rows")
    /\ IF target.logs = command.pkg.logs
       THEN Ended(TRUE, FALSE) /\ UNCHANGED target
       ELSE /\ \E l \in command.pkg.logs \ target.logs : target' = [target EXCEPT !.logs = @ \cup {l}]
            /\ UNCHANGED <<command, outcomes>>
    /\ UNCHANGED origins

\* Postgres: the rows and the hourly counts made of them, in one transaction.
ImportPostgresUsage ==
    /\ target' = [target EXCEPT !.logs = command.pkg.logs, !.hourly = HourlyRows(command.pkg.logs)]
    /\ Ended(TRUE, FALSE)

CheckUsageTarget ==
    /\ Importing("usage")
    /\ IF target.logs # {} THEN Ended(FALSE, FALSE) /\ UNCHANGED target
       ELSE IF Personal(target.edition) THEN ImportGoesOn("rows") /\ UNCHANGED target
       ELSE ImportPostgresUsage
    /\ UNCHANGED origins

ImportStep ==
    /\ \/ CheckTarget \/ ImportSqliteState \/ CommitControlPlane
       \/ CheckUsageTarget \/ ImportSqliteUsage
       \/ /\ \/ ImportTenants \/ ImportKeys \/ ImportAccounts \/ ImportCredentials
             \/ ImportHealth \/ ImportRouting \/ ImportSettings \/ ImportErrorsAndNodes
          /\ UNCHANGED <<target, origins>>
    /\ UNCHANGED <<source, package, commands, sourceEdits>>

\* A query fails, or the tool is killed: an open transaction is rolled back.
CommandFails ==
    /\ command.name # "idle"
    /\ IF command.name = "import" THEN Ended(FALSE, TRUE)
       ELSE command' = IdleCommand /\ UNCHANGED outcomes
    /\ UNCHANGED <<source, package, target, commands, sourceEdits, origins>>

(***************************************************************************)
(* The source goes on serving                                              *)
(***************************************************************************)

EditSourceRows(control, logs) ==
    /\ sourceEdits < MaxSourceEdits /\ sourceEdits' = sourceEdits + 1
    /\ source' = [source EXCEPT !.control = control, !.logs = logs]
    /\ command' = IF command.name = "export" THEN [command EXCEPT !.pkg.quiet = FALSE] ELSE command
    /\ UNCHANGED <<package, target, commands, origins, outcomes>>

CreateTenant(t) ==
    /\ ~ Personal(source.edition) /\ t \notin Ids(source.control, "tenants")
    /\ EditSourceRows(source.control \cup {Row("tenants", t, "none", "row")}, source.logs)

CreateApiKey(k, t) ==
    /\ t \in Ids(source.control, "tenants") /\ k \notin Ids(source.control, "api_keys")
    /\ EditSourceRows(source.control \cup {Row("api_keys", k, t, "row"), Row("tokens", k, k, "row")}, source.logs)

\* An admin deletes an account: what belongs to it goes with it.
DeleteAccount(a) ==
    /\ a \in Ids(source.control, "accounts")
    /\ EditSourceRows({r \in source.control : ~ (r.coll = "accounts" /\ r.id = a)
                                  /\ ~ (Parent(r.coll) = "accounts" /\ r.of = a)}, source.logs)

ServeRequest(l) == l \notin source.logs /\ EditSourceRows(source.control, source.logs \cup {l})

EditSource ==
    \/ \E t \in MigrationTenants : CreateTenant(t)
    \/ \E t \in MigrationTenants : \E k \in MigrationKeys : CreateApiKey(k, t)
    \/ \E a \in Ids(source.control, "accounts") : DeleteAccount(a)
    \/ \E k \in Of(source.control, {"api_keys"}) :
          ServeRequest([id |-> "late", tenant |-> k.of, key |-> k.id, account |-> "a1", hour |-> 2])

MigInit ==
    \E w \in MigrationWorlds :
        /\ source = [edition |-> w.from, control |-> w.control, logs |-> w.logs, users |-> w.users]
        /\ target = [edition |-> w.to, control |-> {}, logs |-> {}, hourly |-> {}]
        /\ package = w.package
        /\ command = IdleCommand /\ commands = 0 /\ sourceEdits = 0
        /\ origins = {} /\ outcomes = {}

MigNext ==
    \/ StartExport \/ ExportStep \/ WritePackageToFile
    \/ \E t \in MigrationTenants : ShrinkPackage(t)
    \/ StartImport \/ ImportStep \/ CommandFails \/ EditSource

MigSpec == MigInit /\ [][MigNext]_migVars

(***************************************************************************)
(* Properties                                                              *)
(***************************************************************************)

\* Rows of two packages never meet in one database: whatever import failed
\* half way, and whatever was exported again since, the next import either
\* finds the target empty or leaves it as it is.
TargetHoldsOnePackage == Cardinality(origins) <= 1

=============================================================================
