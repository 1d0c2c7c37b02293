------------------------------- MODULE Access -------------------------------
(***************************************************************************)
(* Who may do what: auth/, organizations/, roles/ and security/sessions.   *)
(***************************************************************************)
EXTENDS Handlers, Endpoints

Users == {1, 2}

-----------------------------------------------------------------------------
(***************************************************************************)
(* The permissions and the system roles that prisma/seed.ts puts into the  *)
(* database.  A permission is an area and an action: "sales.orders.view"   *)
(* is <<"sales.orders", "view">>.                                          *)
(***************************************************************************)

Of(area, actions) == {area} \X actions

AdministrationPermissions ==
  UNION {{"organizations", "users", "roles", "master-data.currencies",
          "master-data.locations", "master-data.taxes"}
            \X {"view", "manage"},
         Of("audit", {"view"}),
         Of("master-data.numbering", {"view", "manage", "generate"})}

StockPermissions ==
  UNION {{"catalog.categories", "catalog.units", "catalog.items", "catalog.variants",
          "catalog.pricing", "inventory.batches", "inventory.serials",
          "inventory.transfers", "purchasing.suppliers", "purchasing.costs"}
            \X {"view", "manage"},
         {"inventory.balances", "inventory.movements"} \X {"view"},
         Of("inventory.adjustments", {"manage"}),
         Of("purchasing.orders", {"view", "manage", "submit", "approve", "cancel"}),
         Of("purchasing.receipts", {"view", "manage", "post", "cancel"})}

SalesPermissions ==
  UNION {{"sales.customers", "sales.customer-groups", "sales.customer-pricing"}
            \X {"view", "manage"},
         Of("sales.quotations",
           {"view", "manage", "send", "accept", "reject", "cancel"}),
         Of("sales.orders",
           {"view", "manage", "submit", "approve", "allocate", "confirm", "cancel",
            "close"}),
         Of("sales.reservations", {"view", "manage", "release"}),
         Of("sales.deliveries",
           {"view", "manage", "pick", "dispatch", "execute", "ship", "deliver",
            "cancel"}),
         {"sales.fulfillment", "sales.reports"} \X {"view"}}

ShippingPermissions ==
  UNION {{"shipping", "shipping.carriers"} \X {"view", "manage"},
         Of("shipping.shipments",
           {"view", "manage", "prepare", "assign", "dispatch", "track", "deliver",
            "return", "cancel", "close"}),
         Of("shipping.reports", {"view"})}

WarehousePermissions ==
  UNION {{"warehouse", "warehouse.locations", "warehouse.tasks",
          "warehouse.replenishment"}
            \X {"view", "manage"},
         {"warehouse.putaway", "warehouse.picking"} \X {"view", "manage", "execute"},
         {"warehouse.waves", "warehouse.quarantine"} \X {"view", "manage", "release"},
         Of("warehouse.transfers", {"view", "manage", "approve", "execute"}),
         Of("warehouse.counts", {"view", "manage", "review", "post"}),
         Of("warehouse.adjustments", {"view", "approve", "post"}),
         Of("warehouse.reports", {"view"})}

QualityPermissions ==
  UNION {{"quality.configuration", "quality.sampling"} \X {"view", "manage"},
         Of("quality.inspection-plans", {"view", "manage", "approve"}),
         Of("quality.inspections", {"view", "manage", "execute", "decide"}),
         Of("quality.holds", {"view", "manage", "release"}),
         Of("quality.non-conformance",
           {"view", "manage", "contain", "disposition", "close"}),
         Of("quality.capa", {"view", "manage", "verify", "close"}),
         Of("quality.customer-issues", {"view", "manage", "resolve"}),
         {"quality.supplier-quality", "quality.customer-quality", "quality.reports"}
            \X {"view"}}

ReturnsPermissions ==
  UNION {Of("returns",
           {"view", "manage", "submit", "review", "authorize", "reject", "cancel",
            "receive", "credit-note", "refund", "debit-note", "replace", "close",
            "void"}),
         Of("returns.inspection", {"view", "request"}),
         Of("returns.disposition", {"view", "manage"}),
         Of("returns.reports", {"view"})}

AccountingPermissions ==
  UNION {Of("accounting.accounts", {"view", "manage"}),
         Of("accounting.periods", {"view", "manage", "close", "reopen", "adjust"}),
         Of("accounting.journals", {"view", "manage", "post", "reverse"}),
         {"accounting.reports", "accounting.reports.trial-balance",
          "accounting.reports.general-ledger", "accounting.reports.profit-loss",
          "accounting.reports.balance-sheet", "accounting.reports.cash-flow",
          "accounting.reports.kpis", "accounting.reports.reconciliation"}
            \X {"view"}}

ServicePermissions ==
  UNION {{"service.customer-assets", "service.labor"} \X {"view", "manage"},
         Of("service.warranty", {"view", "manage", "validate"}),
         Of("service.requests", {"view", "manage", "triage"}),
         Of("service.tickets", {"view", "manage", "assign", "diagnose"}),
         Of("service.estimates", {"view", "manage", "approve"}),
         Of("service.orders",
           {"view", "manage", "release", "execute", "complete", "handover", "cancel"}),
         Of("service.parts", {"view", "reserve", "issue", "return"}),
         Of("service.quality", {"request"}),
         Of("service.billing", {"view", "invoice"}),
         Of("service.reports", {"view", "financial", "sensitive"})}

CrmPermissions ==
  UNION {Of("crm.leads", {"view", "manage", "qualify", "convert", "close"}),
         Of("crm.contacts", {"view", "manage"}),
         Of("crm.opportunities", {"view", "manage", "assign", "stage", "close"}),
         Of("crm.activities", {"view", "manage", "complete"}),
         Of("crm.quotations",
           {"view", "manage", "submit", "approve", "send", "accept", "convert"}),
         {"crm.pipeline", "crm.customer-360", "crm.reports"} \X {"view"}}

OperationsPermissions ==
  UNION {{"system.jobs", "security.policies", "security.incidents", "operations.jobs",
          "operations.incidents", "operations.alerts"}
            \X {"view", "manage"},
         Of("system.benchmarks", {"run"}),
         {"security", "operations"} \X {"view", "admin"},
         {"security.events", "security.reports", "operations.health",
          "operations.metrics", "operations.errors", "operations.cache",
          "operations.security", "operations.slo", "operations.reports"}
            \X {"view"},
         Of("security.sessions", {"view", "revoke"}),
         Of("security.audit", {"export"})}

AutomationPermissions ==
  UNION {{"integrations.providers", "integrations.events", "integrations.health",
          "integrations.audit", "workflows.reports"}
            \X {"view"},
         {"integrations.connections", "integrations.apikeys", "integrations.webhooks",
          "integrations.inbound", "workflows.schedules", "workflows.executions"}
            \X {"view", "manage"},
         Of("integrations.credentials", {"manage"}),
         Of("integrations", {"admin"}),
         Of("workflows",
           {"view", "manage", "create", "update", "publish", "retire", "execute",
            "cancel", "retry", "admin"}),
         Of("workflows.rules", {"view", "manage", "test"}),
         Of("workflows.approvals", {"view", "approve", "reject", "delegate"})}

PlatformPermissions ==
  UNION {Of("developer", {"view", "admin"}),
         Of("developer.api", {"view", "explorer"}),
         {"developer.api.usage", "developer.api.errors", "developer.api.docs",
          "developer.webhooks", "developer.versions"}
            \X {"view"},
         Of("developer.api.keys", {"view", "manage"}),
         Of("developer.usage", {"export"}),
         Of("billing", {"read", "admin"}),
         {"billing.plans", "billing.subscription", "billing.invoices"}
            \X {"read", "manage"},
         {"billing.payments", "billing.entitlements", "billing.reports"} \X {"read"},
         Of("billing.usage", {"read", "export"}),
         {"billing.credits", "billing.discounts", "billing.providers"} \X {"manage"}}

NotificationPermissions ==
  UNION {Of("notifications", {"read", "manage", "send", "admin"}),
         {"notifications.templates", "notifications.preferences",
          "notifications.providers", "notifications.deliveries",
          "notifications.schedules", "search.history", "search.favorites",
          "search.alerts"}
            \X {"read", "manage"},
         {"notifications.reports", "search.analytics"} \X {"read"},
         Of("search", {"read", "execute", "admin"}),
         Of("search.views", {"read", "manage", "share"})}

DataPermissions ==
  UNION {{"analytics.definitions", "data_operations.operations",
          "data_operations.audit"}
            \X {"view"},
         {"analytics.query", "data_operations.export"} \X {"execute"},
         Of("analytics.reports",
           {"view", "create", "update", "delete", "share", "export"}),
         {"analytics.schedules", "data_operations.templates"} \X {"manage"},
         Of("analytics.dashboards", {"view", "manage"}),
         {"analytics", "data_operations"} \X {"admin"},
         Of("data_operations.import", {"preview", "execute"}),
         Of("data_operations.jobs", {"view", "cancel"}),
         Of("data_operations.restricted_fields", {"export"})}

SettlementPermissions ==
  UNION {{"ap.suppliers", "ap.matching"} \X {"view"},
         Of("ap.invoices",
           {"view", "manage", "submit", "approve", "post", "cancel", "void"}),
         {"ap.account-mapping", "finance.settlements"} \X {"view", "manage"},
         Of("sales.invoices", {"view", "manage", "issue", "void"}),
         Of("sales.receivables", {"view", "aging"}),
         Of("finance.payments", {"view", "manage", "post", "allocate", "void"}),
         {"finance.receipts", "finance.supplier-payments"}
            \X {"view", "manage", "post"}}

TreasuryPermissions ==
  UNION {Of("banking.accounts", {"view", "manage"}),
         Of("banking.statements", {"view", "import", "manage"}),
         Of("banking.reconciliation", {"view", "manage", "match", "complete"}),
         Of("banking.adjustments", {"manage"}),
         {"accounting.reports", "accounting.trial-balance",
          "accounting.general-ledger", "accounting.balance-sheet",
          "accounting.income-statement", "accounting.cash-flow"}
            \X {"view"},
         Of("sales.credit-notes",
           {"view", "manage", "approve", "post", "apply", "void"}),
         Of("sales.refunds", {"view", "manage", "post", "void"})}

TradePermissions ==
  UNION {Of("purchasing.debit-notes",
           {"view", "manage", "approve", "post", "apply", "void"}),
         Of("purchasing.refunds", {"view", "manage", "post", "void"}),
         {"inventory.valuation", "inventory.cogs", "tax.calculation", "tax.reports"}
            \X {"view"},
         {"inventory.costing", "tax.codes", "tax.rates", "tax.rules",
          "tax.jurisdictions"}
            \X {"view", "manage"},
         Of("tax.periods", {"view", "manage", "lock"})}

AssetPermissions ==
  UNION {{"expenses.categories", "expenses.claimants", "expenses.reimbursements",
          "assets.categories", "assets.depreciation"}
            \X {"view", "manage"},
         Of("expenses.claims",
           {"view", "manage", "submit", "approve", "post", "cancel", "void"}),
         {"expenses.reports", "assets.reports"} \X {"view"},
         Of("assets", {"view", "manage", "capitalize", "transfer", "dispose", "void"})}

PersonnelPermissions ==
  UNION {Of("accounting.budgets",
           {"view", "manage", "submit", "approve", "activate", "close", "cancel"}),
         {"accounting.budgets.vs-actual", "accounting.budgets.control",
          "accounting.budgets.alerts", "payroll.budget-control"}
            \X {"view"},
         {"hr.employees", "hr.departments", "hr.positions", "payroll.configuration",
          "payroll.components", "payroll.periods"}
            \X {"view", "manage"},
         Of("payroll", {"calculate", "approve", "post", "pay", "close", "cancel"}),
         Of("payroll.reports", {"view", "sensitive"})}

ProductionPermissions ==
  UNION {Of("manufacturing.boms", {"view", "manage", "activate"}),
         Of("manufacturing.orders",
           {"view", "manage", "release", "start", "issue", "complete", "cancel",
            "close"}),
         {"manufacturing.planning", "manufacturing.costing", "manufacturing.reports",
          "planning.results", "planning.shortages", "planning.reports",
          "planning.planned-orders", "procurement.reports"}
            \X {"view"},
         Of("manufacturing.configuration", {"manage"}),
         Of("planning.runs", {"view", "manage", "execute"}),
         {"planning.configuration", "procurement.receipts", "procurement.returns"}
            \X {"view", "manage"},
         {"procurement.requisitions", "procurement.orders"}
            \X {"view", "manage", "approve"}}

\* Of the services of the platform itself.
PlatformServices ==
  UNION {OperationsPermissions, AutomationPermissions, PlatformPermissions,
         NotificationPermissions, DataPermissions}

BusinessPermissions ==
  UNION {AdministrationPermissions, StockPermissions, SalesPermissions,
         ShippingPermissions, WarehousePermissions, QualityPermissions,
         ReturnsPermissions, AccountingPermissions, ServicePermissions,
         CrmPermissions, SettlementPermissions, TreasuryPermissions,
         TradePermissions, AssetPermissions, PersonnelPermissions,
         ProductionPermissions}

AllPermissions == BusinessPermissions \cup PlatformServices

OwnerPermissions == AllPermissions

AdminPermissions ==
  AllPermissions \ {<<"roles", "manage">>, <<"master-data.currencies", "manage">>}

\* What there is to view of the business, and the background jobs.
ViewerPermissions ==
  {p \in BusinessPermissions \ {<<"audit", "view">>} : p[2] = "view"}
    \cup {<<"sales.receivables", "aging">>, <<"system.jobs", "view">>}

-----------------------------------------------------------------------------
(***************************************************************************)
(* Registration and sessions.  ended is history: the sessions of which a   *)
(* request has reported that they are revoked.                             *)
(***************************************************************************)

Sessions == {1, 2}

NoSessions ==
  [domain |-> "sessions",
   registered |-> {},
   sessions |-> [s \in Sessions |->
                   [status |-> "NONE", user |-> 1, expired |-> FALSE]],
   ended |-> {}]

\* JwtAuthGuard: the user and the session of the token are looked up.
SignedInWith(db, s) ==
  db.sessions[s].status = "OPEN" /\ ~ db.sessions[s].expired

\* Registration stops at an e-mail address that is taken, and the unique key
\* refuses the one that was taken since.
Register(w, u) ==
  /\ At(w, "read")
  /\ u \notin Seen(w).registered
  /\ Commit(w, [rows EXCEPT !.registered = @ \cup {u}])

Login(w, u, s) ==
  /\ Creates(w, "sessions", s)
  /\ u \in Seen(w).registered
  /\ Commit(w, [rows EXCEPT !.sessions[s] =
                  [status |-> "OPEN", user |-> u, expired |-> FALSE]])

\* Mutant: the session that was read is written back whole.
RefreshWhole(w, s) ==
  /\ At(w, "read")
  /\ SignedInWith(Seen(w), s)
  /\ Commit(w, [rows EXCEPT !.sessions[s] = Seen(w).sessions[s]])

\* The refresh token is replaced and the expiry moved; revokedAt is not written.
Refresh(w, s) ==
  /\ At(w, "read")
  /\ SignedInWith(Seen(w), s)
  /\ Commit(w, [rows EXCEPT !.sessions[s].expired = FALSE])

Revoked(db, ss) ==
  [db EXCEPT !.sessions = [s \in Sessions |->
                             IF s \in ss THEN [@[s] EXCEPT !.status = "REVOKED"] ELSE @[s]],
             !.ended = @ \cup ss]

OpenOf(db, u) == {s \in Sessions : db.sessions[s].status = "OPEN" /\ db.sessions[s].user = u}

Logout(w, s) ==
  /\ At(w, "read")
  /\ SignedInWith(Seen(w), s)
  /\ Commit(w, Revoked(rows, {s}))

\* updateMany: the sessions that are open when it is executed.
LogoutAll(w, s) ==
  /\ At(w, "read")
  /\ SignedInWith(Seen(w), s)
  /\ Commit(w, Revoked(rows, OpenOf(rows, rows.sessions[s].user)))

\* An administrator's.
RevokeSession(w, s) ==
  /\ At(w, "read")
  /\ Seen(w).sessions[s].status = "OPEN"
  /\ Commit(w, Revoked(rows, {s}))

RevokeAllUserSessions(w, u) ==
  /\ At(w, "read")
  /\ OpenOf(Seen(w), u) # {}
  /\ Commit(w, Revoked(rows, OpenOf(rows, u)))

\* Time passes; no request does anything.
SessionExpires(w, s) ==
  /\ At(w, "read")
  /\ rows.sessions[s].status = "OPEN"
  /\ Commit(w, [rows EXCEPT !.sessions[s].expired = TRUE])

SessionsNext(w) ==
  /\ rows.domain = "sessions"
  /\ \/ \E u \in Users : \/ Register(w, u) \/ RevokeAllUserSessions(w, u)
                         \/ \E s \in Sessions : Login(w, u, s)
     \/ \E s \in Sessions : \/ Refresh(w, s) \/ Logout(w, s) \/ LogoutAll(w, s)
                            \/ RevokeSession(w, s) \/ SessionExpires(w, s)

\* A session that was revoked admits nobody any more, however its refreshes and
\* the requests that revoke it overlap (auth.service.ts refresh, logout).
EndedSessionsStayEnded ==
  rows.domain = "sessions" => \A s \in rows.ended : ~ SignedInWith(rows, s)

-----------------------------------------------------------------------------
(***************************************************************************)
(* One organization, its members and their roles.  A role that exists has  *)
(* the permissions of a grant, at first those the seed gives it.  Whoever  *)
(* sends a request is signed in.                                           *)
(***************************************************************************)

SystemRoles == {"OWNER", "ADMIN", "VIEWER"}
CustomRoles == {"CUSTOM"}
Roles == SystemRoles \cup CustomRoles

PermissionsOf ==
  [OWNER |-> OwnerPermissions, ADMIN |-> AdminPermissions, VIEWER |-> ViewerPermissions,
   manager |-> {<<"roles", "manage">>}, nothing |-> {}]

\* What an organization puts into the roles of its own.
CustomGrants == {"manager", "nothing"}

NoAccess ==
  [domain |-> "access",
   organization |-> "NONE",
   members |-> [u \in Users |-> [status |-> "NONE", roles |-> {}]],
   grant |-> [r \in Roles |-> IF r \in SystemRoles THEN r ELSE "NONE"]]

\* validateMembership(); a member that was removed is REMOVED, not only SUSPENDED.
ActiveMember(db, u) == db.members[u].status = "ACTIVE"

\* TenantContextGuard.
InTenant(db, u) == db.organization = "ACTIVE" /\ ActiveMember(db, u)

\* AuthorizationService.getEffectivePermissions.
HasPermission(db, u, p) ==
  InTenant(db, u) /\ \E r \in db.members[u].roles : p \in PermissionsOf[db.grant[r]]

\* The guards of endpoint e.  PermissionGuard looks for the organization in what
\* TenantContextGuard has left in the request.
Admitted(db, u, e) ==
  /\ "TenantContext" \in e.guards => InTenant(db, u)
  /\ "Permission" \in e.guards /\ e.needs # {} =>
       "TenantContext" \in e.guards /\ \A p \in e.needs : HasPermission(db, u, p)

\* User u reaches operation op of RolesController.
ManagesRoles(w, op) ==
  At(w, "read") /\ \E u \in Users, e \in RolesController :
                     e.op = op /\ Admitted(Seen(w), u, e)

\* Endpoints of OrganizationsController only require an active membership, also
\* of an organization that is archived.
AsMember(w) == At(w, "read") /\ \E u \in Users : ActiveMember(Seen(w), u)

IsMember(db, u) == db.members[u].status \in {"ACTIVE", "INVITED", "SUSPENDED"}

\* With its settings, and whoever creates it as its owner: one transaction.
CreateOrganization(w, u) ==
  /\ At(w, "read")
  /\ Seen(w).organization = "NONE"
  /\ Commit(w, [rows EXCEPT !.organization = "ACTIVE",
                            !.members[u] = [status |-> "ACTIVE", roles |-> {"OWNER"}]])

ArchiveOrganization(w) ==
  /\ AsMember(w)
  /\ Seen(w).organization = "ACTIVE"
  /\ Commit(w, [rows EXCEPT !.organization = "ARCHIVED"])

\* Who was a member before gets the roles of then back.
AddMember(w, u) ==
  /\ AsMember(w)
  /\ ~ ActiveMember(Seen(w), u)
  /\ Commit(w, [rows EXCEPT !.members[u].status = "INVITED"])

\* ensureNotLastOwner(): for owners, another one must be active.
OtherOwner(db, u) ==
  \E v \in Users \ {u} : ActiveMember(db, v) /\ "OWNER" \in db.members[v].roles

\* Mutant: whether the others are active is not asked.
MayLeaveAnyOwner(db, u) ==
  "OWNER" \in db.members[u].roles =>
    \E v \in Users \ {u} : "OWNER" \in db.members[v].roles

MayLeave(db, u) == "OWNER" \in db.members[u].roles => OtherOwner(db, u)

\* Only a suspension asks whether others own the organization.
UpdateMember(w, u, status) ==
  /\ AsMember(w)
  /\ IsMember(Seen(w), u)
  /\ status = "SUSPENDED" => MayLeave(Seen(w), u)
  /\ Commit(w, [rows EXCEPT !.members[u].status = status])

RemoveMember(w, u) ==
  /\ AsMember(w)
  /\ IsMember(Seen(w), u) /\ MayLeave(Seen(w), u)
  /\ Commit(w, [rows EXCEPT !.members[u].status = "REMOVED"])

CreateCustomRole(w, r) ==
  /\ ManagesRoles(w, "createRole")
  /\ Seen(w).grant[r] = "NONE"
  /\ \E g \in CustomGrants : Commit(w, [rows EXCEPT !.grant[r] = g])

DeleteCustomRole(w, r) ==
  /\ ManagesRoles(w, "deleteRole")
  /\ Seen(w).grant[r] # "NONE"
  /\ \A u \in Users : r \notin Seen(w).members[u].roles
  /\ Commit(w, [rows EXCEPT !.grant[r] = "NONE"])

\* Mutant: the system roles are not exempt.
UpdateAnyRolePermissions(w, r) ==
  /\ ManagesRoles(w, "updateRolePermissions")
  /\ \E s \in Roles, g \in CustomGrants : Commit(w, [rows EXCEPT !.grant[s] = g])

UpdateRolePermissions(w, r) ==
  /\ ManagesRoles(w, "updateRolePermissions")
  /\ r \in CustomRoles /\ Seen(w).grant[r] # "NONE"
  /\ \E g \in CustomGrants : Commit(w, [rows EXCEPT !.grant[r] = g])

AssignRole(w, u, r) ==
  /\ ManagesRoles(w, "assignRole")
  /\ IsMember(Seen(w), u) /\ Seen(w).grant[r] # "NONE"
  /\ Commit(w, [rows EXCEPT !.members[u].roles = @ \cup {r}])

\* The owner's role stays while no other owner is active.
RemoveRole(w, u, r) ==
  /\ ManagesRoles(w, "removeRole")
  /\ IsMember(Seen(w), u) /\ Seen(w).grant[r] # "NONE"
  /\ r = "OWNER" => OtherOwner(Seen(w), u)
  /\ Commit(w, [rows EXCEPT !.members[u].roles = @ \ {r}])

AccessNext(w) ==
  /\ rows.domain = "access"
  /\ \/ ArchiveOrganization(w)
     \/ \E u \in Users :
          \/ CreateOrganization(w, u) \/ AddMember(w, u) \/ RemoveMember(w, u)
          \/ \E status \in {"ACTIVE", "INVITED", "SUSPENDED"} : UpdateMember(w, u, status)
          \/ \E r \in Roles : AssignRole(w, u, r) \/ RemoveRole(w, u, r)
     \/ \E r \in CustomRoles :
          CreateCustomRole(w, r) \/ DeleteCustomRole(w, r) \/ UpdateRolePermissions(w, r)

Owns(db, u) == InTenant(db, u) /\ "OWNER" \in db.members[u].roles

\* However its members suspend, remove, re-invite and promote one another, an
\* organization keeps an owner that is neither suspended nor removed.  That this
\* owner is active does not hold: updateMember() sets the last one INVITED.
OwnerRemains ==
  rows.domain = "access" /\ rows.organization # "NONE" =>
    \E u \in Users : /\ rows.members[u].status \in {"ACTIVE", "INVITED"}
                     /\ "OWNER" \in rows.members[u].roles

\* An active owner is admitted to every endpoint that is for an organization:
\* the seed knows every permission their controllers require, and nothing that
\* becomes of the roles takes one of them from the owner.
OwnersReachTheirEndpoints ==
  rows.domain = "access" =>
    \A u \in Users : Owns(rows, u) =>
      \A e \in Endpoints : "TenantContext" \in e.guards => Admitted(rows, u, e)

\* M05-Roles-and-Permissions.md:53 gives the owner all permissions, the seed
\* "complete administrative authority": every endpoint admits an active owner.
OwnersReachEveryEndpoint ==
  rows.domain = "access" =>
    \A u \in Users : Owns(rows, u) => \A e \in Endpoints : Admitted(rows, u, e)
=============================================================================
