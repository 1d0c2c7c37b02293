----------------------------- MODULE BackOffice -----------------------------
(***************************************************************************)
(* The parts of the back office that share no rows with one another, or    *)
(* only rows that one of them never changes.  A behaviour is about one of  *)
(* them, its domain; the actions of the others are disabled, so that the   *)
(* parts are checked side by side instead of as a product.  Requests about *)
(* the rows of a domain overlap only in the Overlapping domains: in the    *)
(* others, a request that starts while another one runs may act on what it *)
(* read, which is stale, and nothing stated below would hold.              *)
(***************************************************************************)
EXTENDS Access, Ledger, Finance, StaffPayments, Commerce, Purchasing, Warehouse,
        Manufacturing, Quality, Returns, ServiceDesk, DataOperations, Messaging, MasterData

CONSTANTS Domains,     \* the domains that are checked
          Overlapping  \* those of them whose requests overlap

ASSUME OverlappingAssumption == Overlapping \subseteq Domains

\* An organization starts with no documents; what its master data, its
\* configuration and its providers are like, the arguments say.
Start ==
  {NoSessions, NoAccess, NoLedger, NoPurchasing, NoBoms, NoPlanning, NoShipping, NoTickets,
   NoClaims, NoAssets, NoPayroll, NoBanking, NoBudgets, NoQuotations, NoLeads, NoCosting,
   NoBilling, NoNcrs, NoTax, NoWebhooks, NoNotifications, NoNumbering, NoCatalog, NoPricing,
   NoLocations, NoStaff({1, 2, 3}, {1}), NoStaff({1}, {1, 2}), NoCompensations}
  \cup {NoParty(kind) : kind \in PartyKinds}
  \cup {NoWarehouse(kinds) : kinds \in {K \in SUBSET WarehouseKinds : Cardinality(K) \in 1..2}}
  \cup UNION {{NoProduction(b), NoReturns(b), NoRepairs(b), NoSubscriptions(b), NoImport(b), NoQuality(b)} :
                b \in BOOLEAN}

Init ==
  /\ rows \in {db \in Start : db.domain \in Domains}
  /\ requests = [w \in Workers |-> Idle]

Handle(w) ==
  \/ SessionsNext(w) \/ AccessNext(w)
  \/ LedgerNext(w) \/ PurchasingNext(w) \/ WarehouseNext(w) \/ ManufacturingNext(w)
  \/ ShippingNext(w) \/ ReturnsNext(w) \/ ServiceDeskNext(w) \/ QualityNext(w) \/ NcrNext(w)
  \/ ExpensesNext(w) \/ AssetsNext(w) \/ PayrollNext(w) \/ TaxNext(w)
  \/ BankingNext(w) \/ BudgetsNext(w) \/ QuotationsNext(w) \/ LeadsNext(w) \/ CostingNext(w)
  \/ SubscriptionsNext(w) \/ BillingNext(w) \/ ImportNext(w)
  \/ WebhooksNext(w) \/ NotificationsNext(w) \/ MasterDataNext(w)

MayStart ==
  rows.domain \in Overlapping \/ \A w \in Workers : requests[w] = Idle

Next ==
  \E w \in Workers :
    \/ MayStart /\ Read(w)
    \/ requests[w] # Idle /\ (Abort(w) \/ Handle(w))

Spec == Init /\ [][Next]_vars

-----------------------------------------------------------------------------
(* The properties of the parts, taken together by what they are about. *)

\* Who is signed in, a member or an owner may do what that promises.
AccessIsGoverned == EndedSessionsStayEnded /\ OwnerRemains /\ OwnersReachTheirEndpoints

\* Stock counted, moved, picked, packed, put away or handed over leaves its
\* place once, and no more is shipped than was packed for the delivery.
GoodsLeaveOnce == GoodsMoveOnce /\ ShippedWithinDelivery

\* Stock is what was received, returned and not consumed, and costed in order.
StockAddsUp == PurchasedGoodsAddUp /\ LayersAreFifo

\* Production uses up what it takes, no product needs itself, and a plan covers
\* every shortage.
MakesWhatIsPlanned == ProductionConserves /\ BomsAcyclic /\ PlansCoverShortage

\* Goods are disposed of once, as the inspection that decided about them says.
InspectedAndReturned == DisposedOnce /\ DecisionsAreFounded

\* Service: every ticket, repair and charge has its origin and adds up.
ServiceAddsUp == TicketsHaveOrigins /\ RepairAddsUp

\* Claims and salaries are approved before they are posted, and paid once.
StaffArePaidOnce == ClaimsAddUp /\ PayrollOnce

\* What is closed, reconciled, locked or depreciated agrees with its entries.
BooksAgree == StatementsBalance /\ ChartIsForest /\ LockedIsReconciled /\ DepreciationAddsUp /\ LockedTaxesStay
=============================================================================
