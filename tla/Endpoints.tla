----------------------------- MODULE Endpoints -----------------------------
(***************************************************************************)
(* The HTTP API: what the controllers of apps/api/src let through to which *)
(* operation.  A controller is the set of its endpoints; its guards hold   *)
(* for all of them.  The operation of an endpoint is the method of the     *)
(* controller, and nearly always does nothing but call its service.        *)
(***************************************************************************)
\* An endpoint of a controller with JwtAuthGuard, TenantContextGuard and
\* PermissionGuard; the operations are given by the permission they require.
Endpoint(guards, needs, op) == [guards |-> guards, needs |-> needs, op |-> op]

Required(guards, area, ops) ==
  UNION {{Endpoint(guards, {<<area, action>>}, op) : op \in ops[action]} : action \in DOMAIN ops}

Scoped(area, ops) == Required({"Jwt", "TenantContext", "Permission"}, area, ops)

\* Of a controller without TenantContextGuard.
Unscoped(area, ops) == Required({"Jwt", "Permission"}, area, ops)

\* Without a required permission, which PermissionGuard lets pass: whoever is
\* signed in, and whoever calls.
SignedIn(ops) == {Endpoint({"Jwt"}, {}, op) : op \in ops}
Public(ops) == {Endpoint({}, {}, op) : op \in ops}

-----------------------------------------------------------------------------
(* Accounting, receivables, payables, payments *)

AccountsController == Scoped("accounting.accounts", [
  manage |-> {"create", "update", "remove"}, view |-> {"findAll", "findOne"}])

BudgetsController ==
  UNION {Scoped("accounting.budgets.control", [view |-> {"checkBudgetAvailability"}]),
         Scoped("accounting.budgets", [
           view |-> {"findAllBudgets", "findBudget"},
           manage |-> {"createBudget", "updateBudget", "deleteBudget"},
           submit |-> {"submitBudget"}, approve |-> {"approveBudget", "rejectBudget"},
           activate |-> {"activateBudget"}, close |-> {"closeBudget"},
           cancel |-> {"cancelBudget"}]),
         Scoped("accounting.budgets.vs-actual", [
           view |-> {"getBudgetSummary", "getBudgetVsActual", "getBudgetUtilization",
                     "getBudgetDrillDown", "getAccountBudgetReport",
                     "getCategoryBudgetReport", "getPeriodBudgetReport"}]),
         Scoped("accounting.budgets.alerts", [view |-> {"getBudgetAlerts"}])}

JournalsController == Scoped("accounting.journals", [
  manage |-> {"create", "update", "remove"}, view |-> {"findAll", "findOne"},
  post |-> {"post"}, reverse |-> {"reverse"}])

FiscalPeriodsController == Scoped("accounting.periods", [
  manage |-> {"create"},
  view |-> {"findAll", "findOne", "validateClose", "getCloseRuns", "getCloseChecks"},
  close |-> {"startClose", "close"}, reopen |-> {"reopen"}])

FinancialReportsController ==
  UNION {Scoped("accounting.reports.trial-balance", [view |-> {"getTrialBalance"}]),
         Scoped("accounting.reports.general-ledger", [view |-> {"getGeneralLedger"}]),
         Scoped("accounting.reports", [
           view |-> {"getAccountBalance", "getBudgetVsActual", "createSnapshot",
                     "getSnapshots"}]),
         Scoped("accounting.reports.balance-sheet", [view |-> {"getBalanceSheet"}]),
         Scoped("accounting.reports.profit-loss", [
           view |-> {"getIncomeStatement", "getProfitLoss"}]),
         Scoped("accounting.reports.cash-flow", [view |-> {"getCashFlow"}]),
         Scoped("accounting.reports.kpis", [view |-> {"getFinancialKpis"}]),
         Scoped("accounting.reports.reconciliation", [
           view |-> {"getSubledgerReconciliation"}])}

ApAccountMappingController ==
  Scoped("ap.account-mapping", [view |-> {"findAll"}, manage |-> {"upsert"}])

SupplierInvoicesController ==
  UNION {Scoped("ap.invoices", [
           view |-> {"findAll", "findOne"}, manage |-> {"create", "update", "remove"},
           submit |-> {"submit"}, approve |-> {"approve"}, post |-> {"post"},
           cancel |-> {"cancel"}, void |-> {"void"}]),
         Scoped("ap.matching", [view |-> {"getMatching"}])}

CustomerInvoicesController == Scoped("sales.invoices", [
  view |-> {"findAll", "findOne"},
  manage |-> {"create", "createFromSalesOrder", "createFromDeliveryOrder", "update",
              "remove", "cancel"}, issue |-> {"issue"}, void |-> {"void"}])

ReceivablesController == Scoped("sales.receivables", [
  view |-> {"getCustomerBalance"}, aging |-> {"getAgingReport"}])

AssetsController ==
  UNION {Scoped("assets.categories", [
           view |-> {"findCategories", "findCategory"},
           manage |-> {"createCategory", "updateCategory", "deleteCategory"}]),
         Scoped("assets.depreciation", [
           manage |-> {"runDepreciation", "postDepreciationEntry"},
           view |-> {"getDepreciationSchedule"}]),
         Scoped("assets.reports", [
           view |-> {"getRegisterReport", "getDepreciationReport", "getMovementsReport",
                     "getReconciliationReport"}]),
         Scoped("assets", [
           view |-> {"findAllAssets", "findAsset"},
           manage |-> {"createAsset", "updateAsset", "activateAsset"},
           capitalize |-> {"capitalizeAsset"}, transfer |-> {"transferAsset"},
           dispose |-> {"disposeAsset"}, void |-> {"voidAsset"}])}

BankAccountsController == Scoped("banking.accounts", [
  view |-> {"findAll", "findOne"}, manage |-> {"create", "update", "remove"}])

BankMatchingController ==
  UNION {Scoped("banking.reconciliation", [
           view |-> {"getSuggestions"},
           match |-> {"matchPayment", "matchJournal", "unmatch"}]),
         Scoped("banking.adjustments", [manage |-> {"postAdjustment"}])}

BankReconciliationController == Scoped("banking.reconciliation", [
  view |-> {"findAll", "findOne"}, manage |-> {"create", "cancel"},
  complete |-> {"complete"}])

BankStatementsController == Scoped("banking.statements", [
  view |-> {"findAll", "findOne", "getTransactions"}, manage |-> {"create"},
  import |-> {"importTransactions"}])

ExpensesController ==
  UNION {Scoped("expenses.categories", [
           view |-> {"findCategories", "findCategory"},
           manage |-> {"createCategory", "updateCategory", "deleteCategory"}]),
         Scoped("expenses.claimants", [
           view |-> {"findClaimants", "findClaimant"},
           manage |-> {"createClaimant", "updateClaimant"}]),
         Scoped("expenses.claims", [
           view |-> {"findClaims", "findClaim"},
           manage |-> {"createClaim", "updateClaim", "addReceipt"},
           submit |-> {"submitClaim"}, approve |-> {"approveClaim", "rejectClaim"},
           cancel |-> {"cancelClaim"}, post |-> {"postClaim"}, void |-> {"voidClaim"}]),
         Scoped("expenses.reimbursements", [
           view |-> {"findReimbursements"}, manage |-> {"reimburseClaim"}]),
         Scoped("expenses.reports", [
           view |-> {"getSummaryReport", "getByCategoryReport",
                     "getReimbursementAgingReport", "getLedgerReport"}])}

PaymentAccountsController == Scoped("finance.payments", [
  view |-> {"findAll", "findOne"}, manage |-> {"create", "update", "remove"}])

PaymentsController ==
  UNION {Scoped("finance.payments", [
           view |-> {"findAll", "findOne"}, manage |-> {"create"},
           post |-> {"postPayment"}, allocate |-> {"allocatePayment"},
           void |-> {"voidPayment"}]),
         Scoped("finance.receipts", [manage |-> {"createReceipt"}]),
         Scoped("finance.supplier-payments", [manage |-> {"createSupplierPayment"}]),
         Scoped("finance.settlements", [
           view |-> {"getUnallocatedReceivables", "getUnallocatedPayables"}])}

TaxController ==
  UNION {Scoped("tax.codes", [
           view |-> {"findCodes", "findCode"},
           manage |-> {"createCode", "updateCode", "deleteCode"}]),
         Scoped("tax.rates", [
           view |-> {"findRates", "findRate"}, manage |-> {"createRate", "updateRate"}]),
         Scoped("tax.jurisdictions", [
           view |-> {"findJurisdictions", "findJurisdiction"},
           manage |-> {"createJurisdiction", "updateJurisdiction"}]),
         Scoped("tax.rules", [
           view |-> {"findRules", "findRule"},
           manage |-> {"createRule", "updateRule", "deleteRule"}]),
         Scoped("tax.calculation", [view |-> {"calculateTax"}]),
         Scoped("tax.reports", [
           view |-> {"getSummaryReport", "getOutputTaxReport", "getInputTaxReport",
                     "getReportByCode", "getReportByJurisdiction", "getTransactions"}]),
         Scoped("tax.periods", [
           view |-> {"findPeriods", "findPeriod"},
           manage |-> {"createPeriod", "preparePeriod"}, lock |-> {"lockPeriod"}])}

FinanceEndpoints ==
  UNION {AccountsController, BudgetsController, JournalsController,
         FiscalPeriodsController, FinancialReportsController, ApAccountMappingController,
         SupplierInvoicesController, CustomerInvoicesController, ReceivablesController,
         AssetsController, BankAccountsController, BankMatchingController,
         BankReconciliationController, BankStatementsController, ExpensesController,
         PaymentAccountsController, PaymentsController, TaxController}

-----------------------------------------------------------------------------
(* Sales and CRM *)

CrmActivitiesController == Scoped("crm.activities", [
  manage |-> {"create", "update", "delete"}, view |-> {"findAll", "findOne"},
  complete |-> {"complete"}])

CrmContactsController == Scoped("crm.contacts", [
  manage |-> {"create", "update", "delete"}, view |-> {"findAll", "findOne"}])

CrmCustomer360Controller == Scoped("crm.customer-360", [view |-> {"getCustomer360"}])

CrmLeadsController == Scoped("crm.leads", [
  manage |-> {"create", "update"}, view |-> {"findAll", "findOne"},
  qualify |-> {"qualify"}, convert |-> {"convert"}, close |-> {"close"}])

CrmOpportunitiesController == Scoped("crm.opportunities", [
  manage |-> {"create", "update", "addLine", "removeLine"},
  view |-> {"findAll", "findOne"}, stage |-> {"changeStage"},
  close |-> {"closeWon", "closeLost"}])

CrmPipelineController == Scoped("crm.pipeline", [view |-> {"getSummary", "getStages"}])

CrmQuotationsController == Scoped("crm.quotations", [
  view |-> {"findAll", "findOne"}, submit |-> {"submit"},
  approve |-> {"approve", "reject"}, send |-> {"send"}, accept |-> {"accept"},
  convert |-> {"convert"}, manage |-> {"void"}])

CrmReportsController == Scoped("crm.reports", [
  view |-> {"getLeadFunnel", "getLeadSources", "getPipeline", "getWeightedForecast",
            "getAging", "getWinLoss", "getSalesReps", "getSalesCycle",
            "getQuotationConversion", "getCustomerAcquisition", "getRevenueForecast",
            "getActivities"}])

ReturnDispositionController ==
  Scoped("returns.disposition", [view |-> {"findByReturn"}, manage |-> {"create"}])

ReturnQualityController ==
  Scoped("returns.inspection", [request |-> {"requestInspection", "syncInspection"}])

ReturnPoliciesController ==
  Scoped("returns", [view |-> {"getPolicy"}, manage |-> {"updatePolicy"}])

ReturnReasonsController ==
  Scoped("returns", [
    view |-> {"findAll", "findOne"}, manage |-> {"create", "update"}])

ReturnReceivingController == Scoped("returns", [receive |-> {"receive"}])

ReturnsReportsController == Scoped("returns.reports", [
  view |-> {"getSummary", "getCustomerReturns", "getSupplierReturns",
            "getReasonAnalysis", "getDispositionsAnalysis", "getFinancialImpact",
            "getAging", "getQualityLinked", "getTrends"}])

ReturnRequestsController == Scoped("returns", [
  view |-> {"findAll", "findOne"}, manage |-> {"create", "update"},
  submit |-> {"submit"}, review |-> {"review"}, authorize |-> {"authorize"},
  reject |-> {"reject"}, cancel |-> {"cancel"}, void |-> {"void"}, close |-> {"close"}])

ReturnResolutionsController ==
  UNION {Scoped("returns", [
           view |-> {"findResolutions"}, refund |-> {"createRefund"},
           replace |-> {"createReplacement"}]),
         Scoped("returns", [action \in {"credit-note"} |-> {"createCreditNote"}]),
         Scoped("returns", [action \in {"debit-note"} |-> {"createDebitNote"}])}

CustomerAddressesController == Scoped("sales.customers", [
  manage |-> {"create", "update", "remove"}, view |-> {"findAll"}])

CustomerContactsController == Scoped("sales.customers", [
  manage |-> {"create", "update", "remove"}, view |-> {"findAll"}])

CustomerCreditNotesController == Scoped("sales.credit-notes", [
  view |-> {"findAll", "findOne"}, manage |-> {"create", "update"},
  approve |-> {"approve"}, post |-> {"post"}, apply |-> {"apply"}, void |-> {"void"}])

CustomersController == Scoped("sales.customers", [
  manage |-> {"create", "update", "remove"}, view |-> {"findAll", "findOne"}])

DeliveryOrdersController == Scoped("sales.deliveries", [
  manage |-> {"create", "update", "ready"}, view |-> {"findAll", "findOne"},
  pick |-> {"pick"}, dispatch |-> {"dispatch"}, ship |-> {"ship"},
  execute |-> {"execute"}, deliver |-> {"deliver"}, cancel |-> {"cancel"}])

SalesFulfillmentReportsController == Scoped("sales.reports", [
  view |-> {"getSummary", "getOpenOrders", "getFulfillment", "getCustomerHistory",
            "getDeliveryPerformance"}])

CustomerGroupsController == Scoped("sales.customer-groups", [
  manage |-> {"create", "update", "remove"}, view |-> {"findAll", "findOne"}])

SalesOrdersController == Scoped("sales.orders", [
  manage |-> {"create", "update", "reject", "invoice"},
  view |-> {"findAll", "findOne", "checkAvailability", "getFinancialSummary"},
  submit |-> {"submit"}, approve |-> {"approve"}, confirm |-> {"confirm"},
  allocate |-> {"allocate", "releaseAllocation"}, cancel |-> {"cancel"},
  close |-> {"close"}])

CustomerPricingController == Scoped("sales.customer-pricing", [
  manage |-> {"create", "update", "remove"}, view |-> {"findAll", "findOne"}])

QuotationsController == Scoped("sales.quotations", [
  manage |-> {"create", "update", "convert"}, view |-> {"findAll", "findOne"},
  send |-> {"send"}, accept |-> {"accept"}, reject |-> {"reject"}, cancel |-> {"cancel"}])

CustomerRefundsController == Scoped("sales.refunds", [
  view |-> {"findAll", "findOne"}, manage |-> {"create"}, post |-> {"post"},
  void |-> {"void"}])

ReservationsController == Scoped("sales.reservations", [
  view |-> {"findAll", "findOne"}, release |-> {"release"}])

CustomerAssetsController == Scoped("service.customer-assets", [
  view |-> {"findAll", "findOne", "getServiceHistory"}, manage |-> {"create", "update"}])

ServiceDiagnosisController == Scoped("service.tickets", [
  view |-> {"findByTicket"}, diagnose |-> {"recordDiagnosis", "finalizeDiagnosis"}])

ServiceEstimatesController == Scoped("service.estimates", [
  manage |-> {"create", "send"}, view |-> {"findOne"}, approve |-> {"approve", "reject"}])

ServiceLaborController == Scoped("service.labor", [
  view |-> {"findByServiceOrder"},
  manage |-> {"recordLabor", "updateLabor", "finalizeLabor"}])

ServiceOrdersController ==
  UNION {Scoped("service.orders", [
           view |-> {"findAll", "findOne"}, manage |-> {"create", "close"},
           release |-> {"release"}, execute |-> {"start"}, complete |-> {"complete"},
           handover |-> {"handover"}, cancel |-> {"cancel"}]),
         Scoped("service.quality", [request |-> {"requestQualityCheck"}]),
         Scoped("service.billing", [invoice |-> {"invoice"}])}

ServicePartsController == Scoped("service.parts", [
  view |-> {"findByServiceOrder"}, reserve |-> {"addPartRequirement", "reserveParts"},
  issue |-> {"issueParts"}, return |-> {"returnParts"}])

ServiceReportsController == Scoped("service.reports", [
  view |-> {"getSummary", "getSlaPerformance", "getPartsConsumption",
            "getRepeatRepairs", "getFailureAnalysis", "getWorkOrderAging",
            "getRmaToService"}, sensitive |-> {"getTechnicianPerformance"},
  financial |-> {"getWarrantyCost", "getProfitability"}])

ServiceRequestsController == Scoped("service.requests", [
  view |-> {"findAll", "findOne"}, manage |-> {"create", "update", "cancel"},
  triage |-> {"triage"}])

ServiceTicketsController == Scoped("service.tickets", [
  view |-> {"findAll", "findOne"}, manage |-> {"create", "hold", "resume"},
  assign |-> {"assign"}, diagnose |-> {"startDiagnosis"}])

WarrantyController == Scoped("service.warranty", [
  view |-> {"findAllPolicies", "findOnePolicy"},
  manage |-> {"createPolicy", "updatePolicy", "assignAssetWarranty"},
  validate |-> {"checkEligibility"}])

ShipmentCarriersController == Scoped("shipping.carriers", [
  manage |-> {"create", "update", "activate", "deactivate", "delete"},
  view |-> {"findAll", "findOne"}])

ShipmentReportsController == Scoped("shipping.reports", [
  view |-> {"getSummary", "getOpen", "getPerformance", "getCarriers",
            "getCustomerHistory", "getCosts", "getExceptions"}])

ShipmentsController == Scoped("shipping.shipments", [
  manage |-> {"create", "update"}, view |-> {"findAll", "findOne"},
  prepare |-> {"prepare"}, assign |-> {"assignCarrier", "assignVehicle"},
  dispatch |-> {"dispatch"}, track |-> {"markInTransit"}, deliver |-> {"markDelivered"},
  return |-> {"markFailed", "initiateReturn"}, close |-> {"close"},
  cancel |-> {"cancel"}])

ShipmentTrackingController == Scoped("shipping.shipments", [
  view |-> {"getTrackingHistory"}, track |-> {"addTrackingEvent"}])

SalesEndpoints ==
  UNION {CrmActivitiesController, CrmContactsController, CrmCustomer360Controller,
         CrmLeadsController, CrmOpportunitiesController, CrmPipelineController,
         CrmQuotationsController, CrmReportsController, ReturnDispositionController,
         ReturnQualityController, ReturnPoliciesController, ReturnReasonsController,
         ReturnReceivingController, ReturnsReportsController, ReturnRequestsController,
         ReturnResolutionsController, CustomerAddressesController,
         CustomerContactsController, CustomerCreditNotesController, CustomersController,
         DeliveryOrdersController, SalesFulfillmentReportsController,
         CustomerGroupsController, SalesOrdersController, CustomerPricingController,
         QuotationsController, CustomerRefundsController, ReservationsController,
         CustomerAssetsController, ServiceDiagnosisController, ServiceEstimatesController,
         ServiceLaborController, ServiceOrdersController, ServicePartsController,
         ServiceReportsController, ServiceRequestsController, ServiceTicketsController,
         WarrantyController, ShipmentCarriersController, ShipmentReportsController,
         ShipmentsController, ShipmentTrackingController}

-----------------------------------------------------------------------------
(* Stock, purchasing, production *)

CategoriesController == Scoped("catalog.categories", [
  view |-> {"list", "get"}, manage |-> {"create", "update", "delete"}])

ItemsController == Scoped("catalog.items", [
  view |-> {"list", "get"}, manage |-> {"create", "update", "delete"}])

PricingController == Scoped("catalog.pricing", [
  view |-> {"listPricingTiers", "getPricingTier", "listPricesByItem",
            "listPricesByVariant"},
  manage |-> {"createPricingTier", "updatePricingTier", "createPriceForItem",
              "createPriceForVariant", "updatePrice", "deletePrice"}])

UnitsController == Scoped("catalog.units", [
  view |-> {"list", "get"}, manage |-> {"create", "update", "delete"}])

VariantsController == Scoped("catalog.variants", [
  view |-> {"listByItem", "get"}, manage |-> {"create", "update", "delete"}])

AdjustmentsController == Scoped("inventory.adjustments", [manage |-> {"create"}])

BalancesController == Scoped("inventory.balances", [view |-> {"list", "getByItem"}])

BatchesController == Scoped("inventory.batches", [
  view |-> {"list", "get"}, manage |-> {"create", "update"}])

CostingController ==
  UNION {Scoped("inventory.valuation", [view |-> {"getValuation"}]),
         Scoped("inventory.costing", [
           view |-> {"getItemCostHistory"},
           manage |-> {"recordReceipt", "recordIssueCogs", "recordAdjustment",
                       "recordReturnRestock"}]),
         Scoped("inventory.cogs", [view |-> {"getCogsReport"}])}

MovementsController == Scoped("inventory.movements", [view |-> {"list", "get"}])

SerialsController == Scoped("inventory.serials", [
  view |-> {"list", "get"}, manage |-> {"create", "update"}])

TransfersController == Scoped("inventory.transfers", [
  view |-> {"list", "get"}, manage |-> {"create", "complete", "cancel"}])

ManufacturingController ==
  UNION {Scoped("manufacturing.boms", [
           manage |-> {"createBom", "updateBom", "deleteBom"},
           view |-> {"findAllBoms", "findOneBom"},
           activate |-> {"activateBom", "deactivateBom"}]),
         Scoped("manufacturing.orders", [
           manage |-> {"createOrder", "updateOrder", "deleteOrder"},
           view |-> {"findAllOrders", "findOneOrder"}, release |-> {"releaseOrder"},
           start |-> {"startOrder"}, issue |-> {"issueMaterial"},
           complete |-> {"completeProduction"}, cancel |-> {"cancelOrder"},
           close |-> {"closeOrder"}]),
         Scoped("manufacturing.planning", [view |-> {"checkMaterialAvailability"}]),
         Scoped("manufacturing.configuration", [
           manage |-> {"getConfig", "updateConfig"}]),
         Scoped("manufacturing.reports", [
           view |-> {"getProductionSummary", "getMaterialConsumption"}]),
         Scoped("manufacturing.costing", [
           view |-> {"getProductionCost", "getWipReport", "getProductionVariance"}])}

CurrenciesController == Scoped("master-data.currencies", [
  view |-> {"list", "get"}, manage |-> {"create", "update", "deactivate"}])

LocationsController == Scoped("master-data.locations", [
  view |-> {"list", "get"}, manage |-> {"create", "update", "delete"}])

NumberingController == Scoped("master-data.numbering", [
  view |-> {"list", "get"}, manage |-> {"create", "update"},
  generate |-> {"generateNext"}])

TaxesController == Scoped("master-data.taxes", [
  view |-> {"list", "get"}, manage |-> {"create", "update", "delete"}])

PlanningController ==
  UNION {Scoped("planning.configuration", [
           view |-> {"getConfiguration", "listItemProfiles"},
           manage |-> {"updateConfiguration", "upsertItemProfile", "deleteItemProfile"}]),
         Scoped("planning.runs", [
           manage |-> {"createRun", "cancelRun", "updatePlannedOrderStatus"},
           view |-> {"listRuns", "getRun"}, execute |-> {"executeRun"}]),
         Scoped("planning.planned-orders", [
           view |-> {"listPlannedOrders", "getPlannedOrder"}]),
         Scoped("planning.reports", [
           view |-> {"getSummary", "getMaterialRequirements", "getSupplyDemand"}]),
         Scoped("planning.shortages", [view |-> {"getShortages"}])}

ProcurementController ==
  UNION {Scoped("procurement.requisitions", [
           view |-> {"findAllRequisitions", "findOneRequisition"},
           manage |-> {"createRequisition", "updateRequisition", "submitRequisition",
                       "cancelRequisition", "convertPlannedOrder"},
           approve |-> {"approveRequisition", "rejectRequisition"}]),
         Scoped("procurement.orders", [
           manage |-> {"convertToPO", "createOrder", "updateOrder", "submitOrder",
                       "sendOrder", "acknowledgeOrder", "cancelOrder", "closeOrder"},
           view |-> {"findAllOrders", "findOneOrder"},
           approve |-> {"approveOrder", "rejectOrder"}]),
         Scoped("procurement.receipts", [
           manage |-> {"receiveOrder", "cancelReceipt"},
           view |-> {"findAllReceipts", "findOneReceipt"}]),
         Scoped("procurement.returns", [
           view |-> {"findAllReturns", "findOneReturn"},
           manage |-> {"createReturn", "postReturn", "cancelReturn"}]),
         Scoped("procurement.reports", [
           view |-> {"getPurchaseOrderSummary", "getOpenOrders", "getSupplierPurchases",
                     "getRequisitionReport", "getGoodsReceiptReport", "getSpendReport"}])}

SupplierAddressesController == Scoped("purchasing.suppliers", [
  view |-> {"list"}, manage |-> {"create", "update", "delete"}])

SupplierContactsController == Scoped("purchasing.suppliers", [
  view |-> {"list"}, manage |-> {"create", "update", "delete"}])

PurchaseCostsController == Scoped("purchasing.costs", [
  view |-> {"list", "get"}, manage |-> {"create", "update"}])

SupplierDebitNotesController == Scoped("purchasing.debit-notes", [
  view |-> {"findAll", "findOne"}, manage |-> {"create", "update"},
  approve |-> {"approve"}, post |-> {"post"}, apply |-> {"apply"}, void |-> {"void"}])

PurchaseOrdersController == Scoped("purchasing.orders", [
  view |-> {"list", "get"}, manage |-> {"create", "update", "close"},
  submit |-> {"submit"}, approve |-> {"approve"}, cancel |-> {"cancel"}])

GoodsReceiptsController == Scoped("purchasing.receipts", [
  view |-> {"list", "get"}, manage |-> {"createDraft"}, post |-> {"post"},
  cancel |-> {"cancel"}])

SuppliersController == Scoped("purchasing.suppliers", [
  view |-> {"list", "get"}, manage |-> {"create", "update", "delete"}])

CustomerQualityController == Scoped("quality.customer-issues", [
  view |-> {"findAll", "findOne"}, manage |-> {"create"}, resolve |-> {"resolve"}])

SupplierQualityController ==
  Scoped("quality.supplier-quality", [view |-> {"getSummary", "getScorecard"}])

CapaController == Scoped("quality.capa", [
  view |-> {"findAll", "findOne"}, manage |-> {"create", "update", "start"},
  verify |-> {"verify"}, close |-> {"close"}])

QualityConfigController ==
  Scoped("quality.configuration", [
    view |-> {"getConfig"}, manage |-> {"updateConfig"}])

QualityHoldsController == Scoped("quality.holds", [
  view |-> {"findAll", "findOne"}, manage |-> {"create"}, release |-> {"release"}])

InspectionLotsController == Scoped("quality.inspections", [
  view |-> {"findAll", "findOne"}, manage |-> {"create"}, execute |-> {"recordResults"},
  decide |-> {"decide"}])

NonConformanceController == Scoped("quality.non-conformance", [
  view |-> {"findAll", "findOne"}, manage |-> {"create", "investigate"},
  contain |-> {"contain"}, disposition |-> {"disposition"}, close |-> {"close"}])

InspectionPlansController == Scoped("quality.inspection-plans", [
  view |-> {"findAll", "findOne"}, manage |-> {"create", "update", "deactivate"},
  approve |-> {"activate"}])

QualityReportsController == Scoped("quality.reports", [
  view |-> {"getInspectionSummary", "getPassFailReport", "getLotAging", "getHoldReport",
            "getQuarantineAging", "getNonConformanceReport", "getNcrAging",
            "getCapaReport", "getSupplierQuality", "getCustomerQuality",
            "getReworkScrap", "getTrends"}])

SamplingPlansController == Scoped("quality.sampling", [
  view |-> {"findAll", "findOne"}, manage |-> {"create", "update"}])

WarehouseConfigController ==
  Scoped("warehouse", [view |-> {"getConfig"}, manage |-> {"updateConfig"}])

WarehouseCountsController == Scoped("warehouse.counts", [
  manage |-> {"create", "start", "recordCount", "recount", "cancel"},
  view |-> {"findAll", "findOne"}, review |-> {"review"}, post |-> {"post"}])

WarehousePickingController == Scoped("warehouse.picking", [
  manage |-> {"create", "assign", "start", "cancel"}, view |-> {"findAll", "findOne"},
  execute |-> {"executePick"}])

WarehouseWavesController == Scoped("warehouse.waves", [
  manage |-> {"create", "complete", "cancel"}, view |-> {"findAll", "findOne"},
  release |-> {"release"}])

WarehousePutawayController == Scoped("warehouse.putaway", [
  manage |-> {"create", "assign", "start", "cancel"}, view |-> {"findAll", "findOne"},
  execute |-> {"complete"}])

WarehouseReplenishmentController == Scoped("warehouse.replenishment", [
  manage |-> {"createRule", "generateTasks", "completeTask", "cancelTask"},
  view |-> {"findAllRules", "findAllTasks"}])

WarehouseReportsController == Scoped("warehouse.reports", [
  view |-> {"getStockByLocation", "getLocationOccupancy", "getTaskPerformance",
            "getCountVariances", "getQuarantineAging", "getReplenishmentHistory",
            "getTransferAnalysis", "getInventoryAccuracyRate", "getPickingVelocity"}])

WarehouseStockController ==
  UNION {Scoped("warehouse", [view |-> {"getStock"}]),
         Scoped("warehouse.quarantine", [
           view |-> {"getQuarantines", "getQuarantine"},
           manage |-> {"quarantineStock", "inspectQuarantine"},
           release |-> {"releaseQuarantine"}])}

WarehouseTasksController == Scoped("warehouse.tasks", [
  manage |-> {"create", "assign", "start", "complete", "cancel"},
  view |-> {"findAll", "findOne"}])

WarehouseTransfersController == Scoped("warehouse.transfers", [
  manage |-> {"create", "submit", "cancel"}, view |-> {"findAll", "findOne"},
  approve |-> {"approve", "reject"}, execute |-> {"start", "complete"}])

WarehouseZonesController == Scoped("warehouse.locations", [
  manage |-> {"create", "update"}, view |-> {"findAll", "findOne"}])

SupplyEndpoints ==
  UNION {CategoriesController, ItemsController, PricingController, UnitsController,
         VariantsController, AdjustmentsController, BalancesController, BatchesController,
         CostingController, MovementsController, SerialsController, TransfersController,
         ManufacturingController, CurrenciesController, LocationsController,
         NumberingController, TaxesController, PlanningController, ProcurementController,
         SupplierAddressesController, SupplierContactsController, PurchaseCostsController,
         SupplierDebitNotesController, PurchaseOrdersController, GoodsReceiptsController,
         SuppliersController, CustomerQualityController, SupplierQualityController,
         CapaController, QualityConfigController, QualityHoldsController,
         InspectionLotsController, NonConformanceController, InspectionPlansController,
         QualityReportsController, SamplingPlansController, WarehouseConfigController,
         WarehouseCountsController, WarehousePickingController, WarehouseWavesController,
         WarehousePutawayController, WarehouseReplenishmentController,
         WarehouseReportsController, WarehouseStockController, WarehouseTasksController,
         WarehouseTransfersController, WarehouseZonesController}

-----------------------------------------------------------------------------
(* Administration *)

AppController == Public({"getHello"})

AuditController == Scoped("audit", [view |-> {"list"}])

AuthController ==
  UNION {Public({"register", "login", "refresh"}),
         SignedIn({"logout", "logoutAll", "getProfile"})}

PerformanceBenchmarkController == Scoped("system.benchmarks", [run |-> {"runSuite"}])

JobController ==
  Scoped("system.jobs", [manage |-> {"create", "cancel"}, view |-> {"list", "get"}])

OrganizationsController ==
  SignedIn({"create", "list", "get", "update", "softDelete", "listMembers",
            "addMember", "updateMember", "removeMember", "getSettings", "updateSettings"})

DepartmentsController == Scoped("hr.departments", [
  view |-> {"findAll", "findOne"}, manage |-> {"create", "update", "delete"}])

EmployeesController ==
  UNION {Scoped("hr.employees", [
           view |-> {"findAll", "findOne"},
           manage |-> {"create", "update", "delete", "addCompensation"}]),
         Scoped("payroll.reports", [sensitive |-> {"findCompensation"}])}

JobPositionsController == Scoped("hr.positions", [
  view |-> {"findAll", "findOne"}, manage |-> {"create", "update", "delete"}])

PayrollController ==
  UNION {Scoped("payroll.configuration", [
           view |-> {"getConfig"}, manage |-> {"updateConfig"}]),
         Scoped("payroll.components", [
           view |-> {"findAllComponents", "findOneComponent"},
           manage |-> {"createComponent", "updateComponent", "deleteComponent"}]),
         Scoped("payroll.periods", [
           view |-> {"findAllPeriods", "findOnePeriod"},
           manage |-> {"createPeriod", "addInput"}]),
         Scoped("payroll", [
           calculate |-> {"calculatePayroll"}, approve |-> {"approvePayroll"},
           post |-> {"postPayroll"}, pay |-> {"payPayroll"}, close |-> {"closePeriod"},
           cancel |-> {"cancelPeriod"}]),
         Scoped("payroll.reports", [
           view |-> {"getSummaryReport", "getDepartmentReport", "getLiabilitiesReport"},
           sensitive |-> {"getEmployeeReport", "getHistoryReport"}]),
         Scoped("payroll.budget-control", [view |-> {"checkBudgetAvailability"}])}

RolesController == Scoped("roles", [
  view |-> {"listRoles", "getRole", "listMemberRoles"},
  manage |-> {"createRole", "updateRole", "deleteRole", "updateRolePermissions",
              "assignRole", "removeRole"}])

SecurityDashboardController == Scoped("security", [view |-> {"getSummary"}])

SecurityEventsController == Scoped("security.events", [view |-> {"list", "get"}])

SecurityPoliciesController ==
  Scoped("security.policies", [view |-> {"get"}, manage |-> {"update"}])

SecurityReportsController == Scoped("security.reports", [
  view |-> {"getAuthActivity", "getFailedLogins", "getActiveSessions",
            "getPrivilegedActions", "getAuthFailures", "getTenantEvents",
            "getRateLimits", "getSuspiciousActivity", "getIncidentTimeline",
            "getAdminChanges"}])

SecuritySessionsController == Scoped("security.sessions", [
  view |-> {"list"}, revoke |-> {"revoke", "revokeUserAll"}])

AdministrationEndpoints ==
  UNION {AppController, AuditController, AuthController, PerformanceBenchmarkController,
         JobController, OrganizationsController, DepartmentsController,
         EmployeesController, JobPositionsController, PayrollController, RolesController,
         SecurityDashboardController, SecurityEventsController, SecurityPoliciesController,
         SecurityReportsController, SecuritySessionsController}

-----------------------------------------------------------------------------
(* Platform services *)

AnalyticsQueryController ==
  UNION {Unscoped("analytics.definitions", [
           view |-> {"listDefinitions", "getDefinition"}]),
         Unscoped("analytics.query", [execute |-> {"executeQuery"}]),
         Unscoped("analytics.reports", [export |-> {"exportQuery"}])}

AnalyticsReportsController == Unscoped("analytics", [
  admin |-> {"getOverview", "getPerformance", "getPopular", "getSlowQueries",
             "getExportVolume", "getScheduleReliability", "getDatasetUtilization",
             "getSecurityAudit"}])

DashboardsController == Unscoped("analytics.dashboards", [
  manage |-> {"createDashboard", "updateDashboard", "deleteDashboard", "addWidget",
              "updateWidget", "removeWidget", "shareDashboard", "revokeShare"},
  view |-> {"listDashboards", "getDashboard"}])

ReportSchedulesController == Unscoped("analytics.schedules", [
  manage |-> {"createSchedule", "listSchedules", "getSchedule", "updateSchedule",
              "deleteSchedule"}])

SavedReportsController ==
  UNION {Unscoped("analytics.reports", [
           create |-> {"createReport"},
           view |-> {"listReports", "getReport", "listShares", "listExecutions"},
           update |-> {"updateReport"}, delete |-> {"deleteReport"},
           share |-> {"shareReport", "revokeShare"}]),
         Unscoped("analytics.query", [execute |-> {"executeReport"}])}

BillingCreditsController ==
  UNION {Unscoped("billing", [read |-> {"getCreditBalance", "validateDiscount"}]),
         Unscoped("billing.credits", [manage |-> {"grantCredit"}]),
         Unscoped("billing.discounts", [manage |-> {"createDiscount", "listDiscounts"}])}

BillingDashboardController ==
  UNION {Unscoped("billing", [read |-> {"getTenantOverview"}]),
         Unscoped("billing.reports", [read |-> {"getAdminKpis"}])}

BillingEntitlementsController == Unscoped("billing.entitlements", [
  read |-> {"getSummary", "checkFeature", "getLimit", "listCatalogFeatures"}])

BillingInvoicesController == Unscoped("billing.invoices", [
  read |-> {"listInvoices", "getInvoice"},
  manage |-> {"createInvoice", "finalizeInvoice", "voidInvoice"}])

BillingPaymentsController ==
  UNION {Unscoped("billing.payments", [read |-> {"listPayments"}]),
         Unscoped("billing.invoices", [manage |-> {"applyPayment"}])}

BillingPlansController == Unscoped("billing.plans", [
  read |-> {"listPlans", "getPlan"},
  manage |-> {"createPlan", "createVersion", "publishVersion"}])

BillingReportsController == Unscoped("billing.reports", [
  read |-> {"getMrr", "getArr", "getSubscriptionSummary", "getNewSubscriptions",
            "getChurn", "getAging", "getReliability", "getRevenueByPlan",
            "getMovements"}])

BillingSubscriptionController == Unscoped("billing.subscription", [
  read |-> {"getCurrentSubscription"},
  manage |-> {"createSubscription", "upgradeSubscription", "cancelSubscription",
              "pauseSubscription", "resumeSubscription"}])

BillingUsageController ==
  UNION {Unscoped("billing.subscription", [manage |-> {"recordUsage"}]),
         Unscoped("billing.usage", [
           read |-> {"getUsageSummary", "listUsageRecords", "listQuotas", "listMetrics"}]),
         Unscoped("billing", [admin |-> {"setQuota"}])}

BillingWebhooksController ==
  UNION {Public({"receiveWebhook"}),
         Unscoped("billing", [admin |-> {"listEvents"}])}

DataOperationsController ==
  UNION {Unscoped("data_operations.operations", [
           view |-> {"listDefinitions", "getDefinition"}]),
         Unscoped("data_operations.export", [execute |-> {"exportData", "getJobResult"}]),
         Unscoped("data_operations.import", [
           preview |-> {"previewImport"}, execute |-> {"commitImport"}]),
         Unscoped("data_operations.jobs", [
           view |-> {"listJobs", "getJob"}, cancel |-> {"cancelJob"}]),
         Unscoped("data_operations.audit", [view |-> {"getJobErrors"}]),
         Unscoped("data_operations.templates", [
           manage |-> {"listTemplates", "createTemplate"}])}

DeveloperApiController == Unscoped("developer.api", [
  view |-> {"listEndpoints", "getEndpointDetail"}, explorer |-> {"executeExplorer"}])

DeveloperDashboardController == Unscoped("developer", [view |-> {"getOverview"}])

DeveloperDocsController ==
  UNION {Unscoped("developer.api.docs", [view |-> {"getOpenApiSpec"}]),
         Unscoped("developer.versions", [view |-> {"getVersions"}]),
         Unscoped("developer.webhooks", [view |-> {"getWebhookDocs"}])}

DeveloperErrorsController == Unscoped("developer.api.errors", [view |-> {"getErrors"}])

DeveloperUsageController ==
  UNION {Unscoped("developer.api.usage", [view |-> {"getUsage", "getUsageSummary"}]),
         Unscoped("developer.usage", [export |-> {"exportUsage"}])}

ApiKeysController == Unscoped("integrations.apikeys", [
  view |-> {"listKeys"}, manage |-> {"createKey", "revokeKey"}])

IntegrationConnectionsController == Unscoped("integrations.connections", [
  view |-> {"listConnections", "getConnection"},
  manage |-> {"createConnection", "updateConnection", "deleteConnection"}])

IntegrationEventsController ==
  Unscoped("integrations.events", [view |-> {"listEvents"}])

IntegrationHealthController ==
  Unscoped("integrations.health", [view |-> {"getHealth", "triggerCheck"}])

IntegrationProvidersController ==
  Unscoped("integrations.providers", [view |-> {"listProviders", "getProvider"}])

InboundWebhookController == Public({"receiveWebhook"})

WebhookSubscriptionsController == Unscoped("integrations.webhooks", [
  view |-> {"listSubscriptions", "getSubscription"},
  manage |-> {"createSubscription", "updateSubscription", "deleteSubscription"}])

DeliveriesController ==
  Unscoped("notifications.deliveries", [read |-> {"listDeliveries", "getDelivery"}])

DevicesController ==
  SignedIn({"listMyDevices", "registerDevice", "unregisterDevice"})

NotificationsController ==
  UNION {Unscoped("notifications", [
           send |-> {"sendNotification"}, read |-> {"getNotification"}]),
         SignedIn({"listMyNotifications", "markRead", "markAllRead"})}

PreferencesController ==
  UNION {SignedIn({"getMyPreferences", "updateMyPreference"}),
         Unscoped("notifications.preferences", [
           read |-> {"getPolicies"}, manage |-> {"updatePolicy"}])}

ProvidersController == Unscoped("notifications.providers", [
  read |-> {"listProviders"}, manage |-> {"configureProvider", "testProvider"}])

NotificationReportsController ==
  UNION {Unscoped("notifications", [read |-> {"getDashboard"}]),
         Unscoped("notifications.reports", [read |-> {"getReport"}])}

SchedulesController ==
  UNION {Unscoped("notifications.schedules", [
           read |-> {"listSchedules"},
           manage |-> {"scheduleNotification", "cancelSchedule"}]),
         Unscoped("notifications", [send |-> {"sendBulk"}])}

TemplatesController == Unscoped("notifications.templates", [
  read |-> {"listTemplates", "getTemplate"},
  manage |-> {"createTemplate", "updateTemplate", "createVersion", "publishVersion"}])

AlertingController == Unscoped("operations.alerts", [
  view |-> {"listRules", "getActiveAlerts"},
  manage |-> {"createRule", "updateRule", "acknowledgeAlert", "resolveAlert"}])

HealthController ==
  UNION {Public({"getLiveness", "getReadiness"}),
         Unscoped("operations.health", [view |-> {"getFullHealth"}])}

IncidentController == Unscoped("operations.incidents", [
  view |-> {"listIncidents", "getIncident"},
  manage |-> {"createIncident", "acknowledgeIncident", "resolveIncident",
              "closeIncident"}])

OperationsController ==
  UNION {Unscoped("operations.metrics", [view |-> {"getMetrics", "getPerformance"}]),
         Unscoped("operations.errors", [view |-> {"getErrors"}]),
         Unscoped("operations.jobs", [view |-> {"getJobs"}]),
         Unscoped("operations.cache", [view |-> {"getCache"}]),
         Unscoped("operations.security", [view |-> {"getSecurity"}])}

SloController == Unscoped("operations.slo", [
  view |-> {"listSlos", "getSloCompliance", "getSlo"}, manage |-> {"createSlo"}])

FavoritesController == Unscoped("search.favorites", [
  manage |-> {"addFavorite", "removeFavorite"}, read |-> {"getFavorites"}])

RecentItemsController ==
  SignedIn({"recordRecent", "getMyRecent", "deleteRecent", "clearRecent"})

SavedViewsController == Unscoped("search.views", [
  manage |-> {"createSavedView", "updateSavedView", "deleteSavedView"},
  read |-> {"listSavedViews", "getSavedView"},
  share |-> {"shareSavedView", "revokeShare"}])

SearchAlertsController == Unscoped("search.alerts", [
  manage |-> {"createAlert", "updateAlert", "deleteAlert", "triggerEvaluation"},
  read |-> {"listAlerts", "getAlert"}])

SearchHistoryController == Unscoped("search.history", [
  read |-> {"getMyHistory"}, manage |-> {"deleteItem", "clearHistory"}])

SearchReportsController == Unscoped("search.analytics", [
  read |-> {"getUsageOverview", "getVolumeByModule", "getZeroResultSearches",
            "getSearchPerformance", "getPopularSearchTerms", "getSavedViewsUsage",
            "getSearchAlertActivity", "getSearchApiUsage"}])

UnifiedSearchController == Unscoped("search", [
  execute |-> {"executeSearch"}, read |-> {"searchGet", "getSuggestions"}])

WorkflowApprovalsController == Unscoped("workflows.approvals", [
  view |-> {"listApprovals", "getApproval"}, approve |-> {"approve"},
  reject |-> {"reject"}, delegate |-> {"delegate"}])

WorkflowDefinitionsController == Unscoped("workflows", [
  view |-> {"listDefinitions", "getDefinition"}, create |-> {"createDefinition"},
  update |-> {"updateDefinition"}, manage |-> {"deleteDefinition"},
  execute |-> {"executeDefinition"}])

WorkflowExecutionsController == Unscoped("workflows", [
  view |-> {"listExecutions", "getExecution"},
  execute |-> {"cancelExecution", "retryExecution", "startExecution"}])

WorkflowReportsController == Unscoped("workflows.reports", [
  view |-> {"getOverview", "getSuccessFailure", "getPerformance", "getFailures",
            "getApprovalQueue", "getApprovalSla", "getActionFailures",
            "getRuleEvaluations", "getSchedules", "getAdoption"}])

RulesController ==
  Unscoped("workflows.rules", [view |-> {"validateRule"}, test |-> {"testRule"}])

WorkflowSchedulesController == Unscoped("workflows.schedules", [
  view |-> {"listSchedules"}, manage |-> {"createSchedule", "updateSchedule", "runNow"}])

WorkflowVersionsController == Unscoped("workflows", [
  view |-> {"listVersions", "getVersion", "validateVersion"},
  create |-> {"createVersion"}, publish |-> {"publishVersion"},
  retire |-> {"retireVersion"}])

PlatformEndpoints ==
  UNION {AnalyticsQueryController, AnalyticsReportsController, DashboardsController,
         ReportSchedulesController, SavedReportsController, BillingCreditsController,
         BillingDashboardController, BillingEntitlementsController,
         BillingInvoicesController, BillingPaymentsController, BillingPlansController,
         BillingReportsController, BillingSubscriptionController, BillingUsageController,
         BillingWebhooksController, DataOperationsController, DeveloperApiController,
         DeveloperDashboardController, DeveloperDocsController, DeveloperErrorsController,
         DeveloperUsageController, ApiKeysController, IntegrationConnectionsController,
         IntegrationEventsController, IntegrationHealthController,
         IntegrationProvidersController, InboundWebhookController,
         WebhookSubscriptionsController, DeliveriesController, DevicesController,
         NotificationsController, PreferencesController, ProvidersController,
         NotificationReportsController, SchedulesController, TemplatesController,
         AlertingController, HealthController, IncidentController, OperationsController,
         SloController, FavoritesController, RecentItemsController, SavedViewsController,
         SearchAlertsController, SearchHistoryController, SearchReportsController,
         UnifiedSearchController, WorkflowApprovalsController,
         WorkflowDefinitionsController, WorkflowExecutionsController,
         WorkflowReportsController, RulesController, WorkflowSchedulesController,
         WorkflowVersionsController}

-----------------------------------------------------------------------------

Endpoints ==
  UNION {FinanceEndpoints, SalesEndpoints, SupplyEndpoints, AdministrationEndpoints,
         PlatformEndpoints}
=============================================================================
