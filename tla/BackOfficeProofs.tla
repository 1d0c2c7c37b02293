-------------------------- MODULE BackOfficeProofs --------------------------
(***************************************************************************)
(* The safety of the back office, domain by domain, for every value of the *)
(* constants.  A domain has an invariant of its rows, DomainOk, which      *)
(* every handler of the domain preserves if what its request has read is   *)
(* still so, and which implies the domain's property.  The rest is common  *)
(* to all domains: a handler leaves the domain and the other requests      *)
(* alone, so that where requests do not overlap one is in progress at a    *)
(* time and what it read is still so.                                      *)
(***************************************************************************)
EXTENDS BackOffice, SumTheorems, TLAPS

\* The handler of worker w's request leaves the domain and the other requests
\* alone, and its own request is no longer at its first step.
Keeps(w) ==
  /\ "domain" \in DOMAIN rows'
  /\ rows'.domain = rows.domain
  /\ requests' = [requests EXCEPT ![w] = requests'[w]]
  /\ requests'[w].pc # "read"

\* What is needed of the state before the step.
Placed(w) == "domain" \in DOMAIN rows /\ requests = [v \in Workers |-> requests[v]] /\ w \in Workers

\* db is about the domain the rows are about.
SameDomain(db) == "domain" \in DOMAIN db /\ db.domain = rows.domain

\* Writing to a table leaves the domain as it is.
LEMMA SameExcept ==
  \A db, f, v : SameDomain(db) /\ f # "domain" => SameDomain([db EXCEPT ![f] = v])
  BY DEF SameDomain

LEMMA SameRows == \A w : Placed(w) => SameDomain(rows)
  BY DEF Placed, SameDomain

\* So do the ways in which a handler writes.
LEMMA CommitKeeps == \A w, new : Placed(w) /\ Commit(w, new) /\ SameDomain(new) => Keeps(w)
  BY DEF Keeps, Placed, Idle, Commit, SameDomain

LEMMA CommitIfKeeps ==
  \A w, legal, new : Placed(w) /\ CommitIf(w, legal, new) /\ SameDomain(new) => Keeps(w)
  BY DEF Keeps, Placed, Idle, Commit, CommitIf, SameDomain

LEMMA ContinueKeeps ==
  \A w, new, pc, d : Placed(w) /\ Continue(w, new, pc, d) /\ SameDomain(new) /\ pc # "read" => Keeps(w)
  BY DEF Keeps, Placed, Idle, Continue, SameDomain

LEMMA ProceedKeeps ==
  \A w, new, pc, d : Placed(w) /\ Proceed(w, new, pc, d) /\ SameDomain(new) /\ pc # "read" => Keeps(w)
  BY DEF Keeps, Placed, Idle, Proceed, SameDomain

LEMMA SetStatusKeeps ==
  \A w, table, id, from, to :
    Placed(w) /\ SetStatus(w, table, id, from, to) /\ table # "domain" => Keeps(w)
  <1> SUFFICES ASSUME NEW w, NEW table, NEW id, NEW from, NEW to,
                      Placed(w), SetStatus(w, table, id, from, to), table # "domain"
               PROVE  Keeps(w)
    OBVIOUS
  <1>1. SameDomain([rows EXCEPT ![table][id].status = to])
    BY DEF Placed, SameDomain
  <1> QED
    BY <1>1, CommitKeeps DEF SetStatus

\* The handlers of each domain: whatever they write, the domain and the other
\* requests stay.
LEMMA SessionsNextKeeps ==
  ASSUME NEW w \in Workers, Placed(w), SessionsNext(w)
  PROVE  Keeps(w)
  BY CommitKeeps, SameRows, SameExcept DEF SessionsNext, Register, RevokeAllUserSessions,
     Login, Refresh, Logout, LogoutAll, RevokeSession, SessionExpires, Revoked

LEMMA AccessNextKeeps ==
  ASSUME NEW w \in Workers, Placed(w), AccessNext(w)
  PROVE  Keeps(w)
  BY CommitKeeps, SameRows, SameExcept DEF AccessNext, ArchiveOrganization, CreateOrganization,
     AddMember, RemoveMember, UpdateMember, AssignRole, RemoveRole, CreateCustomRole,
     DeleteCustomRole, UpdateRolePermissions

LEMMA LedgerNextKeeps ==
  ASSUME NEW w \in Workers, Placed(w), LedgerNext(w)
  PROVE  Keeps(w)
  BY CommitKeeps, SetStatusKeeps, SameRows, SameExcept DEF LedgerNext, CreateAccount,
     UpdateAccount, DeleteAccount, CreatePeriod, StartClosing, CloseLedger, ReopenLedger,
     CreateEntry, UpdateEntry, DeleteEntry, PostEntry, ReverseEntry

LEMMA PurchasingNextKeeps ==
  ASSUME NEW w \in Workers, Placed(w), PurchasingNext(w)
  PROVE  Keeps(w)
<1>1. ASSUME NEW q, CreateRequisition(w, q) PROVE Keeps(w)
  BY <1>1, CommitKeeps, SameRows, SameExcept DEF CreateRequisition
<1>2. ASSUME NEW q, ConvertPlannedOrder(w, q) PROVE Keeps(w)
  BY <1>2, CommitKeeps, SameRows, SameExcept DEF ConvertPlannedOrder
<1>3. ASSUME NEW q, SubmitRequisition(w, q) PROVE Keeps(w)
  BY <1>3, SetStatusKeeps, SameRows, SameExcept DEF SubmitRequisition
<1>4. ASSUME NEW q, ApproveRequisition(w, q) PROVE Keeps(w)
  BY <1>4, SetStatusKeeps, SameRows, SameExcept DEF ApproveRequisition
<1>5. ASSUME NEW q, RejectRequisition(w, q) PROVE Keeps(w)
  BY <1>5, SetStatusKeeps, SameRows, SameExcept DEF RejectRequisition
<1>6. ASSUME NEW q, CancelRequisition(w, q) PROVE Keeps(w)
  BY <1>6, SetStatusKeeps, SameRows, SameExcept DEF CancelRequisition
<1>7. ASSUME NEW q, NEW o, ConvertToPO(w, q, o) PROVE Keeps(w)
  BY <1>7, CommitKeeps, SameRows, SameExcept DEF ConvertToPO, Ordered
<1>8. ASSUME NEW o, CreatePurchaseOrder(w, o) PROVE Keeps(w)
  BY <1>8, CommitKeeps, SameRows, SameExcept DEF CreatePurchaseOrder, Ordered
<1>9. ASSUME NEW o, UpdatePurchaseOrder(w, o) PROVE Keeps(w)
  BY <1>9, CommitKeeps, CommitIfKeeps, SameRows, SameExcept DEF UpdatePurchaseOrder, Ordered
<1>10. ASSUME NEW o, SubmitPurchaseOrder(w, o) PROVE Keeps(w)
  BY <1>10, SetStatusKeeps, SameRows, SameExcept DEF SubmitPurchaseOrder
<1>11. ASSUME NEW o, ApprovePurchaseOrder(w, o) PROVE Keeps(w)
  BY <1>11, SetStatusKeeps, SameRows, SameExcept DEF ApprovePurchaseOrder
<1>12. ASSUME NEW o, CancelPurchaseOrder(w, o) PROVE Keeps(w)
  BY <1>12, SetStatusKeeps, SameRows, SameExcept DEF CancelPurchaseOrder
<1>13. ASSUME NEW o, ClosePurchaseOrder(w, o) PROVE Keeps(w)
  BY <1>13, SetStatusKeeps, SameRows, SameExcept DEF ClosePurchaseOrder
<1>14. ASSUME NEW o, CreateProcurementOrder(w, o) PROVE Keeps(w)
  BY <1>14, CommitKeeps, SameRows, SameExcept DEF CreateProcurementOrder, Ordered
<1>15. ASSUME NEW o, UpdateProcurementOrder(w, o) PROVE Keeps(w)
  BY <1>15, CommitKeeps, CommitIfKeeps, SameRows, SameExcept DEF UpdateProcurementOrder,
     Ordered
<1>16. ASSUME NEW o, SubmitProcurementOrder(w, o) PROVE Keeps(w)
  BY <1>16, SetStatusKeeps, SameRows, SameExcept DEF SubmitProcurementOrder
<1>17. ASSUME NEW o, ApproveProcurementOrder(w, o) PROVE Keeps(w)
  BY <1>17, SetStatusKeeps, SameRows, SameExcept DEF ApproveProcurementOrder
<1>18. ASSUME NEW o, RejectProcurementOrder(w, o) PROVE Keeps(w)
  BY <1>18, SetStatusKeeps, SameRows, SameExcept DEF RejectProcurementOrder
<1>19. ASSUME NEW o, SendProcurementOrder(w, o) PROVE Keeps(w)
  BY <1>19, SetStatusKeeps, SameRows, SameExcept DEF SendProcurementOrder
<1>20. ASSUME NEW o, AcknowledgeOrder(w, o) PROVE Keeps(w)
  BY <1>20, SetStatusKeeps, SameRows, SameExcept DEF AcknowledgeOrder
<1>21. ASSUME NEW o, CancelProcurementOrder(w, o) PROVE Keeps(w)
  BY <1>21, SetStatusKeeps, SameRows, SameExcept DEF CancelProcurementOrder
<1>22. ASSUME NEW o, CloseProcurementOrder(w, o) PROVE Keeps(w)
  BY <1>22, SetStatusKeeps, SameRows, SameExcept DEF CloseProcurementOrder
<1>23. ASSUME NEW o, NEW r, CreateReceipt(w, o, r) PROVE Keeps(w)
  BY <1>23, CommitKeeps, SameRows, SameExcept DEF CreateReceipt
<1>24. ASSUME NEW o, NEW r, PostReceipt(w, o, r) PROVE Keeps(w)
  BY <1>24, CommitKeeps, CommitIfKeeps, SameRows, SameExcept DEF PostReceipt
<1>25. ASSUME NEW o, NEW r, ReceivePurchaseOrder(w, o, r) PROVE Keeps(w)
  BY <1>25, CommitKeeps, SameRows, SameExcept DEF ReceivePurchaseOrder
<1>26. ASSUME NEW r, CancelReceipt(w, r) PROVE Keeps(w)
  BY <1>26, SetStatusKeeps, SameRows, SameExcept DEF CancelReceipt
<1>27. ASSUME NEW r, CancelProcurementReceipt(w, r) PROVE Keeps(w)
  BY <1>27, SetStatusKeeps, SameRows, SameExcept DEF CancelProcurementReceipt
<1>28. ASSUME NEW t, PostPurchaseReturn(w, t) PROVE Keeps(w)
  BY <1>28, CommitKeeps, SameRows, SameExcept DEF PostPurchaseReturn
<1>29. ASSUME NEW t, CancelPurchaseReturn(w, t) PROVE Keeps(w)
  BY <1>29, SetStatusKeeps, SameRows, SameExcept DEF CancelPurchaseReturn
<1>30. ASSUME NEW t, NEW r, CreatePurchaseReturn(w, t, r) PROVE Keeps(w)
  BY <1>30, CommitKeeps, SameRows, SameExcept DEF CreatePurchaseReturn
<1> QED
  BY <1>1, <1>2, <1>3, <1>4, <1>5, <1>6, <1>7, <1>8, <1>9, <1>10, <1>11, <1>12, <1>13, <1>14,
     <1>15, <1>16, <1>17, <1>18, <1>19, <1>20, <1>21, <1>22, <1>23, <1>24, <1>25, <1>26, <1>27,
     <1>28, <1>29, <1>30 DEF PurchasingNext

LEMMA WarehouseNextKeeps ==
  ASSUME NEW w \in Workers, Placed(w), WarehouseNext(w)
  PROVE  Keeps(w)
  BY CommitKeeps, SetStatusKeeps, SameRows, SameExcept DEF WarehouseNext, CreateStockTransfer,
     CompleteStockTransfer, CancelStockTransfer, CreateTransfer, SubmitTransfer,
     ApproveTransfer, RejectTransfer, StartTransfer, CompleteTransfer, CancelTransfer,
     CreatePutaway, AssignPutaway, StartPutaway, CompletePutaway, CancelPutaway, CreateTask,
     AssignTask, StartTask, CompleteTask, CancelTask, GenerateReplenishment,
     CompleteReplenishment, CancelReplenishment, CreatePick, AssignPick, StartPick,
     ExecutePick, CancelPick, CreateWave, ReleaseWave, CompleteWave, CancelWave, CreateCount,
     StartCount, RecordCount, RecountCount, ReviewCount, PostCount, CancelCount,
     QuarantineStock, InspectQuarantine, ReleaseQuarantine, CreateDocument, CompleteDocument,
     SetDocument, Counted, Moved

LEMMA ProductionNextKeeps ==
  ASSUME NEW w \in Workers, Placed(w), ProductionNext(w)
  PROVE  Keeps(w)
  BY CommitKeeps, SetStatusKeeps, SameRows, SameExcept DEF ProductionNext, CreateProduction,
     UpdateProduction, DeleteProduction, ReleaseProduction, StartProduction, CancelProduction,
     IssueMaterial, CompleteProduction, CloseProduction

LEMMA BomsNextKeeps ==
  ASSUME NEW w \in Workers, Placed(w), BomsNext(w)
  PROVE  Keeps(w)
  BY CommitKeeps, SetStatusKeeps, SameRows, SameExcept DEF BomsNext, CreateBom, UpdateBom,
     DeleteBom, ActivateBom, DeactivateBom, UseBom

LEMMA PlanningNextKeeps ==
  ASSUME NEW w \in Workers, Placed(w), PlanningNext(w)
  PROVE  Keeps(w)
<1>1. ASSUME NEW r, CreateRun(w, r) PROVE Keeps(w)
  BY <1>1, CommitKeeps, SameRows, SameExcept DEF CreateRun
<1>2. ASSUME NEW r, ExecuteRun(w, r) PROVE Keeps(w)
  BY <1>2, CommitKeeps, SameRows, SameExcept DEF ExecuteRun
<1>3. ASSUME NEW r, CancelRun(w, r) PROVE Keeps(w)
  BY <1>3, SetStatusKeeps, SameRows, SameExcept DEF CancelRun
<1>4. ASSUME NEW r, UpdatePlan(w, r) PROVE Keeps(w)
  BY <1>4, SetStatusKeeps, SameRows, SameExcept DEF UpdatePlan
<1> QED
  BY <1>1, <1>2, <1>3, <1>4 DEF PlanningNext

LEMMA ShippingNextKeeps ==
  ASSUME NEW w \in Workers, Placed(w), ShippingNext(w)
  PROVE  Keeps(w)
  BY CommitKeeps, SetStatusKeeps, SameRows, SameExcept DEF ShippingNext, CancelShippedDelivery,
     CreateShipment, PrepareShipment, AssignCarrier, DispatchShipment, MarkInTransit,
     MarkDelivered, MarkFailed, InitiateReturn, CloseShipment, CancelShipment

LEMMA ReturnsNextKeeps ==
  ASSUME NEW w \in Workers, Placed(w), ReturnsNext(w)
  PROVE  Keeps(w)
  BY CommitKeeps, SetStatusKeeps, SameRows, SameExcept DEF ReturnsNext, CreateReturn,
     SubmitReturn, ReviewReturn, AuthorizeReturn, RejectReturn, CancelReturn, VoidReturn,
     CloseReturn, ReceiveReturn, RequestInspection, SyncInspection, DisposeReturn,
     CreateCreditNoteResolution, CreateRefundResolution, CreateDebitNoteResolution,
     CreateReplacementResolution, CreateResolution

LEMMA TicketsNextKeeps ==
  ASSUME NEW w \in Workers, Placed(w), TicketsNext(w)
  PROVE  Keeps(w)
<1>1. ASSUME NEW i, CreateIntake(w, i) PROVE Keeps(w)
  BY <1>1, CommitKeeps, SameRows, SameExcept DEF CreateIntake
<1>2. ASSUME NEW i, CancelIntake(w, i) PROVE Keeps(w)
  BY <1>2, SetStatusKeeps, SameRows, SameExcept DEF CancelIntake
<1>3. ASSUME NEW i, NEW t, TriageIntake(w, i, t) PROVE Keeps(w)
  BY <1>3, CommitKeeps, SameRows, SameExcept DEF TriageIntake, NewTicket
<1>4. ASSUME NEW t, CreateTicket(w, t) PROVE Keeps(w)
  BY <1>4, CommitKeeps, SameRows, SameExcept DEF CreateTicket, NewTicket
<1>5. ASSUME NEW t, AssignTicket(w, t) PROVE Keeps(w)
  BY <1>5, CommitKeeps, SameRows, SameExcept DEF AssignTicket
<1>6. ASSUME NEW t, StartDiagnosis(w, t) PROVE Keeps(w)
  BY <1>6, SetStatusKeeps, SameRows, SameExcept DEF StartDiagnosis
<1>7. ASSUME NEW t, HoldTicket(w, t) PROVE Keeps(w)
  BY <1>7, SetStatusKeeps, SameRows, SameExcept DEF HoldTicket
<1>8. ASSUME NEW t, ResumeTicket(w, t) PROVE Keeps(w)
  BY <1>8, SetStatusKeeps, SameRows, SameExcept DEF ResumeTicket
<1>9. ASSUME NEW t, RecordDiagnosis(w, t) PROVE Keeps(w)
  BY <1>9, CommitKeeps, SameRows, SameExcept DEF RecordDiagnosis
<1>10. ASSUME NEW t, FinalizeDiagnosis(w, t) PROVE Keeps(w)
  BY <1>10, SetStatusKeeps, SameRows, SameExcept DEF FinalizeDiagnosis
<1>11. ASSUME NEW t, CreateEstimate(w, t) PROVE Keeps(w)
  BY <1>11, CommitKeeps, SameRows, SameExcept DEF CreateEstimate
<1>12. ASSUME NEW t, SendEstimate(w, t) PROVE Keeps(w)
  BY <1>12, SetStatusKeeps, SameRows, SameExcept DEF SendEstimate
<1>13. ASSUME NEW t, ApproveEstimate(w, t) PROVE Keeps(w)
  BY <1>13, CommitKeeps, SameRows, SameExcept DEF ApproveEstimate
<1>14. ASSUME NEW t, RejectEstimate(w, t) PROVE Keeps(w)
  BY <1>14, SetStatusKeeps, SameRows, SameExcept DEF RejectEstimate
<1> QED
  BY <1>1, <1>2, <1>3, <1>4, <1>5, <1>6, <1>7, <1>8, <1>9, <1>10, <1>11, <1>12, <1>13, <1>14
     DEF TicketsNext

LEMMA RepairsNextKeeps ==
  ASSUME NEW w \in Workers, Placed(w), RepairsNext(w)
  PROVE  Keeps(w)
<1>1. ASSUME UpdateLabor(w) PROVE Keeps(w)
  BY <1>1, CommitKeeps, SameRows, SameExcept DEF UpdateLabor
<1>2. ASSUME FinalizeLabor(w) PROVE Keeps(w)
  BY <1>2, CommitKeeps, SameRows, SameExcept DEF FinalizeLabor
<1>3. ASSUME NEW o, CreateRepair(w, o) PROVE Keeps(w)
  BY <1>3, CommitKeeps, SameRows, SameExcept DEF CreateRepair
<1>4. ASSUME NEW o, CreateRepairFromRma(w, o) PROVE Keeps(w)
  BY <1>4, CommitKeeps, SameRows, SameExcept DEF CreateRepairFromRma
<1>5. ASSUME NEW o, ReleaseRepair(w, o) PROVE Keeps(w)
  BY <1>5, SetStatusKeeps, SameRows, SameExcept DEF ReleaseRepair
<1>6. ASSUME NEW o, StartRepair(w, o) PROVE Keeps(w)
  BY <1>6, SetStatusKeeps, SameRows, SameExcept DEF StartRepair
<1>7. ASSUME NEW o, RequestQualityCheck(w, o) PROVE Keeps(w)
  BY <1>7, CommitKeeps, SameRows, SameExcept DEF RequestQualityCheck
<1>8. ASSUME NEW o, DecideLot(w, o) PROVE Keeps(w)
  BY <1>8, CommitKeeps, SameRows, SameExcept DEF DecideLot
<1>9. ASSUME NEW o, CompleteRepair(w, o) PROVE Keeps(w)
  BY <1>9, ContinueKeeps, SameRows, SameExcept DEF CompleteRepair
<1>10. ASSUME NEW o, FinishRepair(w, o) PROVE Keeps(w)
  BY <1>10, CommitKeeps, SameRows, SameExcept DEF FinishRepair
<1>11. ASSUME NEW o, ProcessHandover(w, o) PROVE Keeps(w)
  BY <1>11, SetStatusKeeps, SameRows, SameExcept DEF ProcessHandover
<1>12. ASSUME NEW o, CloseRepair(w, o) PROVE Keeps(w)
  BY <1>12, SetStatusKeeps, SameRows, SameExcept DEF CloseRepair
<1>13. ASSUME NEW o, CancelRepair(w, o) PROVE Keeps(w)
  BY <1>13, SetStatusKeeps, SameRows, SameExcept DEF CancelRepair
<1>14. ASSUME NEW o, RecordLabor(w, o) PROVE Keeps(w)
  <2>1. PICK n \in Amounts, status \in {"DRAFT", "FINAL"} :
          Commit(w, [rows EXCEPT
            !.labor = [status |-> status, hours |-> n],
            !.repairs[o].laborCost = Seen(w).repairs[o].laborCost + n,
            !.repairs[o].charge = Seen(w).repairs[o].charge + n,
            !.repairs[o].status = AfterStart(Seen(w).repairs[o].status)])
    BY <1>14 DEF RecordLabor
  <2> QED
    BY <2>1, CommitKeeps, SameRows, SameExcept
<1>15. ASSUME NEW o, InvoiceRepair(w, o) PROVE Keeps(w)
  BY <1>15, CommitKeeps, SameRows, SameExcept DEF InvoiceRepair
<1>16. ASSUME NEW o, NEW p, AddPart(w, o, p) PROVE Keeps(w)
  BY <1>16, CommitKeeps, SameRows, SameExcept DEF AddPart
<1>17. ASSUME NEW o, NEW p, ReserveParts(w, o, p) PROVE Keeps(w)
  BY <1>17, CommitKeeps, SameRows, SameExcept DEF ReserveParts
<1>18. ASSUME NEW o, NEW p, IssueParts(w, o, p) PROVE Keeps(w)
  BY <1>18, CommitKeeps, SameRows, SameExcept DEF IssueParts
<1>19. ASSUME NEW o, NEW p, ReturnParts(w, o, p) PROVE Keeps(w)
  BY <1>19, CommitKeeps, SameRows, SameExcept DEF ReturnParts
<1> QED
  BY <1>1, <1>2, <1>3, <1>4, <1>5, <1>6, <1>7, <1>8, <1>9, <1>10, <1>11, <1>12, <1>13, <1>14,
     <1>15, <1>16, <1>17, <1>18, <1>19 DEF RepairsNext

LEMMA QualityNextKeeps ==
  ASSUME NEW w \in Workers, Placed(w), QualityNext(w)
  PROVE  Keeps(w)
<1>1. ASSUME NEW l, CreateLot(w, l) PROVE Keeps(w)
  BY <1>1, CommitKeeps, SameRows, SameExcept DEF CreateLot
<1>2. ASSUME NEW l, RecordResults(w, l) PROVE Keeps(w)
  BY <1>2, CommitKeeps, SameRows, SameExcept DEF RecordResults
<1>3. ASSUME NEW l, DecideInspection(w, l) PROVE Keeps(w)
  BY <1>3, CommitKeeps, SameRows, SameExcept DEF DecideInspection
<1>4. ASSUME NEW h, CreateHold(w, h) PROVE Keeps(w)
  BY <1>4, CommitKeeps, SameRows, SameExcept DEF CreateHold
<1>5. ASSUME NEW h, ReleaseHold(w, h) PROVE Keeps(w)
  BY <1>5, SetStatusKeeps, SameRows, SameExcept DEF ReleaseHold
<1> QED
  BY <1>1, <1>2, <1>3, <1>4, <1>5 DEF QualityNext

LEMMA NcrNextKeeps ==
  ASSUME NEW w \in Workers, Placed(w), NcrNext(w)
  PROVE  Keeps(w)
  BY CommitKeeps, SetStatusKeeps, SameRows, SameExcept DEF NcrNext, CreateNcr, ContainNcr,
     InvestigateNcr, DispositionNcr, CloseNcr, CreateCapa, StartCapa, VerifyCapa, CloseCapa

LEMMA ExpensesNextKeeps ==
  ASSUME NEW w \in Workers, Placed(w), ExpensesNext(w)
  PROVE  Keeps(w)
<1>1. ASSUME NEW c, CreateClaim(w, c) PROVE Keeps(w)
  BY <1>1, CommitKeeps, SameRows, SameExcept DEF CreateClaim
<1>2. ASSUME NEW c, UpdateClaim(w, c) PROVE Keeps(w)
  BY <1>2, CommitKeeps, SameRows, SameExcept DEF UpdateClaim
<1>3. ASSUME NEW c, SubmitClaim(w, c) PROVE Keeps(w)
  BY <1>3, SetStatusKeeps, SameRows, SameExcept DEF SubmitClaim
<1>4. ASSUME NEW c, ApproveClaim(w, c) PROVE Keeps(w)
  BY <1>4, CommitKeeps, SameRows, SameExcept DEF ApproveClaim
<1>5. ASSUME NEW c, RejectClaim(w, c) PROVE Keeps(w)
  BY <1>5, SetStatusKeeps, SameRows, SameExcept DEF RejectClaim
<1>6. ASSUME NEW c, CancelClaim(w, c) PROVE Keeps(w)
  BY <1>6, SetStatusKeeps, SameRows, SameExcept DEF CancelClaim
<1>7. ASSUME NEW c, PostClaim(w, c) PROVE Keeps(w)
  BY <1>7, CommitKeeps, SameRows, SameExcept DEF PostClaim
<1>8. ASSUME NEW c, VoidClaim(w, c) PROVE Keeps(w)
  BY <1>8, CommitKeeps, SameRows, SameExcept DEF VoidClaim
<1>9. ASSUME NEW c, Reimburse(w, c) PROVE Keeps(w)
  <2>1. PICK n : Commit(w, [rows EXCEPT
                               !.claims[c].paid = @ + n,
                               !.claims[c].due = rows.claims[c].due - n,
                               !.claims[c].status = IF n = rows.claims[c].due THEN "PAID" ELSE @,
                               !.reimbursed[c] = @ + n,
                               !.payable = @ - n])
    BY <1>9 DEF Reimburse
  <2>2. SameDomain([rows EXCEPT
                      !.claims[c].paid = @ + n,
                      !.claims[c].due = rows.claims[c].due - n,
                      !.claims[c].status = IF n = rows.claims[c].due THEN "PAID" ELSE @,
                      !.reimbursed[c] = @ + n,
                      !.payable = @ - n])
    BY DEF SameDomain, Placed
  <2> QED
    BY <2>1, <2>2, CommitKeeps
<1> QED
  BY <1>1, <1>2, <1>3, <1>4, <1>5, <1>6, <1>7, <1>8, <1>9 DEF ExpensesNext

LEMMA AssetsNextKeeps ==
  ASSUME NEW w \in Workers, Placed(w), AssetsNext(w)
  PROVE  Keeps(w)
  BY CommitKeeps, SetStatusKeeps, SameRows, SameExcept DEF AssetsNext, CreateAsset,
     UpdateAsset, Capitalize, Activate, VoidAsset, DisposeAsset, PostDepreciation

LEMMA PayrollNextKeeps ==
  ASSUME NEW w \in Workers, Placed(w), PayrollNext(w)
  PROVE  Keeps(w)
  BY CommitKeeps, SetStatusKeeps, SameRows, SameExcept DEF PayrollNext, CreatePayrollPeriod,
     AddInput, CancelPayroll, ClosePayroll, CalculatePayroll, ApprovePayroll, PostPayroll,
     PayPayroll

LEMMA TaxNextKeeps ==
  ASSUME NEW w \in Workers, Placed(w), TaxNext(w)
  PROVE  Keeps(w)
  BY CommitKeeps, ProceedKeeps, CommitIfKeeps, SameRows, SameExcept DEF TaxNext,
     CreateTaxPeriod, PrepareTaxPeriod, LockTaxPeriod, RecordTaxInside, PostTax, RecordTax

LEMMA BankingNextKeeps ==
  ASSUME NEW w \in Workers, Placed(w), BankingNext(w)
  PROVE  Keeps(w)
  BY CommitKeeps, CommitIfKeeps, SameRows, SameExcept DEF BankingNext, CreateStatement,
     ImportTransactions, StartReconciliation, CompleteReconciliation, CancelReconciliation,
     MatchPayment, MatchJournal, Unmatch, PostAdjustment

LEMMA BudgetsNextKeeps ==
  ASSUME NEW w \in Workers, Placed(w), BudgetsNext(w)
  PROVE  Keeps(w)
  BY CommitKeeps, SetStatusKeeps, SameRows, SameExcept DEF BudgetsNext, CreateBudget,
     UpdateBudget, DeleteBudget, SubmitBudget, ApproveBudget, RejectBudget, CancelBudget,
     CloseBudget, ActivateBudget

LEMMA QuotationsNextKeeps ==
  ASSUME NEW w \in Workers, Placed(w), QuotationsNext(w)
  PROVE  Keeps(w)
  BY CommitKeeps, ContinueKeeps, SetStatusKeeps, SameRows, SameExcept DEF QuotationsNext,
     CreateQuotation, UpdateQuotation, SendQuotation, AcceptQuotation, RejectQuotation,
     CancelQuotation, CrmSubmit, CrmApprove, CrmReject, CrmSend, CrmAccept, CrmVoid,
     ConvertQuotation, CrmConvert, CrmConverted, Accept

LEMMA LeadsNextKeeps ==
  ASSUME NEW w \in Workers, Placed(w), LeadsNext(w)
  PROVE  Keeps(w)
  BY CommitKeeps, SetStatusKeeps, SameRows, SameExcept DEF LeadsNext, CreateLead, UpdateLead,
     QualifyLead, ConvertLead, CloseLead, CreateOpportunity, UpdateOpportunity, ChangeStage,
     CloseWon, CloseLost

LEMMA CostingNextKeeps ==
  ASSUME NEW w \in Workers, Placed(w), CostingNext(w)
  PROVE  Keeps(w)
  BY CommitKeeps, SameRows, SameExcept DEF CostingNext, RecordReceipt, RecordReturnRestock,
     RecordAdjustmentIn, RecordAdjustmentOut, RecordAndPostCogs, RecordIn, RecordOut, Inbound,
     Outbound

LEMMA SubscriptionsNextKeeps ==
  ASSUME NEW w \in Workers, Placed(w), SubscriptionsNext(w)
  PROVE  Keeps(w)
  BY CommitKeeps, ContinueKeeps, SetStatusKeeps, SameRows, SameExcept DEF SubscriptionsNext,
     CreateSubscription, UpgradeSubscription, CancelSubscription, PauseSubscription,
     ResumeSubscription, TellSubscription, ReceiveEvent, FinishEvent, FailEvent

LEMMA BillingNextKeeps ==
  ASSUME NEW w \in Workers, Placed(w), BillingNext(w)
  PROVE  Keeps(w)
  BY CommitKeeps, ContinueKeeps, CommitIfKeeps, SameRows, SameExcept DEF BillingNext,
     GrantCredit, ConsumeCredit, CreateBillingInvoice, FinalizeInvoice, ApplyPayment,
     VoidBillingInvoice, SetQuota, RecordUsage, ReceiveEvent, TellPayment, FinishEvent,
     FailEvent

LEMMA ImportNextKeeps ==
  ASSUME NEW w \in Workers, Placed(w), ImportNext(w)
  PROVE  Keeps(w)
  BY CommitKeeps, ContinueKeeps, ProceedKeeps, SameRows, SameExcept DEF ImportNext,
     PreviewImport, CancelJob, StartKey, ExpireKey, StartImport, SkipBatch, WriteBatch,
     FailBatch, CompleteBatch, FinishImport, CompleteKey

LEMMA WebhooksNextKeeps ==
  ASSUME NEW w \in Workers, Placed(w), WebhooksNext(w)
  PROVE  Keeps(w)
  BY CommitKeeps, ProceedKeeps, SameRows, SameExcept DEF WebhooksNext, RecordIntegrationEvent,
     EnqueueDispatch, ScheduleDelivery, EnqueueDelivery, AttemptWebhook, AcceptWebhook,
     AnswerWebhook

LEMMA NotificationsNextKeeps ==
  ASSUME NEW w \in Workers, Placed(w), NotificationsNext(w)
  PROVE  Keeps(w)
  BY CommitKeeps, ContinueKeeps, ProceedKeeps, SameRows, SameExcept DEF NotificationsNext,
     ScheduleNotification, EnqueueSchedule, CancelSchedule, ExecuteSchedule,
     RequestNotification, ReceiveEvent, CreateNotification, CreateDelivery, StartDelivery,
     RecordAttempt, MarkSent, TellDelivery, FinishEvent, FailEvent

LEMMA NumberingNextKeeps ==
  ASSUME NEW w \in Workers, Placed(w), NumberingNext(w)
  PROVE  Keeps(w)
  BY CommitKeeps, CommitIfKeeps, SameRows, SameExcept DEF NumberingNext, CreateSequence,
     UpdateSequence, NextNumber

LEMMA CatalogNextKeeps ==
  ASSUME NEW w \in Workers, Placed(w), CatalogNext(w)
  PROVE  Keeps(w)
  BY CommitKeeps, SetStatusKeeps, SameRows, SameExcept DEF CatalogNext, CreateUnit, UpdateUnit,
     DeactivateUnit, CreateCategory, UpdateCategory, DeleteCategory, CreateItem, UpdateItem,
     DeleteItem, CreateVariant, UpdateVariant, DeleteVariant

LEMMA PricingNextKeeps ==
  ASSUME NEW w \in Workers, Placed(w), PricingNext(w)
  PROVE  Keeps(w)
  BY CommitKeeps, SetStatusKeeps, SameRows, SameExcept DEF PricingNext, UpdateCurrency,
     DeactivateCurrency, DeleteTarget, CreatePricingTier, UpdatePricingTier, CreatePrice,
     UpdatePrice, DeletePrice

LEMMA LocationsNextKeeps ==
  ASSUME NEW w \in Workers, Placed(w), LocationsNext(w)
  PROVE  Keeps(w)
  BY CommitKeeps, SetStatusKeeps, SameRows, SameExcept DEF LocationsNext, CreateLocation,
     UpdateLocation, DeleteLocation

LEMMA PartiesNextKeeps ==
  ASSUME NEW w \in Workers, Placed(w), PartiesNext(w)
  PROVE  Keeps(w)
  BY CommitKeeps, ProceedKeeps, CommitIfKeeps, SetStatusKeeps, SameRows, SameExcept DEF
     PartiesNext, DeleteGroup, CreateParty, UpdateParty, DeleteParty, CreateContact,
     UpdateContact, RemoveContact, CrmClearPrimary, CrmWriteContact, CreateAddress,
     UpdateAddress, RemoveAddress

LEMMA StaffNextKeeps ==
  ASSUME NEW w \in Workers, Placed(w), StaffNext(w)
  PROVE  Keeps(w)
  BY CommitKeeps, SetStatusKeeps, SameRows, SameExcept DEF StaffNext, CreateDepartment,
     UpdateDepartment, DeleteDepartment, CreatePosition, UpdatePosition, DeletePosition,
     CreateEmployee, UpdateEmployee, DeleteEmployee

LEMMA CompensationsNextKeeps ==
  ASSUME NEW w \in Workers, Placed(w), CompensationsNext(w)
  PROVE  Keeps(w)
  BY CommitKeeps, SetStatusKeeps, SameRows, SameExcept DEF CompensationsNext, EarnerLeaves,
     CreateCompensation, UpdateCompensation

-----------------------------------------------------------------------------

\* Where requests do not overlap, at most one is in progress, and one at its
\* first step has read the rows as they are.
Ready ==
  /\ "domain" \in DOMAIN rows
  /\ requests = [w \in Workers |-> requests[w]]
  /\ rows.domain \notin Overlapping =>
       /\ \A v, w \in Workers : requests[v] # Idle /\ requests[w] # Idle => v = w
       /\ \A w \in Workers : requests[w].pc = "read" => Seen(w) = rows

\* A handler runs only in its own domain.
Handled(w) ==
  \/ rows.domain = "sessions" /\ SessionsNext(w)
  \/ rows.domain = "access" /\ AccessNext(w)
  \/ rows.domain = "ledger" /\ LedgerNext(w)
  \/ rows.domain = "purchasing" /\ PurchasingNext(w)
  \/ rows.domain = "warehouse" /\ WarehouseNext(w)
  \/ rows.domain = "production" /\ ProductionNext(w)
  \/ rows.domain = "boms" /\ BomsNext(w)
  \/ rows.domain = "planning" /\ PlanningNext(w)
  \/ rows.domain = "shipping" /\ ShippingNext(w)
  \/ rows.domain = "returns" /\ ReturnsNext(w)
  \/ rows.domain = "tickets" /\ TicketsNext(w)
  \/ rows.domain = "repairs" /\ RepairsNext(w)
  \/ rows.domain = "quality" /\ QualityNext(w)
  \/ rows.domain = "ncrs" /\ NcrNext(w)
  \/ rows.domain = "expenses" /\ ExpensesNext(w)
  \/ rows.domain = "assets" /\ AssetsNext(w)
  \/ rows.domain = "payroll" /\ PayrollNext(w)
  \/ rows.domain = "tax" /\ TaxNext(w)
  \/ rows.domain = "banking" /\ BankingNext(w)
  \/ rows.domain = "budgets" /\ BudgetsNext(w)
  \/ rows.domain = "quotations" /\ QuotationsNext(w)
  \/ rows.domain = "leads" /\ LeadsNext(w)
  \/ rows.domain = "costing" /\ CostingNext(w)
  \/ rows.domain = "subscriptions" /\ SubscriptionsNext(w)
  \/ rows.domain = "billing" /\ BillingNext(w)
  \/ rows.domain = "import" /\ ImportNext(w)
  \/ rows.domain = "webhooks" /\ WebhooksNext(w)
  \/ rows.domain = "notifications" /\ NotificationsNext(w)
  \/ rows.domain = "numbering" /\ NumberingNext(w)
  \/ rows.domain = "catalog" /\ CatalogNext(w)
  \/ rows.domain = "pricing" /\ PricingNext(w)
  \/ rows.domain = "locations" /\ LocationsNext(w)
  \/ rows.domain = "parties" /\ PartiesNext(w)
  \/ rows.domain = "staff" /\ StaffNext(w)
  \/ rows.domain = "compensations" /\ CompensationsNext(w)

LEMMA WarehouseDomain ==
  ASSUME NEW w \in Workers, WarehouseNext(w)
  PROVE  rows.domain = "warehouse"
  BY DEF WarehouseNext, InUse, CreateDocument, SetDocument, CreateStockTransfer,
     CompleteStockTransfer, CancelStockTransfer, CreateTransfer, SubmitTransfer, ApproveTransfer,
     RejectTransfer, StartTransfer, CompleteTransfer, CancelTransfer, CreatePutaway, AssignPutaway,
     StartPutaway, CompletePutaway, CancelPutaway, CreateTask, AssignTask, StartTask, CompleteTask,
     CancelTask, GenerateReplenishment, CompleteReplenishment, CancelReplenishment, CreatePick,
     AssignPick, StartPick, ExecutePick, CancelPick, CreateWave, ReleaseWave, CompleteWave,
     CancelWave, CreateCount, StartCount, RecordCount, RecountCount, ReviewCount, PostCount,
     CancelCount, QuarantineStock, InspectQuarantine, ReleaseQuarantine

LEMMA HandledByOne ==
  ASSUME NEW w \in Workers, Handle(w)
  PROVE  Handled(w)
<1>1. /\ SessionsNext(w) => rows.domain = "sessions"
      /\ AccessNext(w) => rows.domain = "access"
      /\ LedgerNext(w) => rows.domain = "ledger"
      /\ PurchasingNext(w) => rows.domain = "purchasing"
      /\ ProductionNext(w) => rows.domain = "production"
      /\ BomsNext(w) => rows.domain = "boms"
      /\ PlanningNext(w) => rows.domain = "planning"
      /\ ShippingNext(w) => rows.domain = "shipping"
      /\ ReturnsNext(w) => rows.domain = "returns"
  BY DEF SessionsNext, AccessNext, LedgerNext, PurchasingNext, ProductionNext,
     BomsNext, PlanningNext, ShippingNext, ReturnsNext
<1>2. /\ TicketsNext(w) => rows.domain = "tickets"
      /\ RepairsNext(w) => rows.domain = "repairs"
      /\ QualityNext(w) => rows.domain = "quality"
      /\ NcrNext(w) => rows.domain = "ncrs"
      /\ ExpensesNext(w) => rows.domain = "expenses"
      /\ AssetsNext(w) => rows.domain = "assets"
      /\ PayrollNext(w) => rows.domain = "payroll"
      /\ TaxNext(w) => rows.domain = "tax"
      /\ BankingNext(w) => rows.domain = "banking"
  BY DEF TicketsNext, RepairsNext, QualityNext, NcrNext, ExpensesNext,
     AssetsNext, PayrollNext, TaxNext, BankingNext
<1>3. /\ BudgetsNext(w) => rows.domain = "budgets"
      /\ QuotationsNext(w) => rows.domain = "quotations"
      /\ LeadsNext(w) => rows.domain = "leads"
      /\ CostingNext(w) => rows.domain = "costing"
      /\ SubscriptionsNext(w) => rows.domain = "subscriptions"
      /\ BillingNext(w) => rows.domain = "billing"
      /\ ImportNext(w) => rows.domain = "import"
      /\ WebhooksNext(w) => rows.domain = "webhooks"
      /\ NotificationsNext(w) => rows.domain = "notifications"
  BY DEF BudgetsNext, QuotationsNext, LeadsNext, CostingNext, SubscriptionsNext,
     BillingNext, ImportNext, WebhooksNext, NotificationsNext
<1>4. /\ NumberingNext(w) => rows.domain = "numbering"
      /\ CatalogNext(w) => rows.domain = "catalog"
      /\ PricingNext(w) => rows.domain = "pricing"
      /\ LocationsNext(w) => rows.domain = "locations"
      /\ PartiesNext(w) => rows.domain = "parties"
      /\ StaffNext(w) => rows.domain = "staff"
      /\ CompensationsNext(w) => rows.domain = "compensations"
  BY DEF NumberingNext, CatalogNext, PricingNext, LocationsNext, PartiesNext,
     StaffNext, CompensationsNext
<1> QED
  BY <1>1, <1>2, <1>3, <1>4, WarehouseDomain
  DEF Handle, Handled, ManufacturingNext, ServiceDeskNext, MasterDataNext

LEMMA HandleKeeps ==
  ASSUME NEW w \in Workers, Ready, Handled(w)
  PROVE  Keeps(w)
<1> Placed(w)
  BY DEF Ready, Placed
<1> QED
  BY SessionsNextKeeps, AccessNextKeeps, LedgerNextKeeps, PurchasingNextKeeps, WarehouseNextKeeps,
     ProductionNextKeeps, BomsNextKeeps, PlanningNextKeeps, ShippingNextKeeps, ReturnsNextKeeps,
     TicketsNextKeeps, RepairsNextKeeps, QualityNextKeeps, NcrNextKeeps, ExpensesNextKeeps,
     AssetsNextKeeps, PayrollNextKeeps, TaxNextKeeps, BankingNextKeeps, BudgetsNextKeeps,
     QuotationsNextKeeps, LeadsNextKeeps, CostingNextKeeps, SubscriptionsNextKeeps,
     BillingNextKeeps, ImportNextKeeps, WebhooksNextKeeps, NotificationsNextKeeps,
     NumberingNextKeeps, CatalogNextKeeps, PricingNextKeeps, LocationsNextKeeps,
     PartiesNextKeeps, StaffNextKeeps, CompensationsNextKeeps
  DEF Handled

\* Where requests do not overlap, what the request has read is still so.
Fresh(w) ==
  rows.domain \notin Overlapping /\ requests[w].pc = "read" => Seen(w) = rows

\* A step is one of a handler, with a fresh request, or changes no rows.
LEMMA StepCases ==
  ASSUME Ready, [Next]_vars
  PROVE  \/ /\ rows' = rows
            /\ \A v \in Workers : requests'[v] = requests[v] \/ requests'[v].pc \in {"idle", "read"}
         \/ \E w \in Workers : Fresh(w) /\ Handled(w) /\ Keeps(w)
  BY HandledByOne, HandleKeeps DEF Ready, Next, vars, Read, Abort, Idle, Fresh, Seen

\* Ready is preserved by every step.
LEMMA ReadyStep ==
  ASSUME Ready, [Next]_vars
  PROVE  Ready'
<1>1. CASE UNCHANGED vars
  BY <1>1 DEF Ready, vars, Seen
<1>2. ASSUME NEW w \in Workers, MayStart, Read(w) PROVE Ready'
  BY <1>2 DEF Ready, MayStart, Read, Idle, Seen
<1>3. ASSUME NEW w \in Workers, requests[w] # Idle, Abort(w) PROVE Ready'
  BY <1>3 DEF Ready, Abort, Idle, Seen
<1>4. ASSUME NEW w \in Workers, requests[w] # Idle, Handle(w) PROVE Ready'
  <2>1. Keeps(w)
    BY <1>4, HandledByOne, HandleKeeps
  <2> QED
    BY <2>1, <1>4 DEF Ready, Keeps, Idle, Seen
<1> QED
  BY <1>1, <1>2, <1>3, <1>4 DEF Next

-----------------------------------------------------------------------------
(* expenses: claims, their posting and reimbursement. *)

\* What has been posted and paid of a claim at each of its statuses.
ClaimOk(claim) ==
  /\ DOMAIN claim = {"status", "total", "paid", "due", "journals"}
  /\ claim.total \in Nat /\ claim.paid \in Nat /\ claim.due \in Nat
  /\ claim.status \in {"NONE", "DRAFT", "SUBMITTED", "REJECTED", "CANCELLED"} =>
       claim.paid = 0 /\ claim.due = 0 /\ claim.journals = 0
  /\ claim.status \in {"DRAFT", "SUBMITTED"} => claim.total > 0
  /\ claim.status = "APPROVED" => claim.journals = 0
  /\ claim.status = "POSTED" => claim.journals = 1
  /\ claim.status = "VOIDED" => claim.paid = 0
  /\ claim.status \in {"APPROVED", "POSTED"} => claim.due > 0
  /\ claim.status \in {"APPROVED", "POSTED", "PAID"} => claim.paid + claim.due = claim.total
  /\ claim.status = "PAID" => claim.due = 0 /\ claim.paid > 0 /\ claim.journals \in {0, 1}
  /\ claim.status \in {"NONE", "DRAFT", "SUBMITTED", "REJECTED", "CANCELLED", "APPROVED",
                       "POSTED", "VOIDED", "PAID"}

\* The tables of the domain.
ClaimsShape(db) ==
  /\ DOMAIN db = {"domain", "claims", "reimbursed", "payable"}
  /\ DOMAIN db.claims = {1, 2} /\ DOMAIN db.reimbursed = {1, 2}

EachClaimOk(db) ==
  \A c \in {1, 2} : ClaimOk(db.claims[c]) /\ db.claims[c].paid = db.reimbursed[c]

\* What the ledger owes for a claim.
Owed(claim) ==
  IF claim.status = "VOIDED" \/ claim.journals = 0 THEN 0 ELSE claim.total

Outstanding(db, c) == Owed(db.claims[c]) - db.reimbursed[c]

\* The ledger owes for the claims that are posted and not yet paid.
PayableOk(db) == db.payable = Outstanding(db, 1) + Outstanding(db, 2)

\* Expense claims.
ClaimsOk(db) == ClaimsShape(db) /\ EachClaimOk(db) /\ PayableOk(db)

\* Every handler of the expense claims preserves ClaimsOk.
LEMMA ClaimsStep ==
  ASSUME ClaimsOk(rows), NEW w \in Workers, requests[w].pc = "read" => Seen(w) = rows,
         ExpensesNext(w)
  PROVE  ClaimsOk(rows')
<1>1. PICK c \in {1, 2} :
        \/ CreateClaim(w, c)
        \/ UpdateClaim(w, c)
        \/ SubmitClaim(w, c)
        \/ ApproveClaim(w, c)
        \/ RejectClaim(w, c)
        \/ CancelClaim(w, c)
        \/ PostClaim(w, c)
        \/ VoidClaim(w, c)
        \/ Reimburse(w, c)
  BY DEF ExpensesNext, ClaimsOk, ClaimsShape
<1>2. CASE CreateClaim(w, c)
  <2>1. PICK n \in Amounts :
          /\ rows.claims[c].status = "NONE"
          /\ rows' = [rows EXCEPT !.claims[c].status = "DRAFT", !.claims[c].total = n]
    BY <1>1, <1>2 DEF CreateClaim, Creates, Commit
  <2>2. ClaimsShape(rows')
    BY <1>1, <2>1, <2>1 DEF ClaimsOk, ClaimsShape
  <2>3. EachClaimOk(rows')
    BY <1>1, <2>1 DEF ClaimsShape, EachClaimOk, ClaimOk, ClaimsOk, Amounts
  <2>4. PayableOk(rows')
    BY <1>1, <2>1 DEF ClaimsShape, EachClaimOk, ClaimOk, ClaimsOk, PayableOk, Outstanding, Owed,
       Amounts
  <2> QED
    BY <2>2, <2>3, <2>4 DEF ClaimsOk
<1>3. CASE UpdateClaim(w, c)
  <2>1. PICK n \in Amounts :
          rows.claims[c].status = "DRAFT" /\ rows' = [rows EXCEPT !.claims[c].total = n]
    BY <1>1, <1>3 DEF UpdateClaim, At, Changes, Commit
  <2>2. ClaimsShape(rows')
    BY <1>1, <2>1, <2>1 DEF ClaimsOk, ClaimsShape
  <2>3. EachClaimOk(rows')
    BY <1>1, <2>1 DEF ClaimsShape, EachClaimOk, ClaimOk, ClaimsOk, Amounts
  <2>4. PayableOk(rows')
    BY <1>1, <2>1 DEF ClaimsShape, EachClaimOk, ClaimOk, ClaimsOk, PayableOk, Outstanding, Owed,
       Amounts
  <2> QED
    BY <2>2, <2>3, <2>4 DEF ClaimsOk
<1>4. CASE SubmitClaim(w, c)
  <2>1. rows.claims[c].status \in {"DRAFT"}
        /\ rows' = [rows EXCEPT !.claims[c].status = "SUBMITTED"]
    BY <1>1, <1>4 DEF SubmitClaim, SetStatus, At, Changes, Commit
  <2>2. ClaimsShape(rows')
    BY <1>1, <2>1, <2>1 DEF ClaimsOk, ClaimsShape
  <2>3. EachClaimOk(rows')
    BY <1>1, <2>1 DEF ClaimsShape, EachClaimOk, ClaimOk, ClaimsOk, Amounts
  <2>4. PayableOk(rows')
    BY <1>1, <2>1 DEF ClaimsShape, EachClaimOk, ClaimOk, ClaimsOk, PayableOk, Outstanding, Owed,
       Amounts
  <2> QED
    BY <2>2, <2>3, <2>4 DEF ClaimsOk
<1>5. CASE ApproveClaim(w, c)
  <2>1. /\ rows.claims[c].status = "SUBMITTED"
        /\ rows' = [rows EXCEPT !.claims[c].status = "APPROVED", !.claims[c].due = rows.claims[c].total]
    BY <1>1, <1>5 DEF ApproveClaim, At, Changes, Commit
  <2>2. ClaimsShape(rows')
    BY <1>1, <2>1, <2>1 DEF ClaimsOk, ClaimsShape
  <2>3. EachClaimOk(rows')
    BY <1>1, <2>1 DEF ClaimsShape, EachClaimOk, ClaimOk, ClaimsOk, Amounts
  <2>4. PayableOk(rows')
    BY <1>1, <2>1 DEF ClaimsShape, EachClaimOk, ClaimOk, ClaimsOk, PayableOk, Outstanding, Owed,
       Amounts
  <2> QED
    BY <2>2, <2>3, <2>4 DEF ClaimsOk
<1>6. CASE RejectClaim(w, c)
  <2>1. rows.claims[c].status \in {"SUBMITTED"}
        /\ rows' = [rows EXCEPT !.claims[c].status = "REJECTED"]
    BY <1>1, <1>6 DEF RejectClaim, SetStatus, At, Changes, Commit
  <2>2. ClaimsShape(rows')
    BY <1>1, <2>1, <2>1 DEF ClaimsOk, ClaimsShape
  <2>3. EachClaimOk(rows')
    BY <1>1, <2>1 DEF ClaimsShape, EachClaimOk, ClaimOk, ClaimsOk, Amounts
  <2>4. PayableOk(rows')
    BY <1>1, <2>1 DEF ClaimsShape, EachClaimOk, ClaimOk, ClaimsOk, PayableOk, Outstanding, Owed,
       Amounts
  <2> QED
    BY <2>2, <2>3, <2>4 DEF ClaimsOk
<1>7. CASE CancelClaim(w, c)
  <2>1. rows.claims[c].status \in {"DRAFT", "SUBMITTED"}
        /\ rows' = [rows EXCEPT !.claims[c].status = "CANCELLED"]
    BY <1>1, <1>7 DEF CancelClaim, SetStatus, At, Changes, Commit
  <2>2. ClaimsShape(rows')
    BY <1>1, <2>1, <2>1 DEF ClaimsOk, ClaimsShape
  <2>3. EachClaimOk(rows')
    BY <1>1, <2>1 DEF ClaimsShape, EachClaimOk, ClaimOk, ClaimsOk, Amounts
  <2>4. PayableOk(rows')
    BY <1>1, <2>1 DEF ClaimsShape, EachClaimOk, ClaimOk, ClaimsOk, PayableOk, Outstanding, Owed,
       Amounts
  <2> QED
    BY <2>2, <2>3, <2>4 DEF ClaimsOk
<1>8. CASE PostClaim(w, c)
  <2>1. /\ rows.claims[c].status = "APPROVED"
        /\ rows' = [rows EXCEPT !.claims[c].status = "POSTED", !.claims[c].journals = @ + 1,
                                 !.payable = @ + rows.claims[c].total]
    BY <1>1, <1>8 DEF PostClaim, At, Changes, Commit
  <2>2. ClaimsShape(rows')
    BY <1>1, <2>1, <2>1 DEF ClaimsOk, ClaimsShape
  <2>3. EachClaimOk(rows')
    BY <1>1, <2>1 DEF ClaimsShape, EachClaimOk, ClaimOk, ClaimsOk, Amounts
  <2>4. PayableOk(rows')
    BY <1>1, <2>1 DEF ClaimsShape, EachClaimOk, ClaimOk, ClaimsOk, PayableOk, Outstanding, Owed,
       Amounts
  <2> QED
    BY <2>2, <2>3, <2>4 DEF ClaimsOk
<1>9. CASE VoidClaim(w, c)
  <2>1. /\ rows.claims[c].status = "POSTED" /\ rows.claims[c].paid = 0
        /\ rows' = [rows EXCEPT !.claims[c].status = "VOIDED", !.payable = @ - rows.claims[c].total]
    BY <1>1, <1>9 DEF VoidClaim, At, Changes, Commit
  <2>2. /\ DOMAIN rows'.claims[c] = DOMAIN rows.claims[c]
        /\ rows.claims[c].status = "POSTED" /\ rows'.claims[c].status = "VOIDED"
        /\ rows.claims[c].total \in Nat /\ rows.claims[c].journals = 1 /\ rows.reimbursed[c] = 0
        /\ rows'.claims[c].paid = 0 /\ rows.claims[c].paid = 0
        /\ rows'.claims[c].due = rows.claims[c].due
        /\ rows'.claims[c].journals = rows.claims[c].journals
        /\ rows'.claims[c].total = rows.claims[c].total
        /\ rows'.reimbursed[c] = rows.reimbursed[c]
        /\ rows'.payable = rows.payable - rows.claims[c].total
        /\ \A d \in {1, 2} \ {c} : rows'.claims[d] = rows.claims[d] /\ rows'.reimbursed[d] = rows.reimbursed[d]
    BY <1>1, <2>1 DEF ClaimsOk, ClaimsShape, EachClaimOk, ClaimOk
  <2>3. ClaimsShape(rows')
    BY <1>1, <2>2, <2>1 DEF ClaimsOk, ClaimsShape
  <2>4. EachClaimOk(rows')
    BY <1>1, <2>2 DEF ClaimsShape, EachClaimOk, ClaimOk, ClaimsOk, Amounts
  <2>5. PayableOk(rows')
    <3>1. /\ Outstanding(rows', c) = Outstanding(rows, c) - rows.claims[c].total
          /\ Outstanding(rows, c) \in Int
      BY <1>1, <2>2 DEF Outstanding, Owed
    <3>2. \A d \in {1, 2} \ {c} : /\ Outstanding(rows', d) = Outstanding(rows, d)
                                /\ Outstanding(rows, d) \in Int
      BY <1>1, <2>2 DEF Outstanding, Owed, ClaimsOk, EachClaimOk, ClaimOk
    <3> QED
      BY <1>1, <2>2, <3>1, <3>2 DEF ClaimsOk, PayableOk
  <2> QED
    BY <2>3, <2>4, <2>5 DEF ClaimsOk
<1>10. CASE Reimburse(w, c)
  <2>1. PICK n \in 1..rows.claims[c].due :
          /\ rows.claims[c].status \in {"POSTED", "APPROVED"}
          /\ rows' = [rows EXCEPT !.claims[c].paid = @ + n,
                                   !.claims[c].due = rows.claims[c].due - n,
                                   !.claims[c].status = IF n = rows.claims[c].due THEN "PAID" ELSE @,
                                   !.reimbursed[c] = @ + n,
                                   !.payable = @ - n]
    BY <1>1, <1>10 DEF Reimburse, At, Changes, Commit
  <2>2. /\ DOMAIN rows'.claims[c] = DOMAIN rows.claims[c]
        /\ n \in 1..rows.claims[c].due /\ rows.claims[c].status \in {"POSTED", "APPROVED"}
        /\ rows'.claims[c].paid = rows.claims[c].paid + n
        /\ rows'.claims[c].due = rows.claims[c].due - n
        /\ rows'.claims[c].status = IF n = rows.claims[c].due THEN "PAID" ELSE rows.claims[c].status
        /\ rows'.claims[c].journals = rows.claims[c].journals
        /\ rows'.claims[c].total = rows.claims[c].total
        /\ rows'.reimbursed[c] = rows.reimbursed[c] + n
        /\ rows'.payable = rows.payable - n
        /\ \A d \in {1, 2} \ {c} : rows'.claims[d] = rows.claims[d] /\ rows'.reimbursed[d] = rows.reimbursed[d]
    BY <1>1, <2>1 DEF ClaimsOk, ClaimsShape, EachClaimOk, ClaimOk
  <2>3. ClaimsShape(rows')
    BY <1>1, <2>2, <2>1 DEF ClaimsOk, ClaimsShape
  <2>4. EachClaimOk(rows')
    BY <1>1, <2>2 DEF ClaimsShape, EachClaimOk, ClaimOk, ClaimsOk, Amounts
  <2>5. PayableOk(rows')
    <3>1. /\ Outstanding(rows', c) = Outstanding(rows, c) - n
          /\ Outstanding(rows, c) \in Int
      BY <1>1, <2>2 DEF Outstanding, Owed, ClaimsOk, EachClaimOk, ClaimOk
    <3>2. \A d \in {1, 2} \ {c} : /\ Outstanding(rows', d) = Outstanding(rows, d)
                                /\ Outstanding(rows, d) \in Int
      BY <1>1, <2>2 DEF Outstanding, Owed, ClaimsOk, EachClaimOk, ClaimOk
    <3> QED
      BY <1>1, <2>2, <3>1, <3>2 DEF ClaimsOk, PayableOk
  <2> QED
    BY <2>3, <2>4, <2>5 DEF ClaimsOk
<1> QED
  BY <1>1, <1>2, <1>3, <1>4, <1>5, <1>6, <1>7, <1>8, <1>9, <1>10

\* ClaimsOk implies the property of the expense claims.
LEMMA ClaimsAddUpThen ==
  ASSUME rows.domain = "expenses" => ClaimsOk(rows)
  PROVE  ClaimsAddUp
<1> SUFFICES ASSUME rows.domain = "expenses" PROVE ClaimsAddUp
  BY DEF ClaimsAddUp
<1> DEFINE owed(c) == LET claim == rows.claims[c]
                      IN IF claim.status = "VOIDED" THEN 0 ELSE claim.journals * claim.total
           net == [c \in DOMAIN rows.claims |-> owed(c) - rows.reimbursed[c]]
<1>1. /\ DOMAIN rows.claims = {1, 2}
      /\ \A c \in {1, 2} : ClaimOk(rows.claims[c]) /\ rows.claims[c].paid = rows.reimbursed[c]
  BY DEF ClaimsOk, ClaimsShape, EachClaimOk
<1>2. ASSUME NEW c \in {1, 2}
      PROVE  owed(c) - rows.reimbursed[c] = Outstanding(rows, c) /\ Outstanding(rows, c) \in Int
  <2>1. rows.claims[c].journals \in {0, 1} \/ rows.claims[c].status = "VOIDED"
    BY <1>1 DEF ClaimOk
  <2>2. rows.claims[c].total \in Nat /\ rows.reimbursed[c] \in Nat
    BY <1>1 DEF ClaimOk
  <2>3. CASE rows.claims[c].status = "VOIDED"
    BY <2>2, <2>3 DEF Outstanding, Owed
  <2>4. CASE rows.claims[c].status # "VOIDED" /\ rows.claims[c].journals = 0
    BY <2>2, <2>4 DEF Outstanding, Owed
  <2>5. CASE rows.claims[c].status # "VOIDED" /\ rows.claims[c].journals = 1
    BY <2>2, <2>5 DEF Outstanding, Owed
  <2> QED
    BY <2>1, <2>3, <2>4, <2>5
<1>3. DOMAIN net = {1, 2} /\ net[1] = Outstanding(rows, 1) /\ net[2] = Outstanding(rows, 2)
  BY <1>1, <1>2
<1>4. rows.payable = SumFunction(net)
  <2> HIDE DEF net
  <2> QED
    BY <1>2, <1>3, SumTwo DEF ClaimsOk, PayableOk
<1>5. ASSUME NEW c \in {1, 2}
      PROVE  LET claim == rows.claims[c]
             IN /\ claim.paid = rows.reimbursed[c]
                /\ claim.paid > 0 => claim.status \in {"APPROVED", "POSTED", "PAID"}
                /\ claim.status \in {"APPROVED", "POSTED", "PAID"} => claim.paid + claim.due = claim.total
                /\ claim.status = "PAID" <=> claim.paid > 0 /\ claim.due = 0
  BY <1>1 DEF ClaimOk
<1> QED
  BY <1>1, <1>4, <1>5 DEF ClaimsAddUp

-----------------------------------------------------------------------------
(* payroll: the runs of a period. *)

\* A payroll run; only a posted one is paid.
RunOk(run) ==
  /\ DOMAIN run = {"status", "gross", "deductions", "net", "paid"}
  /\ run.gross \in Int /\ run.net \in Int
  /\ run.status \in {"NONE", "CALCULATED", "APPROVED", "POSTED"}
  /\ run.paid \in BOOLEAN
  /\ run.paid => run.status = "POSTED"

\* What a run is calculated to be.
Calculated(gross, deductions) ==
  [status |-> "CALCULATED", gross |-> gross, deductions |-> deductions,
   net |-> IF gross > deductions THEN gross - deductions ELSE 0,
   paid |-> FALSE]

PayrollShape(db) ==
  /\ DOMAIN db = {"domain", "periods", "inputs", "payrolls", "journal", "paidOut"}
  /\ DOMAIN db.periods = {1} /\ DOMAIN db.periods[1] = {"status"}
  /\ DOMAIN db.inputs = {"bonus", "deductions"}
  /\ db.inputs.bonus \in Int /\ db.inputs.deductions \in Int
  /\ DOMAIN db.payrolls = {1, 2}

EachRunOk(db) == \A r \in {1, 2} : RunOk(db.payrolls[r])

\* Which runs there can be at each status of the period.
PeriodOk(db) ==
  /\ db.periods[1].status \in {"NONE", "DRAFT", "CALCULATED"} =>
       \A r \in {1, 2} : db.payrolls[r].status \in {"NONE", "CALCULATED"}
  /\ db.periods[1].status \in {"APPROVED", "CANCELLED"} =>
       \A r \in {1, 2} : db.payrolls[r].status # "POSTED"
  /\ db.periods[1].status \in {"POSTED", "PAID", "CLOSED"} =>
       \E r \in {1, 2} : db.payrolls[r].status = "POSTED"
  /\ db.periods[1].status = "POSTED" => \A r \in {1, 2} : ~ db.payrolls[r].paid
  /\ db.periods[1].status = "PAID" => \E r \in {1, 2} : db.payrolls[r].paid
  /\ db.periods[1].status \in {"NONE", "DRAFT", "CALCULATED", "APPROVED", "CANCELLED", "POSTED",
                                "PAID", "CLOSED"}

\* At most one run of the period gets past its calculation.
OneIsSettled(db) ==
  \A r, s \in {1, 2} :
    db.payrolls[r].status \in {"APPROVED", "POSTED"} /\ r # s =>
      db.payrolls[s].status \in {"NONE", "CALCULATED"}

\* The journal and the payment are about the run that is posted.
PostedOk(db) ==
  /\ (\A r \in {1, 2} : db.payrolls[r].status # "POSTED") =>
       db.journal.count = 0 /\ db.journal.debit = 0 /\ db.paidOut = 0
  /\ \A r \in {1, 2} :
       db.payrolls[r].status = "POSTED" =>
         /\ db.journal.count = 1 /\ db.journal.debit = db.payrolls[r].gross
         /\ db.paidOut = IF db.payrolls[r].paid THEN db.payrolls[r].net ELSE 0

\* Payroll.
PayrollOk(db) ==
  PayrollShape(db) /\ EachRunOk(db) /\ PeriodOk(db) /\ OneIsSettled(db) /\ PostedOk(db)

\* Every handler of the payroll preserves PayrollOk.
LEMMA PayrollStep ==
  ASSUME PayrollOk(rows), NEW w \in Workers, requests[w].pc = "read" => Seen(w) = rows,
         PayrollNext(w)
  PROVE  PayrollOk(rows')
<1>1. PICK p \in {1} :
        \/ CreatePayrollPeriod(w, p)
        \/ AddInput(w, p)
        \/ CancelPayroll(w, p)
        \/ ClosePayroll(w, p)
        \/ \E r \in {1, 2} : CalculatePayroll(w, p, r)
        \/ \E r \in {1, 2} : ApprovePayroll(w, p, r)
        \/ \E r \in {1, 2} : PostPayroll(w, p, r)
        \/ \E r \in {1, 2} : PayPayroll(w, p, r)
  BY DEF PayrollNext, PayrollOk, PayrollShape
<1>2. CASE CreatePayrollPeriod(w, p)
  <2>1. /\ rows.periods[p].status = "NONE"
        /\ rows' = [rows EXCEPT !.periods[p].status = "DRAFT"]
    BY <1>1, <1>2 DEF CreatePayrollPeriod, Creates, Commit
  <2>2. PayrollShape(rows')
    BY <1>1, <2>1 DEF PayrollOk, PayrollShape, Amounts
  <2>3. EachRunOk(rows')
    BY <1>1, <2>1 DEF PayrollOk, PayrollShape, EachRunOk, RunOk
  <2>4. PeriodOk(rows')
    BY <1>1, <2>1 DEF PayrollOk, PayrollShape, EachRunOk, RunOk, PeriodOk, OneIsSettled
  <2>5. OneIsSettled(rows')
    BY <1>1, <2>1 DEF PayrollOk, PayrollShape, EachRunOk, RunOk, PeriodOk, OneIsSettled
  <2>6. PostedOk(rows')
    BY <1>1, <2>1 DEF PayrollOk, PayrollShape, EachRunOk, RunOk, PeriodOk, OneIsSettled, PostedOk
  <2> QED
    BY <2>2, <2>3, <2>4, <2>5, <2>6 DEF PayrollOk
<1>3. CASE AddInput(w, p)
  <2>1. PICK n \in Amounts, kind \in {"bonus", "deductions"} :
          rows' = [rows EXCEPT !.inputs[kind] = @ + n]
    BY <1>1, <1>3 DEF AddInput, At, Changes, Commit
  <2>2. PayrollShape(rows')
    BY <1>1, <2>1 DEF PayrollOk, PayrollShape, Amounts
  <2>3. EachRunOk(rows')
    BY <1>1, <2>1 DEF PayrollOk, PayrollShape, EachRunOk, RunOk
  <2>4. PeriodOk(rows')
    BY <1>1, <2>1 DEF PayrollOk, PayrollShape, EachRunOk, RunOk, PeriodOk, OneIsSettled
  <2>5. OneIsSettled(rows')
    BY <1>1, <2>1 DEF PayrollOk, PayrollShape, EachRunOk, RunOk, PeriodOk, OneIsSettled
  <2>6. PostedOk(rows')
    BY <1>1, <2>1 DEF PayrollOk, PayrollShape, EachRunOk, RunOk, PeriodOk, OneIsSettled, PostedOk
  <2> QED
    BY <2>2, <2>3, <2>4, <2>5, <2>6 DEF PayrollOk
<1>4. CASE CancelPayroll(w, p)
  <2>1. /\ rows.periods[p].status \in {"DRAFT", "CALCULATED", "APPROVED", "CANCELLED"}
        /\ rows' = [rows EXCEPT !.periods[p].status = "CANCELLED"]
    BY <1>1, <1>4 DEF CancelPayroll, SetStatus, At, Changes, Commit
  <2>2. PayrollShape(rows')
    BY <1>1, <2>1 DEF PayrollOk, PayrollShape, Amounts
  <2>3. EachRunOk(rows')
    BY <1>1, <2>1 DEF PayrollOk, PayrollShape, EachRunOk, RunOk
  <2>4. PeriodOk(rows')
    BY <1>1, <2>1 DEF PayrollOk, PayrollShape, EachRunOk, RunOk, PeriodOk, OneIsSettled
  <2>5. OneIsSettled(rows')
    BY <1>1, <2>1 DEF PayrollOk, PayrollShape, EachRunOk, RunOk, PeriodOk, OneIsSettled
  <2>6. PostedOk(rows')
    BY <1>1, <2>1 DEF PayrollOk, PayrollShape, EachRunOk, RunOk, PeriodOk, OneIsSettled, PostedOk
  <2> QED
    BY <2>2, <2>3, <2>4, <2>5, <2>6 DEF PayrollOk
<1>5. CASE ClosePayroll(w, p)
  <2>1. /\ rows.periods[p].status \in {"POSTED", "PAID"}
        /\ rows' = [rows EXCEPT !.periods[p].status = "CLOSED"]
    BY <1>1, <1>5 DEF ClosePayroll, SetStatus, At, Changes, Commit
  <2>2. PayrollShape(rows')
    BY <1>1, <2>1 DEF PayrollOk, PayrollShape, Amounts
  <2>3. EachRunOk(rows')
    BY <1>1, <2>1 DEF PayrollOk, PayrollShape, EachRunOk, RunOk
  <2>4. PeriodOk(rows')
    BY <1>1, <2>1 DEF PayrollOk, PayrollShape, EachRunOk, RunOk, PeriodOk, OneIsSettled
  <2>5. OneIsSettled(rows')
    BY <1>1, <2>1 DEF PayrollOk, PayrollShape, EachRunOk, RunOk, PeriodOk, OneIsSettled
  <2>6. PostedOk(rows')
    BY <1>1, <2>1 DEF PayrollOk, PayrollShape, EachRunOk, RunOk, PeriodOk, OneIsSettled, PostedOk
  <2> QED
    BY <2>2, <2>3, <2>4, <2>5, <2>6 DEF PayrollOk
<1>6. CASE \E r \in {1, 2} : CalculatePayroll(w, p, r)
  <2>1. PICK r \in {1, 2} : CalculatePayroll(w, p, r)
    BY <1>6
  <2>2. Seen(w) = rows
    BY <2>1 DEF CalculatePayroll, Changes, At
  <2>3. /\ rows.periods[p].status \in {"DRAFT", "CALCULATED"}
        /\ rows.payrolls[r].status = "NONE"
        /\ rows' = [rows EXCEPT !.periods[p].status = "CALCULATED", !.payrolls[r] = Calculated(1 + rows.inputs.bonus, rows.inputs.deductions)]
    <3>1. /\ rows.periods[p].status \in {"DRAFT", "CALCULATED"}
          /\ rows.payrolls[r].status = "NONE"
      BY <2>1, <2>2 DEF CalculatePayroll, Calculable, Changes
    <3>2. Commit(w, [rows EXCEPT !.periods[p].status = "CALCULATED",
                                !.payrolls[r] = Calculated(1 + Seen(w).inputs.bonus,
                                                           Seen(w).inputs.deductions)])
      BY <2>1, Zenon DEF CalculatePayroll, Calculated
    <3>3. rows' = [rows EXCEPT !.periods[p].status = "CALCULATED",
                              !.payrolls[r] = Calculated(1 + Seen(w).inputs.bonus,
                                                         Seen(w).inputs.deductions)]
      BY <3>2, Zenon DEF Commit
    <3> QED
      BY <2>2, <3>1, <3>3
  <2>4. RunOk(Calculated(1 + rows.inputs.bonus, rows.inputs.deductions)) /\ Calculated(1 + rows.inputs.bonus, rows.inputs.deductions).status = "CALCULATED"
    BY DEF Calculated, PayrollOk, PayrollShape, RunOk
  <2>5. PayrollShape(rows')
    BY <1>1, <2>3, <2>4 DEF PayrollOk, PayrollShape
  <2>6. EachRunOk(rows')
    BY <1>1, <2>3, <2>4 DEF PayrollOk, PayrollShape, EachRunOk
  <2>7. PeriodOk(rows')
    BY <1>1, <2>3, <2>4 DEF PayrollOk, PayrollShape, EachRunOk, RunOk, PeriodOk
  <2>8. OneIsSettled(rows')
    BY <1>1, <2>3, <2>4 DEF PayrollOk, PayrollShape, EachRunOk, RunOk, PeriodOk, OneIsSettled
  <2>9. PostedOk(rows')
    BY <1>1, <2>3, <2>4 DEF PayrollOk, PayrollShape, PostedOk
  <2> QED
    BY <2>5, <2>6, <2>7, <2>8, <2>9 DEF PayrollOk
<1>7. CASE \E r \in {1, 2} : ApprovePayroll(w, p, r)
  <2>1. PICK r \in {1, 2} :
          /\ rows.periods[p].status = "CALCULATED"
          /\ rows.payrolls[r].status = "CALCULATED"
          /\ rows' = [rows EXCEPT !.periods[p].status = "APPROVED",
                                  !.payrolls[r].status = "APPROVED"]
    BY <1>1, <1>7 DEF ApprovePayroll, NewestRun, At, Changes, Commit
  <2>2. PayrollShape(rows')
    BY <1>1, <2>1 DEF PayrollOk, PayrollShape, Amounts
  <2>3. EachRunOk(rows')
    BY <1>1, <2>1 DEF PayrollOk, PayrollShape, EachRunOk, RunOk
  <2>4. PeriodOk(rows')
    BY <1>1, <2>1 DEF PayrollOk, PayrollShape, EachRunOk, RunOk, PeriodOk, OneIsSettled
  <2>5. OneIsSettled(rows')
    BY <1>1, <2>1 DEF PayrollOk, PayrollShape, EachRunOk, RunOk, PeriodOk, OneIsSettled
  <2>6. PostedOk(rows')
    BY <1>1, <2>1 DEF PayrollOk, PayrollShape, EachRunOk, RunOk, PeriodOk, OneIsSettled, PostedOk
  <2> QED
    BY <2>2, <2>3, <2>4, <2>5, <2>6 DEF PayrollOk
<1>8. CASE \E r \in {1, 2} : PostPayroll(w, p, r)
  <2>1. PICK r \in {1, 2} :
          /\ rows.periods[p].status = "APPROVED"
          /\ rows.payrolls[r].status = "APPROVED"
          /\ rows' = [rows EXCEPT
                        !.periods[p].status = "POSTED",
                        !.payrolls[r].status = "POSTED",
                        !.journal = [count |-> @.count + 1, debit |-> @.debit + rows.payrolls[r].gross,
                                     credit |-> @.credit + rows.payrolls[r].net
                                                + rows.payrolls[r].deductions]]
    BY <1>1, <1>8 DEF PostPayroll, NewestRun, At, Changes, Commit
  <2>2. PayrollShape(rows')
    BY <1>1, <2>1 DEF PayrollOk, PayrollShape, Amounts
  <2>3. EachRunOk(rows')
    BY <1>1, <2>1 DEF PayrollOk, PayrollShape, EachRunOk, RunOk
  <2>4. PeriodOk(rows')
    BY <1>1, <2>1 DEF PayrollOk, PayrollShape, EachRunOk, RunOk, PeriodOk, OneIsSettled
  <2>5. OneIsSettled(rows')
    BY <1>1, <2>1 DEF PayrollOk, PayrollShape, EachRunOk, RunOk, PeriodOk, OneIsSettled
  <2>6. PostedOk(rows')
    BY <1>1, <2>1 DEF PayrollOk, PayrollShape, EachRunOk, RunOk, PeriodOk, OneIsSettled, PostedOk
  <2> QED
    BY <2>2, <2>3, <2>4, <2>5, <2>6 DEF PayrollOk
<1>9. CASE \E r \in {1, 2} : PayPayroll(w, p, r)
  <2>1. PICK r \in {1, 2} :
          /\ rows.periods[p].status = "POSTED"
          /\ rows.payrolls[r].status = "POSTED" /\ ~ rows.payrolls[r].paid
          /\ rows' = [rows EXCEPT !.periods[p].status = "PAID",
                                  !.payrolls[r].paid = TRUE,
                                  !.paidOut = @ + rows.payrolls[r].net]
    BY <1>1, <1>9 DEF PayPayroll, NewestRun, At, Changes, Commit
  <2>2. PayrollShape(rows')
    BY <1>1, <2>1 DEF PayrollOk, PayrollShape, Amounts
  <2>3. EachRunOk(rows')
    BY <1>1, <2>1 DEF PayrollOk, PayrollShape, EachRunOk, RunOk
  <2>4. PeriodOk(rows')
    BY <1>1, <2>1 DEF PayrollOk, PayrollShape, EachRunOk, RunOk, PeriodOk, OneIsSettled
  <2>5. OneIsSettled(rows')
    BY <1>1, <2>1 DEF PayrollOk, PayrollShape, EachRunOk, RunOk, PeriodOk, OneIsSettled
  <2>6. PostedOk(rows')
    BY <1>1, <2>1 DEF PayrollOk, PayrollShape, EachRunOk, RunOk, PeriodOk, OneIsSettled, PostedOk
  <2> QED
    BY <2>2, <2>3, <2>4, <2>5, <2>6 DEF PayrollOk
<1> QED
  BY <1>1, <1>2, <1>3, <1>4, <1>5, <1>6, <1>7, <1>8, <1>9

\* PayrollOk implies the property of the payroll.
LEMMA PayrollOnceThen ==
  ASSUME rows.domain = "payroll" => PayrollOk(rows)
  PROVE  PayrollOnce
<1> SUFFICES ASSUME rows.domain = "payroll" PROVE PayrollOnce
  BY DEF PayrollOnce
<1> DEFINE settled == {r \in DOMAIN rows.payrolls : rows.payrolls[r].status \in {"APPROVED", "POSTED"}}
           posted == {r \in settled : rows.payrolls[r].status = "POSTED"}
           paid == {s \in posted : rows.payrolls[s].paid}
           gross == [r \in posted |-> rows.payrolls[r].gross]
           net == [r \in paid |-> rows.payrolls[r].net]
<1>1. /\ DOMAIN rows.payrolls = {1, 2}
      /\ \A r \in {1, 2} : rows.payrolls[r].gross \in Int /\ rows.payrolls[r].net \in Int
  BY DEF PayrollOk, PayrollShape, EachRunOk, RunOk
<1>2. Cardinality(settled) <= 1
  <2>1. settled = {} \/ \E r \in {1, 2} : settled = {r}
    BY <1>1 DEF PayrollOk, OneIsSettled
  <2> HIDE DEF settled
  <2>2. CASE settled = {}
    BY <2>2, FS_EmptySet
  <2>3. ASSUME NEW r \in {1, 2}, settled = {r} PROVE Cardinality(settled) <= 1
    <3>1. Cardinality({r}) = 1
      BY FS_Singleton, Zenon
    <3> QED
      BY <2>3, <3>1
  <2> QED
    BY <2>1, <2>2, <2>3
<1>3. /\ rows.journal.count = Cardinality(posted)
      /\ rows.journal.debit = SumFunction(gross)
      /\ rows.paidOut = SumFunction(net)
  <2>1. CASE \A r \in {1, 2} : rows.payrolls[r].status # "POSTED"
    <3>1. posted = {} /\ DOMAIN gross = {} /\ DOMAIN net = {}
      BY <1>1, <2>1
    <3>2. rows.journal.count = 0 /\ rows.journal.debit = 0 /\ rows.paidOut = 0
      BY <2>1 DEF PayrollOk, PostedOk
    <3> HIDE DEF posted, gross, net
    <3> QED
      BY <3>1, <3>2, SumNone, FS_EmptySet
  <2>2. ASSUME NEW r \in {1, 2}, rows.payrolls[r].status = "POSTED"
        PROVE  /\ rows.journal.count = Cardinality(posted)
               /\ rows.journal.debit = SumFunction(gross)
               /\ rows.paidOut = SumFunction(net)
    <3>1. /\ rows.journal.count = 1 /\ rows.journal.debit = rows.payrolls[r].gross
          /\ rows.paidOut = IF rows.payrolls[r].paid THEN rows.payrolls[r].net ELSE 0
      BY <2>2 DEF PayrollOk, PostedOk
    <3>2. posted = {r}
      BY <1>1, <2>2 DEF PayrollOk, OneIsSettled
    <3>3. DOMAIN gross = {r} /\ gross[r] = rows.payrolls[r].gross
      BY <3>2
    <3>4. \/ rows.payrolls[r].paid /\ DOMAIN net = {r} /\ net[r] = rows.payrolls[r].net
          \/ ~ rows.payrolls[r].paid /\ DOMAIN net = {}
      BY <3>2
    <3> HIDE DEF posted, gross, net
    <3>5. rows.journal.debit = SumFunction(gross)
      BY <1>1, <3>1, <3>3, SumOne
    <3>6. rows.paidOut = SumFunction(net)
      BY <1>1, <3>1, <3>4, SumOne, SumNone
    <3> QED
      BY <3>1, <3>2, <3>5, <3>6, FS_Singleton
  <2> QED
    BY <2>1, <2>2
<1>4. rows.periods[1].status = "PAID" => \E r \in posted : rows.payrolls[r].paid
  BY <1>1 DEF PayrollOk, PeriodOk, EachRunOk, RunOk
<1> QED
  BY <1>2, <1>3, <1>4 DEF PayrollOnce

-----------------------------------------------------------------------------
(* sales/quotations and crm: quotations, leads and opportunities. *)

\* A quotation and the orders made of it.
QuotationsOk(db) ==
  /\ DOMAIN db = {"domain", "quotations", "orders"}
  /\ DOMAIN db.quotations = {1} /\ DOMAIN db.quotations[1] = {"status", "lines", "accepted"}
  /\ db.quotations[1].lines \in Nat /\ db.quotations[1].accepted \in Nat
  /\ db.quotations[1].status \in {"NONE", "DRAFT", "SENT", "ACCEPTED", "REJECTED", "CANCELLED",
                                  "SUBMITTED", "APPROVED", "VOIDED", "CONVERTED"}
  /\ IF db.quotations[1].status = "CONVERTED" THEN db.orders = <<db.quotations[1].accepted>>
                                              ELSE db.orders = <<>>
  /\ db.quotations[1].status = "ACCEPTED" => db.quotations[1].accepted = db.quotations[1].lines

\* Sequences of at most one order.
LEMMA OneOrder ==
  \A x \in Nat : Append(<<>>, x) = <<x>> /\ Len(<<x>>) = 1 /\ <<x>>[1] = x /\ Len(<<>>) = 0
  OBVIOUS

\* Every handler of the quotations preserves QuotationsOk, and none takes a
\* conversion back.
LEMMA QuotationsStep ==
  ASSUME QuotationsOk(rows), NEW w \in Workers, requests[w].pc = "read" => Seen(w) = rows,
         requests[w].pc = "crmConverted" => rows.quotations[1].status = "CONVERTED",
         QuotationsNext(w)
  PROVE  /\ QuotationsOk(rows')
         /\ rows.quotations[1].status = "CONVERTED" => rows'.quotations[1].status = "CONVERTED"
<1>1. PICK q \in {1} :
        \/ CreateQuotation(w, q)
        \/ UpdateQuotation(w, q)
        \/ SendQuotation(w, q)
        \/ AcceptQuotation(w, q)
        \/ RejectQuotation(w, q)
        \/ CancelQuotation(w, q)
        \/ CrmSubmit(w, q)
        \/ CrmApprove(w, q)
        \/ CrmReject(w, q)
        \/ CrmSend(w, q)
        \/ CrmAccept(w, q)
        \/ CrmVoid(w, q)
        \/ ConvertQuotation(w, q)
        \/ CrmConvert(w, q)
        \/ CrmConverted(w, q)
  BY DEF QuotationsNext, QuotationsOk
<1>2. CASE CreateQuotation(w, q)
  <2>1. PICK n \in Amounts :
          /\ rows.quotations[q].status = "NONE"
          /\ rows' = [rows EXCEPT !.quotations[q] = [status |-> "DRAFT", lines |-> n, accepted |-> 0]]
    BY <1>1, <1>2 DEF CreateQuotation, Creates, Commit
  <2>2. QuotationsOk(rows')
    BY <1>1, <2>1 DEF QuotationsOk, Amounts
  <2>3. rows.quotations[1].status = "CONVERTED" => rows'.quotations[1].status = "CONVERTED"
    BY <1>1, <2>1 DEF QuotationsOk
  <2> QED
    BY <2>2, <2>3 DEF QuotationsOk
<1>3. CASE UpdateQuotation(w, q)
  <2>1. PICK n \in Amounts :
          rows.quotations[q].status = "DRAFT" /\ rows' = [rows EXCEPT !.quotations[q].lines = n]
    BY <1>1, <1>3 DEF UpdateQuotation, At, Changes, Commit
  <2>2. QuotationsOk(rows')
    BY <1>1, <2>1 DEF QuotationsOk, Amounts
  <2>3. rows.quotations[1].status = "CONVERTED" => rows'.quotations[1].status = "CONVERTED"
    BY <1>1, <2>1 DEF QuotationsOk
  <2> QED
    BY <2>2, <2>3 DEF QuotationsOk
<1>4. CASE SendQuotation(w, q)
  <2>1. rows.quotations[q].status \in {"DRAFT"}
        /\ rows' = [rows EXCEPT !.quotations[q].status = "SENT"]
    BY <1>1, <1>4 DEF SendQuotation, SetStatus, At, Changes, Commit
  <2>2. QuotationsOk(rows')
    BY <1>1, <2>1 DEF QuotationsOk, Amounts
  <2>3. rows.quotations[1].status = "CONVERTED" => rows'.quotations[1].status = "CONVERTED"
    BY <1>1, <2>1 DEF QuotationsOk
  <2> QED
    BY <2>2, <2>3 DEF QuotationsOk
<1>5. CASE AcceptQuotation(w, q)
  <2>1. /\ rows.quotations[q].status \in {"SENT"}
        /\ rows' = [rows EXCEPT !.quotations[q].status = "ACCEPTED",
                                 !.quotations[q].accepted = rows.quotations[q].lines]
    BY <1>1, <1>5 DEF AcceptQuotation, Accept, At, Changes, Commit
  <2>2. QuotationsOk(rows')
    BY <1>1, <2>1 DEF QuotationsOk, Amounts
  <2>3. rows.quotations[1].status = "CONVERTED" => rows'.quotations[1].status = "CONVERTED"
    BY <1>1, <2>1 DEF QuotationsOk
  <2> QED
    BY <2>2, <2>3 DEF QuotationsOk
<1>6. CASE RejectQuotation(w, q)
  <2>1. rows.quotations[q].status \in {"SENT"}
        /\ rows' = [rows EXCEPT !.quotations[q].status = "REJECTED"]
    BY <1>1, <1>6 DEF RejectQuotation, SetStatus, At, Changes, Commit
  <2>2. QuotationsOk(rows')
    BY <1>1, <2>1 DEF QuotationsOk, Amounts
  <2>3. rows.quotations[1].status = "CONVERTED" => rows'.quotations[1].status = "CONVERTED"
    BY <1>1, <2>1 DEF QuotationsOk
  <2> QED
    BY <2>2, <2>3 DEF QuotationsOk
<1>7. CASE CancelQuotation(w, q)
  <2>1. rows.quotations[q].status \in {"DRAFT", "SENT"}
        /\ rows' = [rows EXCEPT !.quotations[q].status = "CANCELLED"]
    BY <1>1, <1>7 DEF CancelQuotation, SetStatus, At, Changes, Commit
  <2>2. QuotationsOk(rows')
    BY <1>1, <2>1 DEF QuotationsOk, Amounts
  <2>3. rows.quotations[1].status = "CONVERTED" => rows'.quotations[1].status = "CONVERTED"
    BY <1>1, <2>1 DEF QuotationsOk
  <2> QED
    BY <2>2, <2>3 DEF QuotationsOk
<1>8. CASE CrmSubmit(w, q)
  <2>1. rows.quotations[q].status \in {"DRAFT"}
        /\ rows' = [rows EXCEPT !.quotations[q].status = "SUBMITTED"]
    BY <1>1, <1>8 DEF CrmSubmit, SetStatus, At, Changes, Commit
  <2>2. QuotationsOk(rows')
    BY <1>1, <2>1 DEF QuotationsOk, Amounts
  <2>3. rows.quotations[1].status = "CONVERTED" => rows'.quotations[1].status = "CONVERTED"
    BY <1>1, <2>1 DEF QuotationsOk
  <2> QED
    BY <2>2, <2>3 DEF QuotationsOk
<1>9. CASE CrmApprove(w, q)
  <2>1. rows.quotations[q].status \in {"SUBMITTED"}
        /\ rows' = [rows EXCEPT !.quotations[q].status = "APPROVED"]
    BY <1>1, <1>9 DEF CrmApprove, SetStatus, At, Changes, Commit
  <2>2. QuotationsOk(rows')
    BY <1>1, <2>1 DEF QuotationsOk, Amounts
  <2>3. rows.quotations[1].status = "CONVERTED" => rows'.quotations[1].status = "CONVERTED"
    BY <1>1, <2>1 DEF QuotationsOk
  <2> QED
    BY <2>2, <2>3 DEF QuotationsOk
<1>10. CASE CrmReject(w, q)
  <2>1. rows.quotations[q].status \in {"SUBMITTED"}
        /\ rows' = [rows EXCEPT !.quotations[q].status = "REJECTED"]
    BY <1>1, <1>10 DEF CrmReject, SetStatus, At, Changes, Commit
  <2>2. QuotationsOk(rows')
    BY <1>1, <2>1 DEF QuotationsOk, Amounts
  <2>3. rows.quotations[1].status = "CONVERTED" => rows'.quotations[1].status = "CONVERTED"
    BY <1>1, <2>1 DEF QuotationsOk
  <2> QED
    BY <2>2, <2>3 DEF QuotationsOk
<1>11. CASE CrmSend(w, q)
  <2>1. rows.quotations[q].status \in {"APPROVED", "DRAFT"}
        /\ rows' = [rows EXCEPT !.quotations[q].status = "SENT"]
    BY <1>1, <1>11 DEF CrmSend, SetStatus, At, Changes, Commit
  <2>2. QuotationsOk(rows')
    BY <1>1, <2>1 DEF QuotationsOk, Amounts
  <2>3. rows.quotations[1].status = "CONVERTED" => rows'.quotations[1].status = "CONVERTED"
    BY <1>1, <2>1 DEF QuotationsOk
  <2> QED
    BY <2>2, <2>3 DEF QuotationsOk
<1>12. CASE CrmAccept(w, q)
  <2>1. /\ rows.quotations[q].status \in {"SENT", "APPROVED"}
        /\ rows' = [rows EXCEPT !.quotations[q].status = "ACCEPTED",
                                 !.quotations[q].accepted = rows.quotations[q].lines]
    BY <1>1, <1>12 DEF CrmAccept, Accept, At, Changes, Commit
  <2>2. QuotationsOk(rows')
    BY <1>1, <2>1 DEF QuotationsOk, Amounts
  <2>3. rows.quotations[1].status = "CONVERTED" => rows'.quotations[1].status = "CONVERTED"
    BY <1>1, <2>1 DEF QuotationsOk
  <2> QED
    BY <2>2, <2>3 DEF QuotationsOk
<1>13. CASE CrmVoid(w, q)
  <2>1. rows.quotations[q].status \in {"DRAFT", "SUBMITTED", "APPROVED", "SENT", "ACCEPTED",
                                       "REJECTED", "CANCELLED", "VOIDED"}
        /\ rows' = [rows EXCEPT !.quotations[q].status = "VOIDED"]
    BY <1>1, <1>13 DEF CrmVoid, SetStatus, At, Changes, Commit
  <2>2. QuotationsOk(rows')
    BY <1>1, <2>1 DEF QuotationsOk, Amounts
  <2>3. rows.quotations[1].status = "CONVERTED" => rows'.quotations[1].status = "CONVERTED"
    BY <1>1, <2>1 DEF QuotationsOk
  <2> QED
    BY <2>2, <2>3 DEF QuotationsOk
<1>14. CASE ConvertQuotation(w, q)
  <2>1. /\ rows.quotations[q].status = "ACCEPTED"
        /\ rows' = [rows EXCEPT !.quotations[q].status = "CONVERTED",
                                 !.orders = Append(@, rows.quotations[q].lines)]
    BY <1>1, <1>14 DEF ConvertQuotation, At, Changes, Commit
  <2>2. QuotationsOk(rows')
    <3>1. rows'.orders = <<rows.quotations[q].lines>>
      BY <1>1, <2>1, OneOrder DEF QuotationsOk
    <3>2. /\ DOMAIN rows' = DOMAIN rows /\ DOMAIN rows'.quotations = DOMAIN rows.quotations
          /\ rows'.quotations[q] = [rows.quotations[q] EXCEPT !.status = "CONVERTED"]
      BY <1>1, <2>1 DEF QuotationsOk
    <3> QED
      BY <1>1, <2>1, <3>1, <3>2 DEF QuotationsOk
  <2>3. rows.quotations[1].status = "CONVERTED" => rows'.quotations[1].status = "CONVERTED"
    BY <1>1, <2>1 DEF QuotationsOk
  <2> QED
    BY <2>2, <2>3 DEF QuotationsOk
<1>15. CASE CrmConvert(w, q)
  <2>1. /\ rows.quotations[q].status = "ACCEPTED"
        /\ rows' = [rows EXCEPT !.quotations[q].status = "CONVERTED",
                                 !.orders = Append(@, rows.quotations[q].lines)]
    BY <1>1, <1>15 DEF CrmConvert, At, Changes, Commit, Continue
  <2>2. QuotationsOk(rows')
    <3>1. rows'.orders = <<rows.quotations[q].lines>>
      BY <1>1, <2>1, OneOrder DEF QuotationsOk
    <3>2. /\ DOMAIN rows' = DOMAIN rows /\ DOMAIN rows'.quotations = DOMAIN rows.quotations
          /\ rows'.quotations[q] = [rows.quotations[q] EXCEPT !.status = "CONVERTED"]
      BY <1>1, <2>1 DEF QuotationsOk
    <3> QED
      BY <1>1, <2>1, <3>1, <3>2 DEF QuotationsOk
  <2>3. rows.quotations[1].status = "CONVERTED" => rows'.quotations[1].status = "CONVERTED"
    BY <1>1, <2>1 DEF QuotationsOk
  <2> QED
    BY <2>2, <2>3 DEF QuotationsOk
<1>16. CASE CrmConverted(w, q)
  <2>1. /\ rows.quotations[q].status = "CONVERTED"
        /\ rows' = [rows EXCEPT !.quotations[q].status = "CONVERTED"]
    BY <1>1, <1>16 DEF CrmConverted, Resumes, At, Commit
  <2>2. QuotationsOk(rows')
    BY <1>1, <2>1 DEF QuotationsOk, Amounts
  <2>3. rows.quotations[1].status = "CONVERTED" => rows'.quotations[1].status = "CONVERTED"
    BY <1>1, <2>1 DEF QuotationsOk
  <2> QED
    BY <2>2, <2>3 DEF QuotationsOk
<1> QED
  BY <1>1, <1>2, <1>3, <1>4, <1>5, <1>6, <1>7, <1>8, <1>9, <1>10, <1>11, <1>12, <1>13, <1>14,
     <1>15, <1>16

\* The second transaction of a conversion by crm/quotations is waited for only
\* after the first has converted the quotation.
LEMMA CrmConvertedAfter ==
  ASSUME QuotationsOk(rows), NEW w \in Workers, requests = [v \in Workers |-> requests[v]],
         QuotationsNext(w), requests'[w].pc = "crmConverted"
  PROVE  rows'.quotations[1].status = "CONVERTED"
<1>1. PICK q \in {1} :
        \/ CreateQuotation(w, q)
        \/ UpdateQuotation(w, q)
        \/ SendQuotation(w, q)
        \/ AcceptQuotation(w, q)
        \/ RejectQuotation(w, q)
        \/ CancelQuotation(w, q)
        \/ CrmSubmit(w, q)
        \/ CrmApprove(w, q)
        \/ CrmReject(w, q)
        \/ CrmSend(w, q)
        \/ CrmAccept(w, q)
        \/ CrmVoid(w, q)
        \/ ConvertQuotation(w, q)
        \/ CrmConvert(w, q)
        \/ CrmConverted(w, q)
  BY DEF QuotationsNext, QuotationsOk
<1>2. ASSUME NEW new, Commit(w, new) PROVE FALSE
  BY <1>2 DEF Commit, Idle
<1>3. CASE CrmConvert(w, q)
  BY <1>1, <1>3 DEF CrmConvert, Continue, QuotationsOk
<1> QED
  BY <1>1, <1>2, <1>3 DEF CreateQuotation, UpdateQuotation, SendQuotation, AcceptQuotation, RejectQuotation,
     CancelQuotation, CrmSubmit, CrmApprove, CrmReject, CrmSend, CrmAccept, CrmVoid, ConvertQuotation,
     CrmConverted, SetStatus, Accept

-----------------------------------------------------------------------------
\* A lead and the opportunities, at most one of which was made of it.
LeadsOk(db) ==
  /\ DOMAIN db = {"domain", "leads", "opportunities"}
  /\ DOMAIN db.leads = {1} /\ DOMAIN db.leads[1] = {"status", "customer"}
  /\ DOMAIN db.opportunities = {1, 2}
  /\ \A o \in {1, 2} : /\ DOMAIN db.opportunities[o] = {"status", "lead"}
                        /\ db.opportunities[o].lead \in {0, 1}
  /\ \A o \in {1, 2} : db.opportunities[o].lead = 1 => db.leads[1].status = "CONVERTED"
  /\ ~ (db.opportunities[1].lead = 1 /\ db.opportunities[2].lead = 1)

\* Every handler of leads preserves LeadsOk,
LEMMA LeadStep ==
  ASSUME LeadsOk(rows), NEW w \in Workers, requests[w].pc = "read" => Seen(w) = rows,
         NEW l \in {1},
         \/ CreateLead(w, l)
         \/ UpdateLead(w, l)
         \/ QualifyLead(w, l)
         \/ ConvertLead(w, l)
         \/ CloseLead(w, l)
  PROVE  LeadsOk(rows')
<1>2. CASE CreateLead(w, l)
  <2>1. /\ rows.leads[l].status = "NONE"
        /\ rows' = [rows EXCEPT !.leads[l] = [status |-> "NEW", customer |-> FALSE]]
    BY <1>2 DEF CreateLead, Creates, Commit
  <2>2. LeadsOk(rows')
    BY <2>1 DEF LeadsOk
  <2> QED
    BY <2>2 DEF LeadsOk
<1>3. CASE UpdateLead(w, l)
  <2>1. PICK to \in LeadStatus :
          /\ rows' = [rows EXCEPT !.leads[l].status = to]
          /\ rows.leads[l].status # "CONVERTED"
    BY <1>3 DEF UpdateLead, SetStatus, OpenLead, LeadStatus, OpportunityStatus, At, Changes,
       Commit
  <2>2. LeadsOk(rows')
    BY <2>1 DEF LeadsOk
  <2> QED
    BY <2>2 DEF LeadsOk
<1>4. CASE QualifyLead(w, l)
  <2>1. PICK to \in {"QUALIFIED"} :
          /\ rows' = [rows EXCEPT !.leads[l].status = to]
          /\ rows.leads[l].status # "CONVERTED"
    BY <1>4 DEF QualifyLead, SetStatus, OpenLead, LeadStatus, OpportunityStatus, At, Changes,
       Commit
  <2>2. LeadsOk(rows')
    BY <2>1 DEF LeadsOk
  <2> QED
    BY <2>2 DEF LeadsOk
<1>5. CASE ConvertLead(w, l)
  <2>1. PICK o \in {1, 2} :
          /\ rows.leads[l].status # "CONVERTED"
          /\ rows.opportunities[o].status = "NONE"
          /\ rows' = [rows EXCEPT !.leads[l] = [status |-> "CONVERTED", customer |-> TRUE],
                                   !.opportunities[o] = [status |-> "OPEN", lead |-> l]]
    BY <1>5 DEF ConvertLead, OpenLead, LeadStatus, LeadsOk, At, Changes, Commit
  <2>2. LeadsOk(rows')
    BY <2>1 DEF LeadsOk
  <2> QED
    BY <2>2 DEF LeadsOk
<1>6. CASE CloseLead(w, l)
  <2>1. PICK to \in {"LOST"} :
          /\ rows' = [rows EXCEPT !.leads[l].status = to]
          /\ rows.leads[l].status # "CONVERTED"
    BY <1>6 DEF CloseLead, SetStatus, OpenLead, LeadStatus, OpportunityStatus, At, Changes,
       Commit
  <2>2. LeadsOk(rows')
    BY <2>1 DEF LeadsOk
  <2> QED
    BY <2>2 DEF LeadsOk
<1> QED
  BY <1>2, <1>3, <1>4, <1>5, <1>6

\* and so does every handler of opportunities.
LEMMA OpportunityStep ==
  ASSUME LeadsOk(rows), NEW w \in Workers, requests[w].pc = "read" => Seen(w) = rows,
         NEW o \in {1, 2},
         \/ CreateOpportunity(w, o)
         \/ UpdateOpportunity(w, o)
         \/ ChangeStage(w, o)
         \/ CloseWon(w, o)
         \/ CloseLost(w, o)
  PROVE  LeadsOk(rows')
<1>2. CASE CreateOpportunity(w, o)
  <2>1. /\ rows.opportunities[o].status = "NONE"
        /\ rows' = [rows EXCEPT !.opportunities[o] = [status |-> "OPEN", lead |-> 0]]
    BY <1>2 DEF CreateOpportunity, Creates, Commit
  <2>2. LeadsOk(rows')
    BY <2>1 DEF LeadsOk
  <2> QED
    BY <2>2 DEF LeadsOk
<1>3. CASE UpdateOpportunity(w, o)
  <2>1. PICK to \in OpportunityStatus :
          rows' = [rows EXCEPT !.opportunities[o].status = to]
    BY <1>3 DEF UpdateOpportunity, SetStatus, OpenLead, LeadStatus, OpportunityStatus, At,
       Changes, Commit
  <2>2. LeadsOk(rows')
    BY <2>1 DEF LeadsOk
  <2> QED
    BY <2>2 DEF LeadsOk
<1>4. CASE ChangeStage(w, o)
  <2>1. PICK to \in {"OPEN", "WON", "LOST"} :
          rows' = [rows EXCEPT !.opportunities[o].status = to]
    BY <1>4 DEF ChangeStage, SetStatus, OpenLead, LeadStatus, OpportunityStatus, At, Changes,
       Commit
  <2>2. LeadsOk(rows')
    BY <2>1 DEF LeadsOk
  <2> QED
    BY <2>2 DEF LeadsOk
<1>5. CASE CloseWon(w, o)
  <2>1. PICK to \in {"WON"} :
          rows' = [rows EXCEPT !.opportunities[o].status = to]
    BY <1>5 DEF CloseWon, SetStatus, OpenLead, LeadStatus, OpportunityStatus, At, Changes, Commit
  <2>2. LeadsOk(rows')
    BY <2>1 DEF LeadsOk
  <2> QED
    BY <2>2 DEF LeadsOk
<1>6. CASE CloseLost(w, o)
  <2>1. PICK to \in {"LOST"} :
          rows' = [rows EXCEPT !.opportunities[o].status = to]
    BY <1>6 DEF CloseLost, SetStatus, OpenLead, LeadStatus, OpportunityStatus, At, Changes,
       Commit
  <2>2. LeadsOk(rows')
    BY <2>1 DEF LeadsOk
  <2> QED
    BY <2>2 DEF LeadsOk
<1> QED
  BY <1>2, <1>3, <1>4, <1>5, <1>6

\* Together.
LEMMA LeadsStep ==
  ASSUME LeadsOk(rows), NEW w \in Workers, requests[w].pc = "read" => Seen(w) = rows, LeadsNext(w)
  PROVE  LeadsOk(rows')
<1>1. DOMAIN rows.leads = {1} /\ DOMAIN rows.opportunities = {1, 2}
  BY DEF LeadsOk
<1> QED
  BY <1>1, LeadStep, OpportunityStep DEF LeadsNext

\* QuotationsOk and LeadsOk imply the property.
LEMMA ConvertsOnceThen ==
  ASSUME rows.domain = "quotations" => QuotationsOk(rows),
         rows.domain = "leads" => LeadsOk(rows)
  PROVE  ConvertsOnce
<1>1. ASSUME rows.domain = "quotations"
      PROVE  /\ Len(rows.orders) <= 1
             /\ rows.orders # <<>> => /\ rows.quotations[1].status = "CONVERTED"
                                      /\ rows.orders[1] = rows.quotations[1].accepted
  <2>1. CASE rows.quotations[1].status = "CONVERTED"
    <3>1. rows.orders = <<rows.quotations[1].accepted>> /\ rows.quotations[1].accepted \in Nat
      BY <1>1, <2>1 DEF QuotationsOk
    <3>2. Len(rows.orders) = 1 /\ rows.orders[1] = rows.quotations[1].accepted
      BY <3>1, OneOrder
    <3> QED
      BY <2>1, <3>2
  <2>2. CASE rows.quotations[1].status # "CONVERTED"
    <3>1. rows.orders = <<>> /\ Len(<<>>) = 0
      BY <1>1, <2>2 DEF QuotationsOk
    <3> QED
      BY <3>1
  <2> QED
    BY <2>1, <2>2
<1>2. ASSUME rows.domain = "leads"
      PROVE  LET made == {o \in DOMAIN rows.opportunities : rows.opportunities[o].lead = 1}
             IN  Cardinality(made) <= 1 /\ (made # {} => rows.leads[1].status = "CONVERTED")
  <2> DEFINE made == {o \in DOMAIN rows.opportunities : rows.opportunities[o].lead = 1}
  <2>1. made # {} => rows.leads[1].status = "CONVERTED"
    BY <1>2 DEF LeadsOk
  <2>2. made = {} \/ \E o \in {1, 2} : made = {o}
    BY <1>2 DEF LeadsOk
  <2> HIDE DEF made
  <2>3. ASSUME made = {} PROVE Cardinality(made) <= 1
    <3>1. Cardinality({}) = 0
      BY FS_EmptySet, Zenon
    <3> QED
      BY <2>3, <3>1
  <2>4. ASSUME NEW o \in {1, 2}, made = {o} PROVE Cardinality(made) <= 1
    <3>1. Cardinality({o}) = 1
      BY FS_Singleton, Zenon
    <3> QED
      BY <2>4, <3>1
  <2> QED
    BY <2>1, <2>2, <2>3, <2>4 DEF made
<1> QED
  BY <1>1, <1>2 DEF ConvertsOnce

-----------------------------------------------------------------------------
(* returns: customer returns. *)

\* What has happened to a return at each of its statuses.
RmaOk(rma) ==
  /\ DOMAIN rma = {"status", "requested", "authorized", "received", "accepted", "disposed",
                   "lot", "resolved"}
  /\ rma.requested \in Nat /\ rma.authorized \in Nat /\ rma.received \in Nat
  /\ rma.accepted \in Nat /\ rma.disposed \in Nat
  /\ rma.received <= rma.authorized /\ rma.accepted <= rma.received
  /\ rma.disposed <= rma.authorized
  /\ rma.received > 0 => rma.disposed <= rma.received
  /\ rma.status \in {"NONE", "DRAFT", "SUBMITTED", "UNDER_REVIEW"} =>
       rma.authorized = 0 /\ rma.received = 0 /\ rma.disposed = 0 /\ ~ rma.lot
  /\ rma.status \in {"AUTHORIZED", "RECEIVED"} => rma.disposed = 0

ReturnsShape(db) ==
  /\ DOMAIN db = {"domain", "requireInspection", "rmas"}
  /\ DOMAIN db.rmas = RmaIds

EachRmaOk(db) == \A r \in RmaIds : RmaOk(db.rmas[r])

\* Customer returns.
ReturnsOk(db) == ReturnsShape(db) /\ EachRmaOk(db)

\* Every handler of the returns preserves ReturnsOk.
LEMMA ReturnsStep ==
  ASSUME ReturnsOk(rows), NEW w \in Workers, requests[w].pc = "read" => Seen(w) = rows,
         ReturnsNext(w)
  PROVE  ReturnsOk(rows')
<1>1. PICK r \in RmaIds :
        \/ CreateReturn(w, r)
        \/ SubmitReturn(w, r)
        \/ ReviewReturn(w, r)
        \/ AuthorizeReturn(w, r)
        \/ RejectReturn(w, r)
        \/ CancelReturn(w, r)
        \/ VoidReturn(w, r)
        \/ CloseReturn(w, r)
        \/ ReceiveReturn(w, r)
        \/ RequestInspection(w, r)
        \/ SyncInspection(w, r)
        \/ DisposeReturn(w, r)
        \/ CreateCreditNoteResolution(w, r)
        \/ CreateRefundResolution(w, r)
        \/ CreateDebitNoteResolution(w, r)
        \/ CreateReplacementResolution(w, r)
  BY DEF ReturnsNext
<1>2. CASE CreateReturn(w, r)
  <2>1. PICK n \in 1..(MaxAmount - PreviouslyReturned(rows)) :
          /\ rows.rmas[r].status = "NONE"
          /\ rows' = [rows EXCEPT !.rmas[r].status = "DRAFT", !.rmas[r].requested = n]
    BY <1>1, <1>2 DEF CreateReturn, Creates, At, Commit
  <2>2. ReturnsShape(rows')
    BY <1>1, <2>1 DEF ReturnsOk, ReturnsShape
  <2>3. EachRmaOk(rows')
    BY <1>1, <2>1 DEF ReturnsOk, ReturnsShape, EachRmaOk, RmaOk
  <2> QED
    BY <2>2, <2>3 DEF ReturnsOk
<1>3. CASE SubmitReturn(w, r)
  <2>1. /\ rows.rmas[r].status \in {"DRAFT"}
        /\ rows' = [rows EXCEPT !.rmas[r].status = "SUBMITTED"]
    BY <1>1, <1>3 DEF SubmitReturn, SetStatus, At, Changes, Commit
  <2>2. ReturnsShape(rows')
    BY <1>1, <2>1 DEF ReturnsOk, ReturnsShape
  <2>3. EachRmaOk(rows')
    BY <1>1, <2>1 DEF ReturnsOk, ReturnsShape, EachRmaOk, RmaOk
  <2> QED
    BY <2>2, <2>3 DEF ReturnsOk
<1>4. CASE ReviewReturn(w, r)
  <2>1. /\ rows.rmas[r].status \in {"SUBMITTED", "DRAFT"}
        /\ rows' = [rows EXCEPT !.rmas[r].status = "UNDER_REVIEW"]
    BY <1>1, <1>4 DEF ReviewReturn, SetStatus, At, Changes, Commit
  <2>2. ReturnsShape(rows')
    BY <1>1, <2>1 DEF ReturnsOk, ReturnsShape
  <2>3. EachRmaOk(rows')
    BY <1>1, <2>1 DEF ReturnsOk, ReturnsShape, EachRmaOk, RmaOk
  <2> QED
    BY <2>2, <2>3 DEF ReturnsOk
<1>5. CASE AuthorizeReturn(w, r)
  <2>1. PICK n \in 0..rows.rmas[r].requested :
          /\ rows.rmas[r].status \in {"UNDER_REVIEW", "SUBMITTED", "DRAFT"}
          /\ rows' = [rows EXCEPT !.rmas[r].status = "AUTHORIZED", !.rmas[r].authorized = n]
    BY <1>1, <1>5 DEF AuthorizeReturn, At, Changes, Commit
  <2>2. ReturnsShape(rows')
    BY <1>1, <2>1 DEF ReturnsOk, ReturnsShape
  <2>3. EachRmaOk(rows')
    BY <1>1, <2>1 DEF ReturnsOk, ReturnsShape, EachRmaOk, RmaOk
  <2> QED
    BY <2>2, <2>3 DEF ReturnsOk
<1>6. CASE RejectReturn(w, r)
  <2>1. /\ rows.rmas[r].status \in RmaStatuses
        /\ rows' = [rows EXCEPT !.rmas[r].status = "REJECTED"]
    BY <1>1, <1>6 DEF RejectReturn, SetStatus, At, Changes, Commit
  <2>2. ReturnsShape(rows')
    BY <1>1, <2>1 DEF ReturnsOk, ReturnsShape
  <2>3. EachRmaOk(rows')
    BY <1>1, <2>1 DEF ReturnsOk, ReturnsShape, EachRmaOk, RmaOk, RmaStatuses
  <2> QED
    BY <2>2, <2>3 DEF ReturnsOk
<1>7. CASE CancelReturn(w, r)
  <2>1. /\ rows.rmas[r].status \in RmaStatuses
        /\ rows' = [rows EXCEPT !.rmas[r].status = "CANCELLED"]
    BY <1>1, <1>7 DEF CancelReturn, SetStatus, At, Changes, Commit
  <2>2. ReturnsShape(rows')
    BY <1>1, <2>1 DEF ReturnsOk, ReturnsShape
  <2>3. EachRmaOk(rows')
    BY <1>1, <2>1 DEF ReturnsOk, ReturnsShape, EachRmaOk, RmaOk, RmaStatuses
  <2> QED
    BY <2>2, <2>3 DEF ReturnsOk
<1>8. CASE VoidReturn(w, r)
  <2>1. /\ rows.rmas[r].status \in RmaStatuses
        /\ rows' = [rows EXCEPT !.rmas[r].status = "VOIDED"]
    BY <1>1, <1>8 DEF VoidReturn, SetStatus, At, Changes, Commit
  <2>2. ReturnsShape(rows')
    BY <1>1, <2>1 DEF ReturnsOk, ReturnsShape
  <2>3. EachRmaOk(rows')
    BY <1>1, <2>1 DEF ReturnsOk, ReturnsShape, EachRmaOk, RmaOk, RmaStatuses
  <2> QED
    BY <2>2, <2>3 DEF ReturnsOk
<1>9. CASE CloseReturn(w, r)
  <2>1. /\ rows.rmas[r].status \in RmaStatuses
        /\ rows' = [rows EXCEPT !.rmas[r].status = "CLOSED"]
    BY <1>1, <1>9 DEF CloseReturn, SetStatus, At, Changes, Commit
  <2>2. ReturnsShape(rows')
    BY <1>1, <2>1 DEF ReturnsOk, ReturnsShape
  <2>3. EachRmaOk(rows')
    BY <1>1, <2>1 DEF ReturnsOk, ReturnsShape, EachRmaOk, RmaOk, RmaStatuses
  <2> QED
    BY <2>2, <2>3 DEF ReturnsOk
<1>10. CASE ReceiveReturn(w, r)
  <2>1. PICK n \in 1..(rows.rmas[r].authorized - rows.rmas[r].received),
                  to \in {"INSPECTION_REQUIRED", "RECEIVED"} :
          /\ rows.rmas[r].status \in {"AUTHORIZED", "RECEIVED"}
          /\ rows' = [rows EXCEPT !.rmas[r].received = rows.rmas[r].received + n,
                                   !.rmas[r].status = to]
    BY <1>1, <1>10 DEF ReceiveReturn, At, Changes, Commit
  <2>2. ReturnsShape(rows')
    BY <1>1, <2>1 DEF ReturnsOk, ReturnsShape
  <2>3. EachRmaOk(rows')
    BY <1>1, <2>1 DEF ReturnsOk, ReturnsShape, EachRmaOk, RmaOk
  <2> QED
    BY <2>2, <2>3 DEF ReturnsOk
<1>11. CASE RequestInspection(w, r)
  <2>1. /\ rows.rmas[r].status \in {"INSPECTION_REQUIRED", "RECEIVED", "AUTHORIZED"}
        /\ rows' = [rows EXCEPT !.rmas[r].status = "INSPECTING", !.rmas[r].lot = TRUE]
    BY <1>1, <1>11 DEF RequestInspection, At, Changes, Commit
  <2>2. ReturnsShape(rows')
    BY <1>1, <2>1 DEF ReturnsOk, ReturnsShape
  <2>3. EachRmaOk(rows')
    BY <1>1, <2>1 DEF ReturnsOk, ReturnsShape, EachRmaOk, RmaOk
  <2> QED
    BY <2>2, <2>3 DEF ReturnsOk
<1>12. CASE SyncInspection(w, r)
  <2>1. PICK n \in 0..rows.rmas[r].received :
          /\ rows.rmas[r].lot /\ rows.rmas[r].status \in RmaStatuses
          /\ rows' = [rows EXCEPT !.rmas[r].status = "DISPOSITION_PENDING", !.rmas[r].accepted = n]
    BY <1>1, <1>12 DEF SyncInspection, At, Changes, Commit
  <2>2. ReturnsShape(rows')
    BY <1>1, <2>1 DEF ReturnsOk, ReturnsShape
  <2>3. EachRmaOk(rows')
    BY <1>1, <2>1 DEF ReturnsOk, ReturnsShape, EachRmaOk, RmaOk, RmaStatuses
  <2> QED
    BY <2>2, <2>3 DEF ReturnsOk
<1>13. CASE DisposeReturn(w, r)
  <2>1. PICK n \in 1..LeftToDispose(rows.rmas[r]) :
          /\ rows.rmas[r].status \in RmaStatuses
          /\ rows' = [rows EXCEPT !.rmas[r].disposed = @ + n, !.rmas[r].status = "DISPOSITION_PENDING"]
    BY <1>1, <1>13 DEF DisposeReturn, At, Changes, Commit
  <2>2. ReturnsShape(rows')
    BY <1>1, <2>1 DEF ReturnsOk, ReturnsShape
  <2>3. EachRmaOk(rows')
    BY <1>1, <2>1 DEF ReturnsOk, ReturnsShape, EachRmaOk, RmaOk, RmaStatuses, LeftToDispose
  <2> QED
    BY <2>2, <2>3 DEF ReturnsOk
<1>14. CASE CreateCreditNoteResolution(w, r)
  <2>1. /\ rows.rmas[r].status \in RmaStatuses \ Ended
        /\ rows' = [rows EXCEPT !.rmas[r].status = "RESOLVED", !.rmas[r].resolved = TRUE]
    BY <1>1, <1>14 DEF CreateCreditNoteResolution, CreateResolution, At, Changes, Commit
  <2>2. ReturnsShape(rows')
    BY <1>1, <2>1 DEF ReturnsOk, ReturnsShape
  <2>3. EachRmaOk(rows')
    BY <1>1, <2>1 DEF ReturnsOk, ReturnsShape, EachRmaOk, RmaOk, RmaStatuses
  <2> QED
    BY <2>2, <2>3 DEF ReturnsOk
<1>15. CASE CreateRefundResolution(w, r)
  <2>1. /\ rows.rmas[r].status \in RmaStatuses \ Ended
        /\ rows' = [rows EXCEPT !.rmas[r].status = "RESOLVED", !.rmas[r].resolved = TRUE]
    BY <1>1, <1>15 DEF CreateRefundResolution, CreateResolution, At, Changes, Commit
  <2>2. ReturnsShape(rows')
    BY <1>1, <2>1 DEF ReturnsOk, ReturnsShape
  <2>3. EachRmaOk(rows')
    BY <1>1, <2>1 DEF ReturnsOk, ReturnsShape, EachRmaOk, RmaOk, RmaStatuses
  <2> QED
    BY <2>2, <2>3 DEF ReturnsOk
<1>16. CASE CreateDebitNoteResolution(w, r)
  <2>1. /\ rows.rmas[r].status \in RmaStatuses \ Ended
        /\ rows' = [rows EXCEPT !.rmas[r].status = "RESOLVED", !.rmas[r].resolved = TRUE]
    BY <1>1, <1>16 DEF CreateDebitNoteResolution, CreateResolution, At, Changes, Commit
  <2>2. ReturnsShape(rows')
    BY <1>1, <2>1 DEF ReturnsOk, ReturnsShape
  <2>3. EachRmaOk(rows')
    BY <1>1, <2>1 DEF ReturnsOk, ReturnsShape, EachRmaOk, RmaOk, RmaStatuses
  <2> QED
    BY <2>2, <2>3 DEF ReturnsOk
<1>17. CASE CreateReplacementResolution(w, r)
  <2>1. /\ rows.rmas[r].status \in RmaStatuses \ Ended
        /\ rows' = [rows EXCEPT !.rmas[r].status = "RESOLVED", !.rmas[r].resolved = TRUE]
    BY <1>1, <1>17 DEF CreateReplacementResolution, CreateResolution, At, Changes, Commit
  <2>2. ReturnsShape(rows')
    BY <1>1, <2>1 DEF ReturnsOk, ReturnsShape
  <2>3. EachRmaOk(rows')
    BY <1>1, <2>1 DEF ReturnsOk, ReturnsShape, EachRmaOk, RmaOk, RmaStatuses
  <2> QED
    BY <2>2, <2>3 DEF ReturnsOk
<1> QED
  BY <1>1, <1>2, <1>3, <1>4, <1>5, <1>6, <1>7, <1>8, <1>9, <1>10, <1>11, <1>12, <1>13, <1>14,
     <1>15, <1>16, <1>17

\* ReturnsOk implies the property of the returns.
LEMMA DisposedOnceThen ==
  ASSUME rows.domain = "returns" => ReturnsOk(rows)
  PROVE  DisposedOnce
  BY DEF DisposedOnce, ReturnsOk, EachRmaOk, RmaOk

-----------------------------------------------------------------------------
(* quality: inspection lots, holds and non-conformances. *)

\* The tables of the domain.
QualityShape(db) ==
  /\ DOMAIN db = {"domain", "mandatory", "lots", "results", "holds", "ncrs"}
  /\ DOMAIN db.lots = {1} /\ DOMAIN db.holds = {1, 2} /\ DOMAIN db.ncrs = {1}
  /\ DOMAIN db.lots[1] = {"status", "sample", "decision", "inspected", "passed", "failed"}
  /\ \A h \in {1, 2} : DOMAIN db.holds[h] = {"status"}
  /\ DOMAIN db.ncrs[1] = {"status"}

\* The lot's counters are those of the results.
CountsOk(db) ==
  /\ db.lots[1].failed = Cardinality(FailedSamples(db.results))
  /\ db.lots[1].inspected = Cardinality(Measured(db.results))
  /\ db.lots[1].passed = Cardinality(Measured(db.results)) - Cardinality(FailedSamples(db.results))

\* What a decision about the lot is founded on and what it brings about.
DecisionOk(db) ==
  /\ db.lots[1].decision # "-" <=> db.lots[1].status = "DECIDED"
  /\ db.lots[1].decision = "ACCEPT" =>
       FailedSamples(db.results) = {} /\ MissingMandatory(db, 1) = {}
  /\ db.holds[1].status # "NONE" <=> db.lots[1].decision \notin {"-", "ACCEPT"}
  /\ db.lots[1].decision \in {"REJECT", "SCRAP", "RETURN_TO_SUPPLIER"} =>
       db.ncrs[1].status # "NONE"

\* Inspection lots.
QualityOk(db) == QualityShape(db) /\ CountsOk(db) /\ DecisionOk(db)

\* Every handler of the quality domain preserves QualityOk.
LEMMA QualityStep ==
  ASSUME QualityOk(rows), NEW w \in Workers, requests[w].pc = "read" => Seen(w) = rows,
         QualityNext(w)
  PROVE  QualityOk(rows')
<1>2. CASE \E l \in {1} : CreateLot(w, l)
  <2>1. PICK n \in Samples :
          /\ rows.lots[1].status = "NONE"
          /\ rows' = [rows EXCEPT !.lots[1].status = "PENDING", !.lots[1].sample = n]
    BY <1>2 DEF CreateLot, Creates, Commit
  <2>2. QualityShape(rows')
    BY <2>1 DEF QualityOk, QualityShape
  <2>3. CountsOk(rows')
    BY <2>1 DEF QualityOk, QualityShape, CountsOk
  <2>4. DecisionOk(rows')
    BY <2>1 DEF QualityOk, QualityShape, DecisionOk, MissingMandatory
  <2> QED
    BY <2>2, <2>3, <2>4 DEF QualityOk
<1>3. CASE \E l \in {1} : RecordResults(w, l)
  <2>1. RecordResults(w, 1)
    BY <1>3
  <2>2. Seen(w) = rows /\ rows.lots[1].status \in Undecided
    BY <2>1 DEF RecordResults, Changes, At
  <2>3. PICK s \in Samples, result \in {"pass", "fail"} :
          LET results == [rows.results EXCEPT ![s] = result]
              failed == Cardinality(FailedSamples(results))
              inspected == Cardinality(Measured(results))
          IN rows' = [rows EXCEPT
               !.results = results,
               !.lots[1] = [@ EXCEPT
                  !.status = IF inspected >= Seen(w).lots[1].sample
                             THEN "COMPLETED" ELSE "IN_PROGRESS",
                  !.inspected = inspected, !.passed = inspected - failed, !.failed = failed]]
    BY <2>1 DEF RecordResults, Commit
  <2> DEFINE results == [rows.results EXCEPT ![s] = result]
             failed == Cardinality(FailedSamples(results))
             inspected == Cardinality(Measured(results))
             to == IF inspected >= Seen(w).lots[1].sample THEN "COMPLETED" ELSE "IN_PROGRESS"
  <2>4. to \in {"COMPLETED", "IN_PROGRESS"}
    OBVIOUS
  <2>5. rows' = [rows EXCEPT
                  !.results = results,
                  !.lots[1] = [@ EXCEPT !.status = to, !.inspected = inspected,
                                        !.passed = inspected - failed, !.failed = failed]]
    BY <2>3
  <2> HIDE DEF to, failed, inspected, results
  <2>6. /\ DOMAIN rows' = DOMAIN rows /\ DOMAIN rows'.lots = {1}
        /\ DOMAIN rows'.lots[1] = DOMAIN rows.lots[1]
        /\ rows'.results = results /\ rows'.holds = rows.holds /\ rows'.ncrs = rows.ncrs
        /\ rows'.mandatory = rows.mandatory
        /\ rows'.lots[1].status = to /\ rows'.lots[1].failed = failed
        /\ rows'.lots[1].inspected = inspected
        /\ rows'.lots[1].passed = inspected - failed
        /\ rows'.lots[1].decision = rows.lots[1].decision
    <3>1. /\ DOMAIN rows = {"domain", "mandatory", "lots", "results", "holds", "ncrs"}
          /\ DOMAIN rows.lots = {1}
          /\ DOMAIN rows.lots[1] = {"status", "sample", "decision", "inspected", "passed", "failed"}
      BY DEF QualityOk, QualityShape
    <3> QED
      BY <2>5, <3>1
  <2>7. QualityShape(rows')
    BY <2>6 DEF QualityOk, QualityShape
  <2>8. CountsOk(rows')
    BY <2>6 DEF CountsOk, results, failed, inspected
  <2>9. DecisionOk(rows')
    BY <2>2, <2>4, <2>6 DEF QualityOk, DecisionOk, Undecided
  <2> QED
    BY <2>7, <2>8, <2>9 DEF QualityOk
<1>4. CASE \E l \in {1} : DecideInspection(w, l)
  <2>1. PICK decision \in Decisions, asked \in BOOLEAN :
          /\ rows.lots[1].status \in Undecided
          /\ Decidable(rows, 1, decision)
          /\ rows' = [rows EXCEPT
               !.lots[1].status = "DECIDED", !.lots[1].decision = decision,
               !.holds[1].status = IF decision # "ACCEPT" THEN "ACTIVE" ELSE @,
               !.ncrs[1].status = IF asked \/ decision \in {"REJECT", "SCRAP", "RETURN_TO_SUPPLIER"}
                                  THEN "OPEN" ELSE @]
    <3> DecideInspection(w, 1)
      BY <1>4
    <3>1. Seen(w) = rows /\ rows.lots[1].status \in Undecided
      BY DEF DecideInspection, Changes, At
    <3>2. PICK decision \in Decisions, asked \in BOOLEAN :
            /\ Decidable(Seen(w), 1, decision)
            /\ Commit(w, [rows EXCEPT
                 !.lots[1].status = "DECIDED", !.lots[1].decision = decision,
                 !.holds[1].status = IF decision # "ACCEPT" THEN "ACTIVE" ELSE @,
                 !.ncrs[1].status = IF asked \/ decision \in {"REJECT", "SCRAP", "RETURN_TO_SUPPLIER"}
                                    THEN "OPEN" ELSE @])
      BY Zenon DEF DecideInspection
    <3> QED
      BY <3>1, <3>2 DEF Commit
  <2>2. /\ DOMAIN rows = {"domain", "mandatory", "lots", "results", "holds", "ncrs"}
        /\ DOMAIN rows.lots = {1} /\ DOMAIN rows.holds = {1, 2} /\ DOMAIN rows.ncrs = {1}
        /\ DOMAIN rows.lots[1] = {"status", "sample", "decision", "inspected", "passed", "failed"}
        /\ DOMAIN rows.holds[1] = {"status"} /\ DOMAIN rows.ncrs[1] = {"status"}
    BY  DEF QualityOk, QualityShape
  <2>3. /\ DOMAIN rows' = DOMAIN rows /\ DOMAIN rows'.lots = {1}
        /\ DOMAIN rows'.holds = {1, 2} /\ DOMAIN rows'.ncrs = {1}
        /\ DOMAIN rows'.lots[1] = DOMAIN rows.lots[1]
        /\ DOMAIN rows'.holds[1] = {"status"} /\ DOMAIN rows'.ncrs[1] = {"status"}
        /\ rows'.holds[2] = rows.holds[2]
        /\ rows'.results = rows.results /\ rows'.mandatory = rows.mandatory
        /\ rows'.lots[1].status = "DECIDED" /\ rows'.lots[1].decision = decision
        /\ rows'.lots[1].sample = rows.lots[1].sample
        /\ rows'.lots[1].failed = rows.lots[1].failed
        /\ rows'.lots[1].inspected = rows.lots[1].inspected
        /\ rows'.lots[1].passed = rows.lots[1].passed
        /\ decision # "ACCEPT" => rows'.holds[1].status = "ACTIVE"
        /\ decision = "ACCEPT" => rows'.holds[1].status = rows.holds[1].status
        /\ decision \in {"REJECT", "SCRAP", "RETURN_TO_SUPPLIER"} => rows'.ncrs[1].status = "OPEN"
    BY <2>1, <2>2
  <2>4. QualityShape(rows')
    BY <2>3 DEF QualityOk, QualityShape
  <2>5. CountsOk(rows')
    BY <2>3 DEF QualityOk, QualityShape, CountsOk
  <2>6. DecisionOk(rows')
    <3>1. Decidable(rows', 1, decision)
      BY <2>1, <2>3 DEF Decidable, MissingMandatory
    <3>2. rows.lots[1].status # "DECIDED" /\ decision # "-"
      BY <2>1 DEF Undecided, Decisions
    <3> QED
      BY <2>3, <3>1, <3>2 DEF QualityOk, DecisionOk, Decidable
  <2> QED
    BY <2>4, <2>5, <2>6 DEF QualityOk
<1>5. CASE \E h \in {1, 2} : CreateHold(w, h)
  <2>1. rows' = [rows EXCEPT !.holds[2].status = "ACTIVE"]
    BY <1>5 DEF CreateHold, Creates, Commit
  <2>2. QualityShape(rows')
    BY <2>1 DEF QualityOk, QualityShape
  <2>3. CountsOk(rows')
    BY <2>1 DEF QualityOk, QualityShape, CountsOk
  <2>4. DecisionOk(rows')
    BY <2>1 DEF QualityOk, QualityShape, DecisionOk, MissingMandatory
  <2> QED
    BY <2>2, <2>3, <2>4 DEF QualityOk
<1>6. CASE \E h \in {1, 2} : ReleaseHold(w, h)
  <2>1. PICK h \in {1, 2}, to \in {"ACTIVE", "RELEASED", "DISPOSITIONED", "CANCELLED"} :
          rows.holds[h].status = "ACTIVE" /\ rows' = [rows EXCEPT !.holds[h].status = to]
    BY <1>6 DEF ReleaseHold, SetStatus, At, Changes, Commit
  <2>2. QualityShape(rows')
    BY <2>1 DEF QualityOk, QualityShape
  <2>3. CountsOk(rows')
    BY <2>1 DEF QualityOk, QualityShape, CountsOk
  <2>4. DecisionOk(rows')
    BY <2>1 DEF QualityOk, QualityShape, DecisionOk, MissingMandatory
  <2> QED
    BY <2>2, <2>3, <2>4 DEF QualityOk
<1> QED
  BY <1>2, <1>3, <1>4, <1>5, <1>6 DEF QualityNext, QualityOk, QualityShape

\* QualityOk implies the property of the inspections.
LEMMA DecisionsAreFoundedThen ==
  ASSUME rows.domain = "quality" => QualityOk(rows)
  PROVE  DecisionsAreFounded
<1>1. Cardinality({}) = 0
  BY FS_EmptySet, Zenon
<1> QED
  BY <1>1 DEF DecisionsAreFounded, QualityOk, QualityShape, CountsOk, DecisionOk

-----------------------------------------------------------------------------
(* service: intake requests, tickets, diagnoses and estimates. *)

\* The tables of the domain.
TicketsShape(db) ==
  /\ DOMAIN db = {"domain", "intakes", "tickets", "diagnoses", "estimates"}
  /\ DOMAIN db.intakes = {1} /\ DOMAIN db.intakes[1] = {"status"}
  /\ DOMAIN db.tickets = {1, 2} /\ DOMAIN db.diagnoses = {1, 2} /\ DOMAIN db.estimates = {1, 2}
  /\ \A t \in {1, 2} : /\ DOMAIN db.tickets[t] = {"status", "assigned", "intake"}
                        /\ DOMAIN db.diagnoses[t] = {"status"}
                        /\ DOMAIN db.estimates[t] = {"status"}

\* The request and the ticket made of it.
IntakeOk(db) ==
  /\ db.intakes[1].status # "CONVERTED_TO_TICKET" =>
       db.tickets[1].intake = FALSE /\ db.tickets[2].intake = FALSE
  /\ db.intakes[1].status = "CONVERTED_TO_TICKET" =>
       \/ db.tickets[1].intake = TRUE /\ db.tickets[2].intake = FALSE
       \/ db.tickets[1].intake = FALSE /\ db.tickets[2].intake = TRUE
  /\ \A t \in {1, 2} : db.tickets[t].status = "NONE" => db.tickets[t].intake = FALSE

\* Work that is approved was estimated or covered.
ApprovedOk(db) ==
  \A t \in {1, 2} :
    db.tickets[t].status = "APPROVED" =>
      db.estimates[t].status = "APPROVED" \/ db.diagnoses[t].status = "COVERED"

\* Service tickets.
TicketsOk(db) == TicketsShape(db) /\ IntakeOk(db) /\ ApprovedOk(db)

\* Every handler of an intake request preserves TicketsOk,
LEMMA IntakeStep ==
  ASSUME TicketsOk(rows), NEW w \in Workers, requests[w].pc = "read" => Seen(w) = rows,
         NEW i \in {1},
         \/ CreateIntake(w, i)
         \/ CancelIntake(w, i)
         \/ \E t \in {1, 2} : TriageIntake(w, i, t)
  PROVE  TicketsOk(rows')
<1>2. CASE CreateIntake(w, i)
  <2>1. /\ rows.intakes[i].status = "NONE"
        /\ rows' = [rows EXCEPT !.intakes[i].status = "SUBMITTED"]
    BY <1>2 DEF CreateIntake, Creates, Commit
  <2>2. TicketsShape(rows')
    BY <2>1 DEF TicketsOk, TicketsShape
  <2>3. IntakeOk(rows')
    BY <2>1 DEF TicketsOk, TicketsShape, IntakeOk
  <2>4. ApprovedOk(rows')
    BY <2>1 DEF TicketsOk, TicketsShape, ApprovedOk
  <2> QED
    BY <2>2, <2>3, <2>4 DEF TicketsOk
<1>3. CASE CancelIntake(w, i)
  <2>1. /\ rows.intakes[i].status \in {"SUBMITTED", "DRAFT", "REJECTED"}
        /\ rows' = [rows EXCEPT !.intakes[i].status = "CANCELLED"]
    BY <1>3 DEF CancelIntake, SetStatus, At, Changes, Commit
  <2>2. TicketsShape(rows')
    BY <2>1 DEF TicketsOk, TicketsShape
  <2>3. IntakeOk(rows')
    BY <2>1 DEF TicketsOk, TicketsShape, IntakeOk
  <2>4. ApprovedOk(rows')
    BY <2>1 DEF TicketsOk, TicketsShape, ApprovedOk
  <2> QED
    BY <2>2, <2>3, <2>4 DEF TicketsOk
<1>4. CASE \E t \in {1, 2} : TriageIntake(w, i, t)
  <2>1. PICK t \in {1, 2}, to \in {"TRIAGED", "ASSIGNED"}, assigned \in BOOLEAN :
          /\ rows.intakes[i].status \in Triageable
          /\ rows.tickets[t].status = "NONE"
          /\ rows' = [rows EXCEPT
                       !.tickets[t] = [status |-> to, assigned |-> assigned, intake |-> TRUE],
                       !.intakes[i].status = "CONVERTED_TO_TICKET"]
    <3>1. PICK t \in {1, 2} : TriageIntake(w, i, t)
      BY <1>4
    <3>2. /\ rows.intakes[i].status \in Triageable
          /\ rows.tickets[t].status = "NONE"
      BY <3>1 DEF TriageIntake, At, Changes
    <3>3. PICK assigned \in BOOLEAN :
            Commit(w, [NewTicket(t, "TRIAGED", assigned, TRUE) EXCEPT
                         !.intakes[i].status = "CONVERTED_TO_TICKET"])
      BY <3>1, Zenon DEF TriageIntake
    <3>4. \E to \in {"TRIAGED", "ASSIGNED"} :
            NewTicket(t, "TRIAGED", assigned, TRUE) =
              [rows EXCEPT !.tickets[t] = [status |-> to, assigned |-> assigned, intake |-> TRUE]]
      BY DEF NewTicket
    <3> QED
      BY <3>2, <3>3, <3>4 DEF Commit
  <2>2. TicketsShape(rows')
    BY <2>1 DEF TicketsOk, TicketsShape
  <2>3. IntakeOk(rows')
    BY <2>1 DEF TicketsOk, TicketsShape, IntakeOk, Triageable
  <2>4. ApprovedOk(rows')
    BY <2>1 DEF TicketsOk, TicketsShape, ApprovedOk
  <2> QED
    BY <2>2, <2>3, <2>4 DEF TicketsOk
<1> QED
  BY <1>2, <1>3, <1>4

\* and so does every handler of a ticket.
LEMMA TicketStep ==
  ASSUME TicketsOk(rows), NEW w \in Workers, requests[w].pc = "read" => Seen(w) = rows,
         NEW t \in {1, 2},
         \/ CreateTicket(w, t)
         \/ AssignTicket(w, t)
         \/ StartDiagnosis(w, t)
         \/ HoldTicket(w, t)
         \/ ResumeTicket(w, t)
         \/ RecordDiagnosis(w, t)
         \/ FinalizeDiagnosis(w, t)
         \/ CreateEstimate(w, t)
         \/ SendEstimate(w, t)
         \/ ApproveEstimate(w, t)
         \/ RejectEstimate(w, t)
  PROVE  TicketsOk(rows')
<1>2. CASE CreateTicket(w, t)
  <2>1. PICK to \in {"OPEN", "ASSIGNED"}, assigned \in BOOLEAN :
          /\ rows.tickets[t].status = "NONE"
          /\ rows' = [rows EXCEPT
                       !.tickets[t] = [status |-> to, assigned |-> assigned, intake |-> FALSE]]
    BY <1>2 DEF CreateTicket, Creates, Commit, NewTicket
  <2>2. TicketsShape(rows')
    BY <2>1 DEF TicketsOk, TicketsShape
  <2>3. IntakeOk(rows')
    BY <2>1 DEF TicketsOk, TicketsShape, IntakeOk
  <2>4. ApprovedOk(rows')
    BY <2>1 DEF TicketsOk, TicketsShape, ApprovedOk
  <2> QED
    BY <2>2, <2>3, <2>4 DEF TicketsOk
<1>3. CASE AssignTicket(w, t)
  <2>1. PICK to :
          /\ to = "APPROVED" => rows.tickets[t].status = "APPROVED"
          /\ to # "NONE"
          /\ rows' = [rows EXCEPT !.tickets[t].assigned = TRUE, !.tickets[t].status = to]
    BY <1>3 DEF AssignTicket, TicketStatuses, At, Changes, Commit
  <2>2. TicketsShape(rows')
    BY <2>1 DEF TicketsOk, TicketsShape
  <2>3. IntakeOk(rows')
    BY <2>1 DEF TicketsOk, TicketsShape, IntakeOk
  <2>4. ApprovedOk(rows')
    BY <2>1 DEF TicketsOk, TicketsShape, ApprovedOk
  <2> QED
    BY <2>2, <2>3, <2>4 DEF TicketsOk
<1>4. CASE StartDiagnosis(w, t)
  <2>1. rows' = [rows EXCEPT !.tickets[t].status = "IN_DIAGNOSIS"]
    BY <1>4 DEF StartDiagnosis, SetStatus, At, Changes, Commit
  <2>2. TicketsShape(rows')
    BY <2>1 DEF TicketsOk, TicketsShape
  <2>3. IntakeOk(rows')
    BY <2>1 DEF TicketsOk, TicketsShape, IntakeOk
  <2>4. ApprovedOk(rows')
    BY <2>1 DEF TicketsOk, TicketsShape, ApprovedOk
  <2> QED
    BY <2>2, <2>3, <2>4 DEF TicketsOk
<1>5. CASE HoldTicket(w, t)
  <2>1. rows' = [rows EXCEPT !.tickets[t].status = "ON_HOLD"]
    BY <1>5 DEF HoldTicket, SetStatus, At, Changes, Commit
  <2>2. TicketsShape(rows')
    BY <2>1 DEF TicketsOk, TicketsShape
  <2>3. IntakeOk(rows')
    BY <2>1 DEF TicketsOk, TicketsShape, IntakeOk
  <2>4. ApprovedOk(rows')
    BY <2>1 DEF TicketsOk, TicketsShape, ApprovedOk
  <2> QED
    BY <2>2, <2>3, <2>4 DEF TicketsOk
<1>6. CASE ResumeTicket(w, t)
  <2>1. PICK to \in {"ASSIGNED", "OPEN"} :
          rows' = [rows EXCEPT !.tickets[t].status = to]
    BY <1>6 DEF ResumeTicket, SetStatus, At, Changes, Commit
  <2>2. TicketsShape(rows')
    BY <2>1 DEF TicketsOk, TicketsShape
  <2>3. IntakeOk(rows')
    BY <2>1 DEF TicketsOk, TicketsShape, IntakeOk
  <2>4. ApprovedOk(rows')
    BY <2>1 DEF TicketsOk, TicketsShape, ApprovedOk
  <2> QED
    BY <2>2, <2>3, <2>4 DEF TicketsOk
<1>7. CASE RecordDiagnosis(w, t)
  <2>1. PICK to, diagnosis :
          /\ to = "APPROVED" => diagnosis = "COVERED"
          /\ rows.diagnoses[t].status = "COVERED" => diagnosis = "COVERED"
          /\ to # "NONE"
          /\ rows' = [rows EXCEPT !.diagnoses[t].status = diagnosis, !.tickets[t].status = to]
    BY <1>7 DEF RecordDiagnosis, At, Changes, Commit
  <2>2. TicketsShape(rows')
    BY <2>1 DEF TicketsOk, TicketsShape
  <2>3. IntakeOk(rows')
    BY <2>1 DEF TicketsOk, TicketsShape, IntakeOk
  <2>4. ApprovedOk(rows')
    BY <2>1 DEF TicketsOk, TicketsShape, ApprovedOk
  <2> QED
    BY <2>2, <2>3, <2>4 DEF TicketsOk
<1>8. CASE FinalizeDiagnosis(w, t)
  <2>1. /\ rows.diagnoses[t].status \in {"DRAFT"}
        /\ rows' = [rows EXCEPT !.diagnoses[t].status = "FINAL"]
    BY <1>8 DEF FinalizeDiagnosis, SetStatus, At, Changes, Commit
  <2>2. TicketsShape(rows')
    BY <2>1 DEF TicketsOk, TicketsShape
  <2>3. IntakeOk(rows')
    BY <2>1 DEF TicketsOk, TicketsShape, IntakeOk
  <2>4. ApprovedOk(rows')
    BY <2>1 DEF TicketsOk, TicketsShape, ApprovedOk
  <2> QED
    BY <2>2, <2>3, <2>4 DEF TicketsOk
<1>9. CASE CreateEstimate(w, t)
  <2>1. /\ rows.estimates[t].status = "NONE"
        /\ rows' = [rows EXCEPT !.estimates[t].status = "DRAFT"]
    BY <1>9 DEF CreateEstimate, Creates, Commit
  <2>2. TicketsShape(rows')
    BY <2>1 DEF TicketsOk, TicketsShape
  <2>3. IntakeOk(rows')
    BY <2>1 DEF TicketsOk, TicketsShape, IntakeOk
  <2>4. ApprovedOk(rows')
    BY <2>1 DEF TicketsOk, TicketsShape, ApprovedOk
  <2> QED
    BY <2>2, <2>3, <2>4 DEF TicketsOk
<1>10. CASE SendEstimate(w, t)
  <2>1. /\ rows.estimates[t].status \in {"DRAFT"}
        /\ rows' = [rows EXCEPT !.estimates[t].status = "SENT"]
    BY <1>10 DEF SendEstimate, SetStatus, At, Changes, Commit
  <2>2. TicketsShape(rows')
    BY <2>1 DEF TicketsOk, TicketsShape
  <2>3. IntakeOk(rows')
    BY <2>1 DEF TicketsOk, TicketsShape, IntakeOk
  <2>4. ApprovedOk(rows')
    BY <2>1 DEF TicketsOk, TicketsShape, ApprovedOk
  <2> QED
    BY <2>2, <2>3, <2>4 DEF TicketsOk
<1>11. CASE ApproveEstimate(w, t)
  <2>1. rows' = [rows EXCEPT !.estimates[t].status = "APPROVED", !.tickets[t].status = "APPROVED"]
    BY <1>11 DEF ApproveEstimate, At, Changes, Commit
  <2>2. TicketsShape(rows')
    BY <2>1 DEF TicketsOk, TicketsShape
  <2>3. IntakeOk(rows')
    BY <2>1 DEF TicketsOk, TicketsShape, IntakeOk
  <2>4. ApprovedOk(rows')
    BY <2>1 DEF TicketsOk, TicketsShape, ApprovedOk
  <2> QED
    BY <2>2, <2>3, <2>4 DEF TicketsOk
<1>12. CASE RejectEstimate(w, t)
  <2>1. /\ rows.estimates[t].status \in {"DRAFT", "SENT"}
        /\ rows' = [rows EXCEPT !.estimates[t].status = "REJECTED"]
    BY <1>12 DEF RejectEstimate, SetStatus, At, Changes, Commit
  <2>2. TicketsShape(rows')
    BY <2>1 DEF TicketsOk, TicketsShape
  <2>3. IntakeOk(rows')
    BY <2>1 DEF TicketsOk, TicketsShape, IntakeOk
  <2>4. ApprovedOk(rows')
    BY <2>1 DEF TicketsOk, TicketsShape, ApprovedOk
  <2> QED
    BY <2>2, <2>3, <2>4 DEF TicketsOk
<1> QED
  BY <1>2, <1>3, <1>4, <1>5, <1>6, <1>7, <1>8, <1>9, <1>10, <1>11, <1>12

\* Together.
LEMMA TicketsStep ==
  ASSUME TicketsOk(rows), NEW w \in Workers, requests[w].pc = "read" => Seen(w) = rows, TicketsNext(w)
  PROVE  TicketsOk(rows')
<1>1. DOMAIN rows.intakes = {1} /\ DOMAIN rows.tickets = {1, 2}
  BY DEF TicketsOk, TicketsShape
<1> QED
  BY <1>1, IntakeStep, TicketStep DEF TicketsNext

\* TicketsOk implies the property of the tickets.
LEMMA TicketsHaveOriginsThen ==
  ASSUME rows.domain = "tickets" => TicketsOk(rows)
  PROVE  TicketsHaveOrigins
<1> SUFFICES ASSUME rows.domain = "tickets" PROVE TicketsHaveOrigins
  BY DEF TicketsHaveOrigins
<1> DEFINE made == {t \in DOMAIN rows.tickets : rows.tickets[t].intake}
           converted == {i \in DOMAIN rows.intakes : rows.intakes[i].status = "CONVERTED_TO_TICKET"}
<1>1. /\ DOMAIN rows.tickets = {1, 2} /\ DOMAIN rows.intakes = {1}
      /\ ApprovedOk(rows)
  BY DEF TicketsOk, TicketsShape
<1>2. CASE rows.intakes[1].status # "CONVERTED_TO_TICKET"
  <2>1. made = {} /\ converted = {}
    BY <1>1, <1>2 DEF TicketsOk, IntakeOk
  <2> HIDE DEF made, converted
  <2>2. Cardinality(made) = Cardinality(converted)
    BY <2>1
  <2> QED
    BY <1>1, <2>2 DEF TicketsHaveOrigins, ApprovedOk, made, converted
<1>3. CASE rows.intakes[1].status = "CONVERTED_TO_TICKET"
  <2>1. PICK t \in {1, 2} : made = {t}
    BY <1>1, <1>3 DEF TicketsOk, IntakeOk
  <2>2. converted = {1}
    BY <1>1, <1>3
  <2> HIDE DEF made, converted
  <2>3. Cardinality({t}) = 1 /\ Cardinality({1}) = 1
    BY FS_Singleton, Zenon
  <2>4. Cardinality(made) = Cardinality(converted)
    BY <2>1, <2>2, <2>3
  <2> QED
    BY <1>1, <2>4 DEF TicketsHaveOrigins, ApprovedOk, made, converted
<1> QED
  BY <1>2, <1>3

-----------------------------------------------------------------------------
(* service: repair orders, their parts and labor. *)

\* The tables of the domain.
RepairsShape(db) ==
  /\ DOMAIN db = {"domain", "inspectionRequired", "repairs", "parts", "labor"}
  /\ DOMAIN db.repairs = {1} /\ DOMAIN db.parts = {"covered", "payable"}
  /\ DOMAIN db.repairs[1] = {"status", "lot", "partsCost", "laborCost", "charge", "invoiced",
                             "fromRma"}
  /\ \A p \in {"covered", "payable"} :
       DOMAIN db.parts[p] = {"required", "reserved", "issued", "returned"}
  /\ DOMAIN db.labor = {"status", "hours"}

\* A part is issued within what is required and returned within what is issued.
PartsOk(db) ==
  \A p \in {"covered", "payable"} :
    /\ db.parts[p].required \in Nat /\ db.parts[p].reserved \in Nat
    /\ db.parts[p].issued \in Nat /\ db.parts[p].returned \in Nat
    /\ db.parts[p].returned <= db.parts[p].issued /\ db.parts[p].issued <= db.parts[p].required
    /\ db.parts[p].reserved <= db.parts[p].required

\* The stored costs are those of the parts that are out and of the labor.
CostsOk(db) ==
  /\ db.labor.hours \in Int /\ db.repairs[1].laborCost \in Int
  /\ db.repairs[1].partsCost = NetIssued(db, "covered") + NetIssued(db, "payable")
  /\ db.repairs[1].charge = NetIssued(db, "payable") + db.repairs[1].laborCost

\* Repair orders.
RepairsOk(db) == RepairsShape(db) /\ PartsOk(db) /\ CostsOk(db)

\* Every handler of the order preserves RepairsOk,
LEMMA OrderStep ==
  ASSUME RepairsOk(rows), NEW w \in Workers, requests[w].pc = "read" => Seen(w) = rows,
         \/ CreateRepair(w, 1)
         \/ CreateRepairFromRma(w, 1)
         \/ ReleaseRepair(w, 1)
         \/ StartRepair(w, 1)
         \/ RequestQualityCheck(w, 1)
         \/ DecideLot(w, 1)
         \/ CompleteRepair(w, 1)
         \/ FinishRepair(w, 1)
         \/ ProcessHandover(w, 1)
         \/ CloseRepair(w, 1)
         \/ CancelRepair(w, 1)
  PROVE  RepairsOk(rows')
<1>2. CASE CreateRepair(w, 1)
  <2>1. rows' = [rows EXCEPT !.repairs[1].status = "DRAFT"]
    BY <1>2 DEF CreateRepair, Creates, Commit
  <2>2. RepairsShape(rows')
    BY <2>1 DEF RepairsOk, RepairsShape
  <2>3. PartsOk(rows')
    BY <2>1 DEF RepairsOk, RepairsShape, PartsOk
  <2>4. CostsOk(rows')
    BY <2>1 DEF RepairsOk, RepairsShape, PartsOk, CostsOk, NetIssued
  <2> QED
    BY <2>2, <2>3, <2>4 DEF RepairsOk
<1>3. CASE CreateRepairFromRma(w, 1)
  <2>1. rows' = [rows EXCEPT !.repairs[1].status = "RELEASED", !.repairs[1].fromRma = TRUE]
    BY <1>3 DEF CreateRepairFromRma, Creates, Commit
  <2>2. RepairsShape(rows')
    BY <2>1 DEF RepairsOk, RepairsShape
  <2>3. PartsOk(rows')
    BY <2>1 DEF RepairsOk, RepairsShape, PartsOk
  <2>4. CostsOk(rows')
    BY <2>1 DEF RepairsOk, RepairsShape, PartsOk, CostsOk, NetIssued
  <2> QED
    BY <2>2, <2>3, <2>4 DEF RepairsOk
<1>4. CASE ReleaseRepair(w, 1)
  <2>1. rows' = [rows EXCEPT !.repairs[1].status = "RELEASED"]
    BY <1>4 DEF ReleaseRepair, SetStatus, At, Changes, Commit
  <2>2. RepairsShape(rows')
    BY <2>1 DEF RepairsOk, RepairsShape
  <2>3. PartsOk(rows')
    BY <2>1 DEF RepairsOk, RepairsShape, PartsOk
  <2>4. CostsOk(rows')
    BY <2>1 DEF RepairsOk, RepairsShape, PartsOk, CostsOk, NetIssued
  <2> QED
    BY <2>2, <2>3, <2>4 DEF RepairsOk
<1>5. CASE StartRepair(w, 1)
  <2>1. rows' = [rows EXCEPT !.repairs[1].status = "IN_PROGRESS"]
    BY <1>5 DEF StartRepair, SetStatus, At, Changes, Commit
  <2>2. RepairsShape(rows')
    BY <2>1 DEF RepairsOk, RepairsShape
  <2>3. PartsOk(rows')
    BY <2>1 DEF RepairsOk, RepairsShape, PartsOk
  <2>4. CostsOk(rows')
    BY <2>1 DEF RepairsOk, RepairsShape, PartsOk, CostsOk, NetIssued
  <2> QED
    BY <2>2, <2>3, <2>4 DEF RepairsOk
<1>6. CASE RequestQualityCheck(w, 1)
  <2>1. rows' = [rows EXCEPT !.repairs[1].lot = "PENDING",
                                !.repairs[1].status = "QUALITY_CHECK"]
    BY <1>6 DEF RequestQualityCheck, At, Changes, Commit
  <2>2. RepairsShape(rows')
    BY <2>1 DEF RepairsOk, RepairsShape
  <2>3. PartsOk(rows')
    BY <2>1 DEF RepairsOk, RepairsShape, PartsOk
  <2>4. CostsOk(rows')
    BY <2>1 DEF RepairsOk, RepairsShape, PartsOk, CostsOk, NetIssued
  <2> QED
    BY <2>2, <2>3, <2>4 DEF RepairsOk
<1>7. CASE DecideLot(w, 1)
  <2>1. PICK decision \in {"ACCEPT", "REJECT"} :
          rows' = [rows EXCEPT !.repairs[1].lot = decision]
    BY <1>7 DEF DecideLot, At, Changes, Commit
  <2>2. RepairsShape(rows')
    BY <2>1 DEF RepairsOk, RepairsShape
  <2>3. PartsOk(rows')
    BY <2>1 DEF RepairsOk, RepairsShape, PartsOk
  <2>4. CostsOk(rows')
    BY <2>1 DEF RepairsOk, RepairsShape, PartsOk, CostsOk, NetIssued
  <2> QED
    BY <2>2, <2>3, <2>4 DEF RepairsOk
<1>8. CASE CompleteRepair(w, 1)
  <2>1. rows' = [rows EXCEPT !.repairs[1] = Recalculated(rows, 1)]
    BY <1>8 DEF CompleteRepair, Continue, At, Changes, Commit
  <2>2. RepairsShape(rows')
    BY <2>1 DEF RepairsOk, RepairsShape, Recalculated
  <2>3. PartsOk(rows')
    BY <2>1 DEF RepairsOk, RepairsShape, PartsOk
  <2>4. CostsOk(rows')
    <3>1. /\ Recalculated(rows, 1).partsCost = NetIssued(rows, "covered") + NetIssued(rows, "payable")
          /\ Recalculated(rows, 1).laborCost = rows.labor.hours
          /\ Recalculated(rows, 1).charge = NetIssued(rows, "payable") + rows.labor.hours
          /\ DOMAIN Recalculated(rows, 1) = DOMAIN rows.repairs[1]
      BY DEF Recalculated, RepairsOk, RepairsShape
    <3>2. /\ rows'.parts = rows.parts /\ rows'.labor = rows.labor
          /\ rows'.repairs[1] = Recalculated(rows, 1)
      BY <2>1 DEF RepairsOk, RepairsShape
    <3> QED
      BY <3>1, <3>2 DEF RepairsOk, RepairsShape, CostsOk, NetIssued
  <2> QED
    BY <2>2, <2>3, <2>4 DEF RepairsOk
<1>9. CASE FinishRepair(w, 1)
  <2>1. rows' = [rows EXCEPT !.repairs[1].status = "COMPLETED"]
    BY <1>9 DEF FinishRepair, Commit
  <2>2. RepairsShape(rows')
    BY <2>1 DEF RepairsOk, RepairsShape
  <2>3. PartsOk(rows')
    BY <2>1 DEF RepairsOk, RepairsShape, PartsOk
  <2>4. CostsOk(rows')
    BY <2>1 DEF RepairsOk, RepairsShape, PartsOk, CostsOk, NetIssued
  <2> QED
    BY <2>2, <2>3, <2>4 DEF RepairsOk
<1>10. CASE ProcessHandover(w, 1)
  <2>1. rows' = [rows EXCEPT !.repairs[1].status = "HANDED_OVER"]
    BY <1>10 DEF ProcessHandover, SetStatus, At, Changes, Commit
  <2>2. RepairsShape(rows')
    BY <2>1 DEF RepairsOk, RepairsShape
  <2>3. PartsOk(rows')
    BY <2>1 DEF RepairsOk, RepairsShape, PartsOk
  <2>4. CostsOk(rows')
    BY <2>1 DEF RepairsOk, RepairsShape, PartsOk, CostsOk, NetIssued
  <2> QED
    BY <2>2, <2>3, <2>4 DEF RepairsOk
<1>11. CASE CloseRepair(w, 1)
  <2>1. rows' = [rows EXCEPT !.repairs[1].status = "CLOSED"]
    BY <1>11 DEF CloseRepair, SetStatus, At, Changes, Commit
  <2>2. RepairsShape(rows')
    BY <2>1 DEF RepairsOk, RepairsShape
  <2>3. PartsOk(rows')
    BY <2>1 DEF RepairsOk, RepairsShape, PartsOk
  <2>4. CostsOk(rows')
    BY <2>1 DEF RepairsOk, RepairsShape, PartsOk, CostsOk, NetIssued
  <2> QED
    BY <2>2, <2>3, <2>4 DEF RepairsOk
<1>12. CASE CancelRepair(w, 1)
  <2>1. rows' = [rows EXCEPT !.repairs[1].status = "CANCELLED"]
    BY <1>12 DEF CancelRepair, SetStatus, At, Changes, Commit
  <2>2. RepairsShape(rows')
    BY <2>1 DEF RepairsOk, RepairsShape
  <2>3. PartsOk(rows')
    BY <2>1 DEF RepairsOk, RepairsShape, PartsOk
  <2>4. CostsOk(rows')
    BY <2>1 DEF RepairsOk, RepairsShape, PartsOk, CostsOk, NetIssued
  <2> QED
    BY <2>2, <2>3, <2>4 DEF RepairsOk
<1> QED
  BY <1>2, <1>3, <1>4, <1>5, <1>6, <1>7, <1>8, <1>9, <1>10, <1>11, <1>12

\* every handler of its parts,
LEMMA PartsStep ==
  ASSUME RepairsOk(rows), NEW w \in Workers, requests[w].pc = "read" => Seen(w) = rows,
         NEW p \in {"covered", "payable"},
         \/ AddPart(w, 1, p)
         \/ ReserveParts(w, 1, p)
         \/ IssueParts(w, 1, p)
         \/ ReturnParts(w, 1, p)
  PROVE  RepairsOk(rows')
<1>2. CASE AddPart(w, 1, p)
  <2>1. PICK n \in 1..(MaxAmount - rows.parts["covered"].required - rows.parts["payable"].required) :
          /\ rows.parts[p].required = 0
          /\ rows' = [rows EXCEPT !.parts[p].required = n]
    BY <1>2 DEF AddPart, At, Changes, Commit
  <2>2. RepairsShape(rows')
    BY <2>1 DEF RepairsOk, RepairsShape
  <2>3. PartsOk(rows')
    BY <2>1 DEF RepairsOk, RepairsShape, PartsOk
  <2>4. CostsOk(rows')
    BY <2>1 DEF RepairsOk, RepairsShape, PartsOk, CostsOk, NetIssued
  <2> QED
    BY <2>2, <2>3, <2>4 DEF RepairsOk
<1>3. CASE ReserveParts(w, 1, p)
  <2>1. PICK n \in 1..(rows.parts[p].required - rows.parts[p].reserved) :
          rows' = [rows EXCEPT !.parts[p].reserved = rows.parts[p].reserved + n]
    BY <1>3 DEF ReserveParts, At, Changes, Commit
  <2>2. RepairsShape(rows')
    BY <2>1 DEF RepairsOk, RepairsShape
  <2>3. PartsOk(rows')
    BY <2>1 DEF RepairsOk, RepairsShape, PartsOk
  <2>4. CostsOk(rows')
    BY <2>1 DEF RepairsOk, RepairsShape, PartsOk, CostsOk, NetIssued
  <2> QED
    BY <2>2, <2>3, <2>4 DEF RepairsOk
<1>4. CASE IssueParts(w, 1, p)
  <2>1. PICK n \in 1..(rows.parts[p].required - rows.parts[p].issued) :
          rows' = [rows EXCEPT
                    !.parts[p].issued = rows.parts[p].issued + n,
                    !.repairs[1].partsCost = rows.repairs[1].partsCost + n,
                    !.repairs[1].charge = rows.repairs[1].charge + IF p = "payable" THEN n ELSE 0,
                    !.repairs[1].status = AfterStart(rows.repairs[1].status)]
    BY <1>4 DEF IssueParts, At, Changes, Commit
  <2>2. /\ DOMAIN rows = {"domain", "inspectionRequired", "repairs", "parts", "labor"}
        /\ DOMAIN rows.repairs = {1} /\ DOMAIN rows.parts = {"covered", "payable"}
        /\ DOMAIN rows.repairs[1] = {"status", "lot", "partsCost", "laborCost", "charge", "invoiced",
                                     "fromRma"}
        /\ DOMAIN rows.parts[p] = {"required", "reserved", "issued", "returned"}
    BY  DEF RepairsOk, RepairsShape
  <2>3. /\ DOMAIN rows' = DOMAIN rows /\ DOMAIN rows'.parts = DOMAIN rows.parts
        /\ DOMAIN rows'.repairs = {1} /\ DOMAIN rows'.repairs[1] = DOMAIN rows.repairs[1]
        /\ DOMAIN rows'.parts[p] = DOMAIN rows.parts[p]
        /\ rows'.parts[p].issued = rows.parts[p].issued + n
        /\ n \in 1..(rows.parts[p].required - rows.parts[p].issued)
        /\ rows'.parts[p].required = rows.parts[p].required
        /\ rows'.parts[p].reserved = rows.parts[p].reserved
        /\ rows'.parts[p].returned = rows.parts[p].returned
        /\ \A q \in {"covered", "payable"} \ {p} : rows'.parts[q] = rows.parts[q]
        /\ rows'.labor = rows.labor
        /\ rows'.repairs[1].partsCost = rows.repairs[1].partsCost + n
        /\ rows'.repairs[1].laborCost = rows.repairs[1].laborCost
        /\ rows'.repairs[1].charge = rows.repairs[1].charge + IF p = "payable" THEN n ELSE 0
    BY <2>1, <2>2
  <2>4. RepairsShape(rows')
    BY <2>3 DEF RepairsOk, RepairsShape
  <2>5. PartsOk(rows')
    BY <2>3 DEF RepairsOk, RepairsShape, PartsOk
  <2>6. CostsOk(rows')
    BY <2>3 DEF RepairsOk, RepairsShape, PartsOk, CostsOk, NetIssued
  <2> QED
    BY <2>4, <2>5, <2>6 DEF RepairsOk
<1>5. CASE ReturnParts(w, 1, p)
  <2>1. PICK n \in 1..(rows.parts[p].issued - rows.parts[p].returned) :
          rows' = [rows EXCEPT
                    !.parts[p].returned = rows.parts[p].returned + n,
                    !.repairs[1].partsCost = rows.repairs[1].partsCost - n,
                    !.repairs[1].charge = rows.repairs[1].charge - IF p = "payable" THEN n ELSE 0]
    BY <1>5 DEF ReturnParts, At, Changes, Commit
  <2>2. /\ DOMAIN rows = {"domain", "inspectionRequired", "repairs", "parts", "labor"}
        /\ DOMAIN rows.repairs = {1} /\ DOMAIN rows.parts = {"covered", "payable"}
        /\ DOMAIN rows.repairs[1] = {"status", "lot", "partsCost", "laborCost", "charge", "invoiced",
                                     "fromRma"}
        /\ DOMAIN rows.parts[p] = {"required", "reserved", "issued", "returned"}
    BY  DEF RepairsOk, RepairsShape
  <2>3. /\ DOMAIN rows' = DOMAIN rows /\ DOMAIN rows'.parts = DOMAIN rows.parts
        /\ DOMAIN rows'.repairs = {1} /\ DOMAIN rows'.repairs[1] = DOMAIN rows.repairs[1]
        /\ DOMAIN rows'.parts[p] = DOMAIN rows.parts[p]
        /\ rows'.parts[p].returned = rows.parts[p].returned + n
        /\ n \in 1..(rows.parts[p].issued - rows.parts[p].returned)
        /\ rows'.parts[p].required = rows.parts[p].required
        /\ rows'.parts[p].reserved = rows.parts[p].reserved
        /\ rows'.parts[p].issued = rows.parts[p].issued
        /\ \A q \in {"covered", "payable"} \ {p} : rows'.parts[q] = rows.parts[q]
        /\ rows'.labor = rows.labor
        /\ rows'.repairs[1].partsCost = rows.repairs[1].partsCost - n
        /\ rows'.repairs[1].laborCost = rows.repairs[1].laborCost
        /\ rows'.repairs[1].charge = rows.repairs[1].charge - IF p = "payable" THEN n ELSE 0
    BY <2>1, <2>2
  <2>4. RepairsShape(rows')
    BY <2>3 DEF RepairsOk, RepairsShape
  <2>5. PartsOk(rows')
    BY <2>3 DEF RepairsOk, RepairsShape, PartsOk
  <2>6. CostsOk(rows')
    BY <2>3 DEF RepairsOk, RepairsShape, PartsOk, CostsOk, NetIssued
  <2> QED
    BY <2>4, <2>5, <2>6 DEF RepairsOk
<1> QED
  BY <1>2, <1>3, <1>4, <1>5

\* and every handler of its labor.
LEMMA LaborStep ==
  ASSUME RepairsOk(rows), NEW w \in Workers, requests[w].pc = "read" => Seen(w) = rows,
         \/ RecordLabor(w, 1)
         \/ UpdateLabor(w)
         \/ FinalizeLabor(w)
         \/ InvoiceRepair(w, 1)
  PROVE  RepairsOk(rows')
<1>2. CASE RecordLabor(w, 1)
  <2>1. PICK n \in Amounts, status \in {"DRAFT", "FINAL"} :
          rows' = [rows EXCEPT
                    !.labor = [status |-> status, hours |-> n],
                    !.repairs[1].laborCost = rows.repairs[1].laborCost + n,
                    !.repairs[1].charge = rows.repairs[1].charge + n,
                    !.repairs[1].status = AfterStart(rows.repairs[1].status)]
    <3>1. Seen(w) = rows
      BY <1>2 DEF RecordLabor, At, Changes
    <3>2. PICK n \in Amounts, status \in {"DRAFT", "FINAL"} :
            Commit(w, [rows EXCEPT
              !.labor = [status |-> status, hours |-> n],
              !.repairs[1].laborCost = Seen(w).repairs[1].laborCost + n,
              !.repairs[1].charge = Seen(w).repairs[1].charge + n,
              !.repairs[1].status = AfterStart(Seen(w).repairs[1].status)])
      BY <1>2, Zenon DEF RecordLabor
    <3> QED
      BY <3>1, <3>2 DEF Commit
  <2>2. /\ DOMAIN rows = {"domain", "inspectionRequired", "repairs", "parts", "labor"}
        /\ DOMAIN rows.repairs = {1}
        /\ DOMAIN rows.repairs[1] = {"status", "lot", "partsCost", "laborCost", "charge", "invoiced",
                                     "fromRma"}
    BY  DEF RepairsOk, RepairsShape
  <2>3. /\ DOMAIN rows' = DOMAIN rows /\ rows'.parts = rows.parts
        /\ DOMAIN rows'.repairs = {1} /\ DOMAIN rows'.repairs[1] = DOMAIN rows.repairs[1]
        /\ rows'.labor = [status |-> status, hours |-> n] /\ n \in Amounts
        /\ rows'.repairs[1].partsCost = rows.repairs[1].partsCost
        /\ rows'.repairs[1].laborCost = rows.repairs[1].laborCost + n
        /\ rows'.repairs[1].charge = rows.repairs[1].charge + n
    BY <2>1, <2>2
  <2>4. RepairsShape(rows')
    BY <2>3 DEF RepairsOk, RepairsShape
  <2>5. PartsOk(rows')
    BY <2>3 DEF RepairsOk, RepairsShape, PartsOk
  <2>6. CostsOk(rows')
    BY <2>3 DEF RepairsOk, RepairsShape, PartsOk, CostsOk, NetIssued, Amounts
  <2> QED
    BY <2>4, <2>5, <2>6 DEF RepairsOk
<1>3. CASE UpdateLabor(w)
  <2>1. PICK n \in Amounts, status \in {"DRAFT", "FINAL"} :
          rows' = [rows EXCEPT !.labor = [status |-> status, hours |-> n]]
    BY <1>3 DEF UpdateLabor, At, Changes, Commit
  <2>2. RepairsShape(rows')
    BY <2>1 DEF RepairsOk, RepairsShape
  <2>3. PartsOk(rows')
    BY <2>1 DEF RepairsOk, RepairsShape, PartsOk
  <2>4. CostsOk(rows')
    BY <2>1 DEF RepairsOk, RepairsShape, PartsOk, CostsOk, NetIssued, Amounts
  <2> QED
    BY <2>2, <2>3, <2>4 DEF RepairsOk
<1>4. CASE FinalizeLabor(w)
  <2>1. rows' = [rows EXCEPT !.labor.status = "FINAL"]
    BY <1>4 DEF FinalizeLabor, At, Changes, Commit
  <2>2. RepairsShape(rows')
    BY <2>1 DEF RepairsOk, RepairsShape
  <2>3. PartsOk(rows')
    BY <2>1 DEF RepairsOk, RepairsShape, PartsOk
  <2>4. CostsOk(rows')
    BY <2>1 DEF RepairsOk, RepairsShape, PartsOk, CostsOk, NetIssued, Amounts
  <2> QED
    BY <2>2, <2>3, <2>4 DEF RepairsOk
<1>5. CASE InvoiceRepair(w, 1)
  <2>1. PICK n : rows' = [rows EXCEPT !.repairs[1].invoiced = n]
    BY <1>5 DEF InvoiceRepair, At, Changes, Commit
  <2>2. RepairsShape(rows')
    BY <2>1 DEF RepairsOk, RepairsShape
  <2>3. PartsOk(rows')
    BY <2>1 DEF RepairsOk, RepairsShape, PartsOk
  <2>4. CostsOk(rows')
    BY <2>1 DEF RepairsOk, RepairsShape, PartsOk, CostsOk, NetIssued, Amounts
  <2> QED
    BY <2>2, <2>3, <2>4 DEF RepairsOk
<1> QED
  BY <1>2, <1>3, <1>4, <1>5

\* Together.
LEMMA RepairsStep ==
  ASSUME RepairsOk(rows), NEW w \in Workers, requests[w].pc = "read" => Seen(w) = rows, RepairsNext(w)
  PROVE  RepairsOk(rows')
<1>1. DOMAIN rows.repairs = {1} /\ DOMAIN rows.parts = {"covered", "payable"}
  BY DEF RepairsOk, RepairsShape
<1> QED
  BY <1>1, OrderStep, PartsStep, LaborStep DEF RepairsNext

\* RepairsOk implies the property of the repairs.
LEMMA RepairAddsUpThen ==
  ASSUME rows.domain = "repairs" => RepairsOk(rows)
  PROVE  RepairAddsUp
  BY DEF RepairAddsUp, RepairsOk, RepairsShape, PartsOk, CostsOk

-----------------------------------------------------------------------------
(* shipping: the shipments of a delivery. *)

\* What a shipment takes of the delivered quantity.
Carried(db, s) == IF db.shipments[s].status = "CANCELLED" THEN 0 ELSE db.shipments[s].quantity

\* The tables of the domain.
ShippingShape(db) ==
  /\ DOMAIN db = {"domain", "deliveryCancelled", "shipments"}
  /\ DOMAIN db.shipments = {1, 2}
  /\ \A s \in {1, 2} : /\ DOMAIN db.shipments[s] = {"status", "quantity"}
                       /\ db.shipments[s].quantity \in Nat
                       /\ db.shipments[s].status = "NONE" => db.shipments[s].quantity = 0

\* The shipments of a delivery.
ShippingOk(db) ==
  ShippingShape(db) /\ Carried(db, 1) + Carried(db, 2) <= MaxAmount

\* The sum over the shipments that are not cancelled.
LEMMA ShippedIsCarried ==
  ASSUME NEW db, ShippingShape(db)
  PROVE  ShippedQuantity(db) = Carried(db, 1) + Carried(db, 2)
<1> DEFINE live == {t \in DOMAIN db.shipments : db.shipments[t].status # "CANCELLED"}
           carried == [s \in live |-> db.shipments[s].quantity]
<1>1. /\ live = {t \in {1, 2} : db.shipments[t].status # "CANCELLED"}
      /\ db.shipments[1].quantity \in Int /\ db.shipments[2].quantity \in Int
  BY DEF ShippingShape
<1>2. DOMAIN carried = live /\ \A s \in live : carried[s] = db.shipments[s].quantity
  OBVIOUS
<1>3. ShippedQuantity(db) = SumFunction(carried)
  BY DEF ShippedQuantity
<1> HIDE DEF carried
<1>4. CASE db.shipments[1].status = "CANCELLED" /\ db.shipments[2].status = "CANCELLED"
  <2>1. live = {}
    BY <1>1, <1>4
  <2>2. SumFunction(carried) = 0
    BY <1>2, <2>1, SumNone
  <2> QED
    BY <1>3, <1>4, <2>2 DEF Carried
<1>5. CASE db.shipments[1].status # "CANCELLED" /\ db.shipments[2].status = "CANCELLED"
  <2>1. live = {1}
    BY <1>1, <1>5
  <2>2. SumFunction(carried) = carried[1]
    BY <1>1, <1>2, <2>1, SumOne
  <2> QED
    BY <1>1, <1>2, <1>3, <1>5, <2>1, <2>2 DEF Carried
<1>6. CASE db.shipments[1].status = "CANCELLED" /\ db.shipments[2].status # "CANCELLED"
  <2>1. live = {2}
    BY <1>1, <1>6
  <2>2. SumFunction(carried) = carried[2]
    BY <1>1, <1>2, <2>1, SumOne
  <2> QED
    BY <1>1, <1>2, <1>3, <1>6, <2>1, <2>2 DEF Carried
<1>7. CASE db.shipments[1].status # "CANCELLED" /\ db.shipments[2].status # "CANCELLED"
  <2>1. live = {1, 2}
    BY <1>1, <1>7
  <2>2. SumFunction(carried) = carried[1] + carried[2]
    BY <1>1, <1>2, <2>1, SumTwo
  <2> QED
    BY <1>2, <1>3, <1>7, <2>1, <2>2 DEF Carried
<1> QED
  BY <1>4, <1>5, <1>6, <1>7

\* Nothing is made live again.
LEMMA ShipmentStatusStep ==
  ASSUME ShippingOk(rows), NEW w \in Workers, requests[w].pc = "read" => Seen(w) = rows,
         NEW s \in {1, 2}, NEW from, NEW to, SetStatus(w, "shipments", s, from, to),
         "CANCELLED" \notin from, to # "NONE"
  PROVE  ShippingOk(rows')
<1>1. /\ rows.shipments[s].status # "CANCELLED"
      /\ rows' = [rows EXCEPT !.shipments[s].status = to]
  BY DEF SetStatus, Changes, At, Commit
<1>2. ShippingShape(rows')
  BY <1>1 DEF ShippingOk, ShippingShape
<1>3. /\ \A t \in {1, 2} : Carried(rows', t) <= Carried(rows, t)
      /\ \A t \in {1, 2} : Carried(rows', t) \in Nat /\ Carried(rows, t) \in Nat
  BY <1>1 DEF Carried, ShippingOk, ShippingShape
<1> QED
  BY <1>2, <1>3, MaxAmountAssumption DEF ShippingOk

\* Every handler of the shipments preserves ShippingOk.
LEMMA ShippingStep ==
  ASSUME ShippingOk(rows), NEW w \in Workers, requests[w].pc = "read" => Seen(w) = rows,
         ShippingNext(w)
  PROVE  ShippingOk(rows')
<1>1. CASE CancelShippedDelivery(w)
  <2>1. rows' = [rows EXCEPT !.deliveryCancelled = TRUE]
    BY <1>1 DEF CancelShippedDelivery, Commit
  <2> QED
    BY <2>1 DEF ShippingOk, ShippingShape, Carried
<1>2. ASSUME NEW s \in {1, 2}, CreateShipment(w, s)
      PROVE  ShippingOk(rows')
  <2>1. PICK n \in 1..(MaxAmount - ShippedQuantity(rows)) :
          /\ rows.shipments[s].status = "NONE"
          /\ rows' = [rows EXCEPT !.shipments[s] = [status |-> "DRAFT", quantity |-> n]]
    BY <1>2 DEF CreateShipment, Creates, At, Commit
  <2>2. n \in 1..(MaxAmount - (Carried(rows, 1) + Carried(rows, 2)))
    BY <2>1, ShippedIsCarried DEF ShippingOk
  <2>3. ShippingShape(rows')
    BY <2>1 DEF ShippingOk, ShippingShape
  <2>4. /\ Carried(rows, s) = 0 /\ Carried(rows', s) = n
        /\ \A t \in {1, 2} : Carried(rows, t) \in Nat
        /\ \A t \in {1, 2} \ {s} : Carried(rows', t) = Carried(rows, t)
    BY <2>1 DEF Carried, ShippingOk, ShippingShape
  <2> QED
    BY <2>2, <2>3, <2>4, MaxAmountAssumption DEF ShippingOk
<1>3. ASSUME NEW s \in {1, 2},
             \/ PrepareShipment(w, s) \/ AssignCarrier(w, s)
             \/ DispatchShipment(w, s) \/ MarkInTransit(w, s) \/ MarkDelivered(w, s)
             \/ MarkFailed(w, s) \/ InitiateReturn(w, s) \/ CloseShipment(w, s)
             \/ CancelShipment(w, s)
      PROVE  ShippingOk(rows')
  BY <1>3, ShipmentStatusStep
  DEF PrepareShipment, AssignCarrier, DispatchShipment, MarkInTransit, MarkDelivered, MarkFailed,
      InitiateReturn, CloseShipment, CancelShipment
<1>4. DOMAIN rows.shipments = {1, 2}
  BY DEF ShippingOk, ShippingShape
<1> QED
  BY <1>1, <1>2, <1>3, <1>4 DEF ShippingNext

\* ShippingOk implies the property of the shipments.
LEMMA ShippedWithinDeliveryThen ==
  ASSUME rows.domain = "shipping" => ShippingOk(rows)
  PROVE  ShippedWithinDelivery
  BY ShippedIsCarried DEF ShippedWithinDelivery, ShippingOk

-----------------------------------------------------------------------------
(* warehouse and inventory/transfers: documents that move stock. *)

\* The kinds of documents that move stock from the source to the destination.
Movers(db) == db.kinds \ {"count", "quarantine", "task", "wave"}

\* What the documents have moved, and what counts have corrected.
MovedOut(db) == SumFunctionOnSet(db.moved, Movers(db))

Corrected(db) == SumFunctionOnSet(db.moved, db.kinds \cap {"count"})

\* The tables of the domain.
WarehouseShape(db) ==
  /\ DOMAIN db = {"domain", "kinds", "documents", "moved", "stock"}
  /\ db.kinds \subseteq WarehouseKinds
  /\ DOMAIN db.documents = db.kinds /\ DOMAIN db.moved = db.kinds
  /\ \A k \in db.kinds : /\ DOMAIN db.documents[k] = {"status", "quantity", "done", "system"}
                         /\ db.documents[k].quantity \in Int /\ db.documents[k].done \in Int
                         /\ db.documents[k].system \in Int
                         /\ db.moved[k] \in Int
  /\ DOMAIN db.stock = {"source", "destination"}
  /\ db.stock.source \in Int /\ db.stock.destination \in Int

\* What a document has moved.
MovedOnce(db) ==
  \A k \in Movers(db) :
    /\ k = "pick" => db.moved[k] = db.documents[k].done
    /\ k # "pick" /\ db.documents[k].status = "COMPLETED" => db.moved[k] = db.documents[k].quantity
    /\ k # "pick" /\ db.documents[k].status # "COMPLETED" => db.moved[k] = 0

\* The stock is what the documents and the counts made of it.
StockMoved(db) ==
  /\ db.stock.destination = MovedOut(db)
  /\ db.stock.source = InitialStock + Corrected(db) - MovedOut(db)

\* Warehouse documents.
WarehouseOk(db) == WarehouseShape(db) /\ MovedOnce(db) /\ StockMoved(db)

\* The sums are over finite sets, of numbers.
LEMMA KindsFinite ==
  ASSUME NEW db, WarehouseShape(db)
  PROVE  /\ IsFiniteSet(Movers(db)) /\ IsFiniteSet(db.kinds \cap {"count"})
         /\ \A k \in Movers(db) : k \in db.kinds /\ k # "count" /\ db.moved[k] \in Int
<1>1. IsFiniteSet(WarehouseKinds)
  <2>1. WarehouseKinds = {"stockTransfer", "transfer"} \cup {"putaway", "replenishment"}
           \cup {"pick", "wave"} \cup {"count", "task"} \cup {"quarantine"}
    BY DEF WarehouseKinds
  <2>2. \A x, y : {x, y} = {x} \cup {y}
    OBVIOUS
  <2>3. ASSUME NEW x, NEW y PROVE IsFiniteSet({x, y})
    <3>1. IsFiniteSet({x}) /\ IsFiniteSet({y})
      BY FS_Singleton
    <3>2. IsFiniteSet({x} \cup {y})
      BY <3>1, FS_Union
    <3> QED
      BY <2>2, <3>2
  <2> QED
    BY <2>1, <2>3, FS_Singleton, FS_Union
<1>2. Movers(db) \subseteq WarehouseKinds /\ db.kinds \cap {"count"} \subseteq WarehouseKinds
  BY DEF Movers, WarehouseShape
<1> QED
  BY <1>1, <1>2, FS_Subset DEF Movers, WarehouseShape

\* The sums follow what one kind has moved.
LEMMA MovedMore ==
  ASSUME WarehouseShape(rows), WarehouseShape(rows'), NEW k \in rows.kinds,
         rows'.kinds = rows.kinds,
         \A j \in rows.kinds \ {k} : rows'.moved[j] = rows.moved[j]
  PROVE  /\ k \in Movers(rows) => /\ MovedOut(rows') = MovedOut(rows) + rows'.moved[k] - rows.moved[k]
                                  /\ Corrected(rows') = Corrected(rows)
         /\ k = "count" => /\ MovedOut(rows') = MovedOut(rows)
                           /\ Corrected(rows') = Corrected(rows) + rows'.moved[k] - rows.moved[k]
         /\ MovedOut(rows) \in Int /\ Corrected(rows) \in Int
<1> DEFINE S == Movers(rows)
           C == rows.kinds \cap {"count"}
<1>1. /\ IsFiniteSet(S) /\ IsFiniteSet(C) /\ Movers(rows') = S /\ rows'.kinds \cap {"count"} = C
      /\ "count" \notin S /\ S \subseteq rows.kinds /\ C \subseteq {"count"} /\ C \subseteq rows.kinds
  BY KindsFinite DEF Movers
<1>2. \A j \in rows.kinds : rows.moved[j] \in Int /\ rows'.moved[j] \in Int
  BY DEF WarehouseShape
<1> HIDE DEF S, C
<1>3. MovedOut(rows) = SumFunctionOnSet(rows.moved, S) /\ MovedOut(rows') = SumFunctionOnSet(rows'.moved, S)
  BY <1>1 DEF MovedOut, S
<1>4. Corrected(rows) = SumFunctionOnSet(rows.moved, C) /\ Corrected(rows') = SumFunctionOnSet(rows'.moved, C)
  BY <1>1 DEF Corrected, C
<1>5. MovedOut(rows) \in Int /\ Corrected(rows) \in Int
  BY <1>1, <1>2, <1>3, <1>4, SumInt
<1>6. ASSUME k \in S
      PROVE  /\ MovedOut(rows') = MovedOut(rows) + rows'.moved[k] - rows.moved[k]
             /\ Corrected(rows') = Corrected(rows)
  <2>1. SumFunctionOnSet(rows'.moved, S) =
          SumFunctionOnSet(rows.moved, S) - rows.moved[k] + rows'.moved[k]
    BY <1>1, <1>2, <1>6, SumChange
  <2>2. SumFunctionOnSet(rows.moved, C) = SumFunctionOnSet(rows'.moved, C)
    BY <1>1, <1>6, SumEqual
  <2> QED
    BY <1>2, <1>3, <1>4, <1>5, <2>1, <2>2
<1>7. ASSUME k = "count"
      PROVE  /\ MovedOut(rows') = MovedOut(rows)
             /\ Corrected(rows') = Corrected(rows) + rows'.moved[k] - rows.moved[k]
  <2>1. C = {"count"}
    BY <1>7 DEF C
  <2>2. SumFunctionOnSet(rows'.moved, C) =
          SumFunctionOnSet(rows.moved, C) - rows.moved[k] + rows'.moved[k]
    BY <1>1, <1>2, <1>7, <2>1, SumChange
  <2>3. SumFunctionOnSet(rows.moved, S) = SumFunctionOnSet(rows'.moved, S)
    BY <1>1, <1>7, SumEqual
  <2> QED
    BY <1>2, <1>3, <1>4, <1>5, <2>2, <2>3
<1> QED
  BY <1>5, <1>6, <1>7 DEF S

\* A document that changes without stock: it neither becomes COMPLETED nor was.
LEMMA DocumentStep ==
  ASSUME WarehouseOk(rows), NEW k \in rows.kinds, NEW document,
         rows' = [rows EXCEPT !.documents[k] = document],
         DOMAIN document = {"status", "quantity", "done", "system"},
         document.quantity \in Int, document.done \in Int, document.system \in Int,
         k = "pick" => document.done = rows.documents[k].done,
         k \in Movers(rows) /\ k # "pick" =>
           rows.documents[k].status # "COMPLETED" /\ document.status # "COMPLETED"
  PROVE  WarehouseOk(rows')
<1>1. /\ DOMAIN rows = {"domain", "kinds", "documents", "moved", "stock"}
      /\ DOMAIN rows.documents = rows.kinds
  BY DEF WarehouseOk, WarehouseShape
<1>2. /\ rows'.kinds = rows.kinds /\ rows'.moved = rows.moved /\ rows'.stock = rows.stock
      /\ DOMAIN rows' = DOMAIN rows /\ DOMAIN rows'.documents = rows.kinds
      /\ rows'.documents[k] = document
      /\ \A j \in rows.kinds \ {k} : rows'.documents[j] = rows.documents[j]
  BY <1>1
<1>3. Movers(rows') = Movers(rows) /\ Movers(rows) \subseteq rows.kinds
  BY <1>2 DEF Movers
<1>4. WarehouseShape(rows')
  BY <1>1, <1>2 DEF WarehouseOk, WarehouseShape
<1>5. MovedOnce(rows')
  BY <1>2, <1>3 DEF WarehouseOk, MovedOnce
<1>6. StockMoved(rows')
  BY <1>2 DEF WarehouseOk, StockMoved, MovedOut, Corrected, Movers
<1> QED
  BY <1>4, <1>5, <1>6 DEF WarehouseOk

\* A document that changes its status and not its quantity.
LEMMA SetDocumentStep ==
  ASSUME WarehouseOk(rows), NEW w \in Workers, requests[w].pc = "read" => Seen(w) = rows,
         NEW k, NEW from, NEW to, SetDocument(w, k, from, to),
         k \in Movers(rows) /\ k # "pick" => "COMPLETED" \notin from /\ to # "COMPLETED"
  PROVE  WarehouseOk(rows')
<1>1. /\ k \in rows.kinds /\ rows.documents[k].status \in from
      /\ rows' = [rows EXCEPT !.documents[k].status = to]
  BY DEF SetDocument, InUse, SetStatus, Changes, At, Commit
<1> DEFINE document == [rows.documents[k] EXCEPT !.status = to]
<1>2. /\ DOMAIN rows = {"domain", "kinds", "documents", "moved", "stock"}
      /\ DOMAIN rows.documents = rows.kinds
      /\ DOMAIN rows.documents[k] = {"status", "quantity", "done", "system"}
      /\ rows.documents[k].quantity \in Int /\ rows.documents[k].done \in Int
      /\ rows.documents[k].system \in Int
  BY <1>1 DEF WarehouseOk, WarehouseShape
<1>3. /\ DOMAIN document = DOMAIN rows.documents[k]
      /\ document.status = to /\ document.quantity = rows.documents[k].quantity
      /\ document.done = rows.documents[k].done /\ document.system = rows.documents[k].system
  BY <1>2
<1>4. rows' = [rows EXCEPT !.documents[k] = document]
  BY <1>1, <1>2
<1> HIDE DEF document
<1> QED
  BY <1>1, <1>2, <1>3, <1>4, DocumentStep

\* A document that starts.
LEMMA CreateDocumentStep ==
  ASSUME WarehouseOk(rows), NEW w \in Workers, NEW k, NEW statuses,
         CreateDocument(w, k, statuses), "COMPLETED" \notin statuses
  PROVE  WarehouseOk(rows')
<1>1. PICK n \in Amounts, status \in statuses :
        /\ k \in rows.kinds /\ rows.documents[k].status = "NONE"
        /\ rows' = [rows EXCEPT !.documents[k].status = status, !.documents[k].quantity = n]
  BY DEF CreateDocument, InUse, Creates, Commit
<1> DEFINE document == [rows.documents[k] EXCEPT !.status = status, !.quantity = n]
<1>2. /\ DOMAIN rows = {"domain", "kinds", "documents", "moved", "stock"}
      /\ DOMAIN rows.documents = rows.kinds
      /\ DOMAIN rows.documents[k] = {"status", "quantity", "done", "system"}
      /\ rows.documents[k].quantity \in Int /\ rows.documents[k].done \in Int
      /\ rows.documents[k].system \in Int
  BY <1>1 DEF WarehouseOk, WarehouseShape
<1>3. /\ DOMAIN document = DOMAIN rows.documents[k]
      /\ document.status = status /\ document.quantity = n
      /\ document.done = rows.documents[k].done /\ document.system = rows.documents[k].system
  BY <1>2
<1>4. rows' = [rows EXCEPT !.documents[k] = document]
  BY <1>1, <1>2
<1>5. k \in rows.kinds /\ n \in Int /\ status # "COMPLETED" /\ rows.documents[k].status # "COMPLETED"
  BY <1>1 DEF Amounts
<1> HIDE DEF document
<1> QED
  BY <1>2, <1>3, <1>4, <1>5, DocumentStep

\* Stock moved from the source to the destination for a document.
LEMMA MoveStep ==
  ASSUME WarehouseOk(rows), NEW k \in Movers(rows), NEW n \in Int,
         DOMAIN rows' = DOMAIN rows, rows'.kinds = rows.kinds,
         DOMAIN rows'.documents = rows.kinds, DOMAIN rows'.moved = rows.kinds,
         \A j \in rows.kinds \ {k} :
           rows'.documents[j] = rows.documents[j] /\ rows'.moved[j] = rows.moved[j],
         DOMAIN rows'.documents[k] = DOMAIN rows.documents[k],
         rows'.documents[k].quantity = rows.documents[k].quantity,
         rows'.documents[k].system = rows.documents[k].system,
         rows'.documents[k].done \in Int,
         rows'.moved[k] = rows.moved[k] + n,
         rows'.stock = [source |-> rows.stock.source - n, destination |-> rows.stock.destination + n],
         k = "pick" => rows'.documents[k].done = rows.documents[k].done + n,
         k # "pick" => /\ rows.documents[k].status # "COMPLETED"
                       /\ rows'.documents[k].status = "COMPLETED"
                       /\ n = rows.documents[k].quantity
  PROVE  WarehouseOk(rows')
<1>1. k \in rows.kinds /\ Movers(rows') = Movers(rows) /\ Movers(rows) \subseteq rows.kinds
  BY DEF Movers
<1>2. WarehouseShape(rows')
  BY <1>1 DEF WarehouseOk, WarehouseShape
<1>3. MovedOnce(rows')
  <2>1. rows.moved[k] \in Int /\ rows.documents[k].done \in Int /\ rows.documents[k].quantity \in Int
    BY <1>1 DEF WarehouseOk, WarehouseShape
  <2>2. /\ k = "pick" => rows'.moved[k] = rows'.documents[k].done
        /\ k # "pick" => rows'.moved[k] = rows'.documents[k].quantity
    BY <2>1 DEF WarehouseOk, MovedOnce
  <2>3. \A j \in Movers(rows) \ {k} :
          rows'.documents[j] = rows.documents[j] /\ rows'.moved[j] = rows.moved[j]
    BY <1>1
  <2> QED
    BY <1>1, <2>2, <2>3 DEF WarehouseOk, MovedOnce
<1>4. StockMoved(rows')
  <2>1. /\ MovedOut(rows') = MovedOut(rows) + rows'.moved[k] - rows.moved[k]
        /\ Corrected(rows') = Corrected(rows)
        /\ MovedOut(rows) \in Int /\ Corrected(rows) \in Int
    BY <1>1, <1>2, MovedMore DEF WarehouseOk
  <2>2. rows.moved[k] \in Int /\ rows.stock.source \in Int /\ rows.stock.destination \in Int
    BY <1>1 DEF WarehouseOk, WarehouseShape
  <2>3. /\ rows'.stock.source = rows.stock.source - n
        /\ rows'.stock.destination = rows.stock.destination + n
    OBVIOUS
  <2> QED
    BY <2>1, <2>2, <2>3, InitialStockAssumption DEF WarehouseOk, StockMoved
<1> QED
  BY <1>2, <1>3, <1>4 DEF WarehouseOk

\* A document that moves what it says and is then completed.
LEMMA CompleteDocumentStep ==
  ASSUME WarehouseOk(rows), NEW w \in Workers, requests[w].pc = "read" => Seen(w) = rows,
         NEW k \in Movers(rows), k # "pick", NEW from, "COMPLETED" \notin from,
         CompleteDocument(w, k, from, "COMPLETED")
  PROVE  WarehouseOk(rows')
<1> DEFINE n == rows.documents[k].quantity
<1>1. Seen(w) = rows /\ rows.documents[k].status \in from
  BY DEF CompleteDocument, Changes, At
<1>2. rows' = [Moved(w, k, n) EXCEPT !.documents[k].status = "COMPLETED"]
  BY <1>1 DEF CompleteDocument, Commit
<1>3. /\ DOMAIN rows = {"domain", "kinds", "documents", "moved", "stock"} /\ k \in rows.kinds
      /\ DOMAIN rows.documents = rows.kinds /\ DOMAIN rows.moved = rows.kinds
      /\ DOMAIN rows.documents[k] = {"status", "quantity", "done", "system"}
      /\ n \in Int /\ rows.documents[k].done \in Int
  BY DEF WarehouseOk, WarehouseShape, Movers
<1> HIDE DEF n
<1>4. Moved(w, k, n) =
        [rows EXCEPT !.stock = [source |-> rows.stock.source - n,
                                destination |-> rows.stock.destination + n],
                     !.moved[k] = @ + n]
  BY <1>1 DEF Moved
<1>5. /\ DOMAIN rows' = DOMAIN rows /\ rows'.kinds = rows.kinds
      /\ DOMAIN rows'.documents = rows.kinds /\ DOMAIN rows'.moved = rows.kinds
      /\ rows'.documents[k] = [rows.documents[k] EXCEPT !.status = "COMPLETED"]
      /\ rows'.moved[k] = rows.moved[k] + n
      /\ rows'.stock = [source |-> rows.stock.source - n, destination |-> rows.stock.destination + n]
  BY <1>2, <1>3, <1>4
<1>6. \A j \in rows.kinds \ {k} : rows'.documents[j] = rows.documents[j] /\ rows'.moved[j] = rows.moved[j]
  BY <1>2, <1>3, <1>4
<1>7. /\ DOMAIN rows'.documents[k] = DOMAIN rows.documents[k]
      /\ rows'.documents[k].quantity = rows.documents[k].quantity
      /\ rows'.documents[k].system = rows.documents[k].system
      /\ rows'.documents[k].done \in Int
      /\ rows'.documents[k].status = "COMPLETED" /\ rows.documents[k].status # "COMPLETED"
      /\ n = rows.documents[k].quantity
  BY <1>1, <1>3, <1>5 DEF n
<1> QED
  BY <1>3, <1>5, <1>6, <1>7, MoveStep

\* A pick that moves a part of what it says.
LEMMA ExecutePickStep ==
  ASSUME WarehouseOk(rows), NEW w \in Workers, requests[w].pc = "read" => Seen(w) = rows,
         ExecutePick(w)
  PROVE  WarehouseOk(rows')
<1>1. Seen(w) = rows /\ "pick" \in rows.kinds
  BY DEF ExecutePick, Changes, At, InUse
<1>2. PICK n \in 1..(rows.documents["pick"].quantity - rows.documents["pick"].done) :
        \E to : Commit(w, [Moved(w, "pick", n) EXCEPT
                             !.documents["pick"].done = rows.documents["pick"].done + n,
                             !.documents["pick"].status = to])
  BY <1>1 DEF ExecutePick
<1>3. PICK to : rows' = [Moved(w, "pick", n) EXCEPT
                           !.documents["pick"].done = rows.documents["pick"].done + n,
                           !.documents["pick"].status = to]
  BY <1>2 DEF Commit
<1>4. /\ DOMAIN rows = {"domain", "kinds", "documents", "moved", "stock"} /\ "pick" \in Movers(rows)
      /\ DOMAIN rows.documents = rows.kinds /\ DOMAIN rows.moved = rows.kinds
      /\ DOMAIN rows.documents["pick"] = {"status", "quantity", "done", "system"}
      /\ n \in Int /\ rows.documents["pick"].done \in Int
  BY <1>1 DEF WarehouseOk, WarehouseShape, Movers
<1> DEFINE moved == Moved(w, "pick", n)
<1>5. /\ DOMAIN moved = DOMAIN rows /\ moved.kinds = rows.kinds
      /\ moved.documents = rows.documents /\ DOMAIN moved.moved = rows.kinds
      /\ moved.moved["pick"] = rows.moved["pick"] + n
      /\ \A j \in rows.kinds \ {"pick"} : moved.moved[j] = rows.moved[j]
      /\ moved.stock = [source |-> rows.stock.source - n, destination |-> rows.stock.destination + n]
  BY <1>1, <1>4 DEF Moved
<1> HIDE DEF moved
<1>6. /\ DOMAIN rows' = DOMAIN rows /\ rows'.kinds = rows.kinds
      /\ DOMAIN rows'.documents = rows.kinds /\ DOMAIN rows'.moved = rows.kinds
      /\ rows'.documents["pick"] =
           [rows.documents["pick"] EXCEPT !.done = rows.documents["pick"].done + n, !.status = to]
      /\ rows'.moved["pick"] = rows.moved["pick"] + n
      /\ rows'.stock = [source |-> rows.stock.source - n, destination |-> rows.stock.destination + n]
      /\ \A j \in rows.kinds \ {"pick"} :
           rows'.documents[j] = rows.documents[j] /\ rows'.moved[j] = rows.moved[j]
  <2>1. rows' = [moved EXCEPT !.documents["pick"].done = rows.documents["pick"].done + n,
                              !.documents["pick"].status = to]
    BY <1>3 DEF moved
  <2>2. /\ DOMAIN rows' = DOMAIN moved /\ rows'.kinds = moved.kinds
        /\ rows'.moved = moved.moved /\ rows'.stock = moved.stock
        /\ DOMAIN rows'.documents = rows.kinds
        /\ rows'.documents["pick"] =
             [rows.documents["pick"] EXCEPT !.done = rows.documents["pick"].done + n, !.status = to]
        /\ \A j \in rows.kinds \ {"pick"} : rows'.documents[j] = rows.documents[j]
    BY <1>1, <1>4, <1>5, <2>1
  <2> QED
    BY <1>5, <2>2
<1>7. /\ DOMAIN rows'.documents["pick"] = DOMAIN rows.documents["pick"]
      /\ rows'.documents["pick"].quantity = rows.documents["pick"].quantity
      /\ rows'.documents["pick"].system = rows.documents["pick"].system
      /\ rows'.documents["pick"].done = rows.documents["pick"].done + n
      /\ rows'.documents["pick"].done \in Int
  BY <1>4, <1>6
<1> QED
  BY <1>4, <1>6, <1>7, MoveStep

\* Documents that start or change with values of their own.
LEMMA ValueStep ==
  ASSUME WarehouseOk(rows), NEW w \in Workers, requests[w].pc = "read" => Seen(w) = rows,
         GenerateReplenishment(w) \/ CreateCount(w) \/ RecordCount(w) \/ RecountCount(w)
           \/ QuarantineStock(w)
  PROVE  WarehouseOk(rows')
<1>1. /\ DOMAIN rows = {"domain", "kinds", "documents", "moved", "stock"}
      /\ DOMAIN rows.documents = rows.kinds
      /\ \A k \in rows.kinds : /\ DOMAIN rows.documents[k] = {"status", "quantity", "done", "system"}
                               /\ rows.documents[k].quantity \in Int
                               /\ rows.documents[k].done \in Int
                               /\ rows.documents[k].system \in Int
      /\ rows.stock.source \in Int /\ rows.stock.destination \in Int
  BY DEF WarehouseOk, WarehouseShape
<1>2. CASE GenerateReplenishment(w)
  <2> DEFINE document == [rows.documents["replenishment"] EXCEPT
                            !.status = "PENDING", !.quantity = MaxAmount - rows.stock.destination]
  <2>1. /\ "replenishment" \in rows.kinds /\ rows.documents["replenishment"].status = "NONE"
        /\ rows' = [rows EXCEPT
                     !.documents["replenishment"].status = "PENDING",
                     !.documents["replenishment"].quantity = MaxAmount - rows.stock.destination]
    BY <1>2 DEF GenerateReplenishment, InUse, Creates, At, Commit
  <2>2. rows' = [rows EXCEPT !.documents["replenishment"] = document]
    BY <1>1, <2>1
  <2>3. /\ DOMAIN document = {"status", "quantity", "done", "system"}
        /\ document.status = "PENDING"
        /\ document.quantity = MaxAmount - rows.stock.destination
        /\ document.done = rows.documents["replenishment"].done
        /\ document.system = rows.documents["replenishment"].system
    BY <1>1, <2>1
  <2>4. MaxAmount - rows.stock.destination \in Int
    BY <1>1, MaxAmountAssumption
  <2>5. /\ "replenishment" \in rows.kinds
        /\ rows.documents["replenishment"].status # "COMPLETED" /\ document.status # "COMPLETED"
    BY <2>1, <2>3
  <2> HIDE DEF document
  <2> QED
    BY <1>1, <2>2, <2>3, <2>4, <2>5, DocumentStep
<1>3. CASE CreateCount(w)
  <2> DEFINE document == [rows.documents["count"] EXCEPT !.status = "DRAFT", !.system = rows.stock.source]
  <2>1. /\ "count" \in rows.kinds
        /\ rows' = [rows EXCEPT !.documents["count"].status = "DRAFT",
                                !.documents["count"].system = rows.stock.source]
    BY <1>3 DEF CreateCount, InUse, Creates, At, Commit
  <2>2. rows' = [rows EXCEPT !.documents["count"] = document]
    BY <1>1, <2>1
  <2>3. /\ DOMAIN document = {"status", "quantity", "done", "system"}
        /\ document.quantity = rows.documents["count"].quantity
        /\ document.done = rows.documents["count"].done
        /\ document.system = rows.stock.source
    BY <1>1, <2>1
  <2>4. "count" \in rows.kinds /\ "count" \notin Movers(rows)
    BY <2>1 DEF Movers
  <2> HIDE DEF document
  <2> QED
    BY <1>1, <2>2, <2>3, <2>4, DocumentStep
<1>4. CASE RecordCount(w) \/ RecountCount(w)
  <2>1. Seen(w) = rows /\ "count" \in rows.kinds
    BY <1>4 DEF RecordCount, RecountCount, Changes, At, InUse
  <2>2. PICK status : Counted(w, status)
    BY <1>4 DEF RecordCount, RecountCount
  <2>3. PICK n \in 0..InitialStock :
          rows' = [rows EXCEPT !.documents["count"].status = status,
                               !.documents["count"].done = n - rows.documents["count"].system]
    BY <2>1, <2>2 DEF Counted, Commit
  <2> DEFINE document == [rows.documents["count"] EXCEPT
                            !.status = status, !.done = n - rows.documents["count"].system]
  <2>4. rows' = [rows EXCEPT !.documents["count"] = document]
    BY <1>1, <2>1, <2>3
  <2>5. /\ DOMAIN document = {"status", "quantity", "done", "system"}
        /\ document.quantity = rows.documents["count"].quantity
        /\ document.done = n - rows.documents["count"].system
        /\ document.system = rows.documents["count"].system
        /\ n - rows.documents["count"].system \in Int
    BY <1>1, <2>1
  <2>6. "count" \in rows.kinds /\ "count" \notin Movers(rows)
    BY <2>1 DEF Movers
  <2> HIDE DEF document
  <2> QED
    BY <1>1, <2>4, <2>5, <2>6, DocumentStep
<1>5. CASE QuarantineStock(w)
  <2>1. PICK n \in Amounts :
          /\ "quarantine" \in rows.kinds
          /\ rows' = [rows EXCEPT !.documents["quarantine"].status = "QUARANTINED",
                                  !.documents["quarantine"].quantity = n]
    BY <1>5 DEF QuarantineStock, InUse, Creates, Commit
  <2> DEFINE document == [rows.documents["quarantine"] EXCEPT !.status = "QUARANTINED", !.quantity = n]
  <2>2. rows' = [rows EXCEPT !.documents["quarantine"] = document]
    BY <1>1, <2>1
  <2>3. /\ DOMAIN document = {"status", "quantity", "done", "system"}
        /\ document.quantity = n /\ n \in Int
        /\ document.done = rows.documents["quarantine"].done
        /\ document.system = rows.documents["quarantine"].system
    BY <1>1, <2>1 DEF Amounts
  <2>4. "quarantine" \in rows.kinds /\ "quarantine" \notin Movers(rows)
    BY <2>1 DEF Movers
  <2> HIDE DEF document
  <2> QED
    BY <1>1, <2>2, <2>3, <2>4, DocumentStep
<1> QED
  BY <1>2, <1>3, <1>4, <1>5

\* What a count corrects is both moved and in the stock.
LEMMA PostCountStep ==
  ASSUME WarehouseOk(rows), NEW w \in Workers, requests[w].pc = "read" => Seen(w) = rows,
         PostCount(w)
  PROVE  WarehouseOk(rows')
<1> DEFINE n == rows.documents["count"].done
<1>1. Seen(w) = rows /\ "count" \in rows.kinds /\ "count" \notin Movers(rows)
  BY DEF PostCount, Changes, At, InUse, Movers
<1>2. rows' = [rows EXCEPT !.documents["count"].status = "POSTED",
                           !.stock.source = rows.stock.source + n,
                           !.moved["count"] = @ + n]
  BY <1>1 DEF PostCount, Commit
<1>3. /\ DOMAIN rows = {"domain", "kinds", "documents", "moved", "stock"}
      /\ DOMAIN rows.documents = rows.kinds /\ DOMAIN rows.moved = rows.kinds
      /\ DOMAIN rows.stock = {"source", "destination"}
      /\ DOMAIN rows.documents["count"] = {"status", "quantity", "done", "system"}
      /\ n \in Int /\ rows.stock.source \in Int /\ rows.stock.destination \in Int
      /\ rows.moved["count"] \in Int
  BY <1>1 DEF WarehouseOk, WarehouseShape
<1> HIDE DEF n
<1>4. /\ DOMAIN rows' = DOMAIN rows /\ rows'.kinds = rows.kinds
      /\ DOMAIN rows'.documents = rows.kinds /\ DOMAIN rows'.moved = rows.kinds
      /\ DOMAIN rows'.stock = {"source", "destination"}
      /\ rows'.documents["count"] = [rows.documents["count"] EXCEPT !.status = "POSTED"]
      /\ rows'.moved["count"] = rows.moved["count"] + n
      /\ rows'.stock.source = rows.stock.source + n
      /\ rows'.stock.destination = rows.stock.destination
      /\ \A j \in rows.kinds \ {"count"} :
           rows'.documents[j] = rows.documents[j] /\ rows'.moved[j] = rows.moved[j]
  BY <1>1, <1>2, <1>3
<1>5. WarehouseShape(rows')
  BY <1>1, <1>3, <1>4 DEF WarehouseOk, WarehouseShape
<1>6. MovedOnce(rows')
  BY <1>1, <1>4 DEF WarehouseOk, MovedOnce, Movers
<1>7. StockMoved(rows')
  <2>1. /\ MovedOut(rows') = MovedOut(rows)
        /\ Corrected(rows') = Corrected(rows) + rows'.moved["count"] - rows.moved["count"]
        /\ MovedOut(rows) \in Int /\ Corrected(rows) \in Int
    BY <1>1, <1>4, <1>5, MovedMore DEF WarehouseOk
  <2> QED
    BY <1>3, <1>4, <2>1, InitialStockAssumption DEF WarehouseOk, StockMoved
<1> QED
  BY <1>5, <1>6, <1>7 DEF WarehouseOk

\* Every handler of the warehouse preserves WarehouseOk.
LEMMA WarehouseStep ==
  ASSUME WarehouseOk(rows), NEW w \in Workers, requests[w].pc = "read" => Seen(w) = rows,
         WarehouseNext(w)
  PROVE  WarehouseOk(rows')
<1>1. CASE \/ CreateStockTransfer(w) \/ CreateTransfer(w) \/ CreatePutaway(w) \/ CreateTask(w)
           \/ CreatePick(w) \/ CreateWave(w)
  BY <1>1, CreateDocumentStep
  DEF CreateStockTransfer, CreateTransfer, CreatePutaway, CreateTask, CreatePick, CreateWave
<1>2. CASE \/ CancelStockTransfer(w) \/ SubmitTransfer(w) \/ ApproveTransfer(w) \/ RejectTransfer(w)
           \/ StartTransfer(w) \/ CancelTransfer(w) \/ AssignPutaway(w) \/ StartPutaway(w)
           \/ CancelPutaway(w) \/ CancelReplenishment(w) \/ AssignPick(w) \/ StartPick(w)
           \/ CancelPick(w)
  BY <1>2, SetDocumentStep
  DEF CancelStockTransfer, SubmitTransfer, ApproveTransfer, RejectTransfer, OpenTransfer,
      StartTransfer, CancelTransfer, AssignPutaway, StartPutaway, CancelPutaway, OpenTask,
      CancelReplenishment, AssignPick, StartPick, CancelPick
<1>3. CASE \/ AssignTask(w) \/ StartTask(w) \/ CompleteTask(w) \/ CancelTask(w)
           \/ ReleaseWave(w) \/ CompleteWave(w) \/ CancelWave(w)
           \/ StartCount(w) \/ ReviewCount(w) \/ CancelCount(w)
           \/ InspectQuarantine(w) \/ ReleaseQuarantine(w)
  <2>1. \A k \in {"task", "wave", "count", "quarantine"} : k \notin Movers(rows)
    BY DEF Movers
  <2> QED
    BY <1>3, <2>1, SetDocumentStep
    DEF AssignTask, StartTask, CompleteTask, CancelTask, ReleaseWave, CompleteWave, CancelWave,
        StartCount, ReviewCount, CancelCount, InspectQuarantine, ReleaseQuarantine
<1>4. CASE \/ CompleteStockTransfer(w) \/ CompleteTransfer(w) \/ CompletePutaway(w)
           \/ CompleteReplenishment(w)
  <2>1. \A k \in {"stockTransfer", "transfer", "putaway", "replenishment"} :
          InUse(k) => k \in Movers(rows)
    BY DEF InUse, Movers
  <2> QED
    BY <1>4, <2>1, CompleteDocumentStep
    DEF CompleteStockTransfer, CompleteTransfer, CompletePutaway, CompleteReplenishment,
        OpenTransfer, OpenTask
<1> QED
  BY <1>1, <1>2, <1>3, <1>4, ValueStep, ExecutePickStep, PostCountStep DEF WarehouseNext

\* WarehouseOk implies the property of the warehouse.
LEMMA GoodsMoveOnceThen ==
  ASSUME rows.domain = "warehouse" => WarehouseOk(rows)
  PROVE  GoodsMoveOnce
  BY DEF GoodsMoveOnce, WarehouseOk, MovedOnce, StockMoved, Movers, MovedOut, Corrected

-----------------------------------------------------------------------------
(* manufacturing: production orders. *)

\* The tables of the domain.
ProductionShape(db) ==
  /\ DOMAIN db = {"domain", "allowReleaseOnShortage", "productions", "components", "finished",
                  "outputs"}
  /\ DOMAIN db.productions = {1}
  /\ DOMAIN db.productions[1] = {"status", "planned", "required", "issued", "produced"}
  /\ db.productions[1].issued \in Int /\ db.productions[1].produced \in Int
  /\ db.productions[1].planned \in Int

\* What the order took and what it made.
OrderedOk(db) ==
  /\ db.components = MaxAmount - db.productions[1].issued
  /\ db.finished = db.productions[1].produced /\ db.outputs = db.productions[1].produced
  /\ db.productions[1].status \notin {"IN_PROGRESS", "PARTIALLY_COMPLETED", "COMPLETED", "CLOSED"} =>
       db.productions[1].issued = 0 /\ db.productions[1].produced = 0
  /\ db.productions[1].status = "COMPLETED" =>
       db.productions[1].produced >= db.productions[1].planned
  /\ db.productions[1].status = "PARTIALLY_COMPLETED" =>
       db.productions[1].produced < db.productions[1].planned

\* Production orders.
ProductionOk(db) == ProductionShape(db) /\ OrderedOk(db)

\* Every handler of the production orders preserves ProductionOk.
LEMMA ProductionStep ==
  ASSUME ProductionOk(rows), NEW w \in Workers, requests[w].pc = "read" => Seen(w) = rows,
         ProductionNext(w)
  PROVE  ProductionOk(rows')
<1>1. PICK p \in {1} :
        \/ CreateProduction(w, p)
        \/ UpdateProduction(w, p)
        \/ DeleteProduction(w, p)
        \/ ReleaseProduction(w, p)
        \/ StartProduction(w, p)
        \/ CancelProduction(w, p)
        \/ IssueMaterial(w, p)
        \/ CompleteProduction(w, p)
        \/ CloseProduction(w, p)
  BY DEF ProductionNext, ProductionOk, ProductionShape
<1>2. CASE CreateProduction(w, p)
  <2>1. PICK n \in Amounts :
          /\ rows.productions[p].status = "NONE"
          /\ rows' = [rows EXCEPT !.productions[p] = [status |-> "DRAFT", planned |-> n, required |-> n,
                                                       issued |-> 0, produced |-> 0]]
    BY <1>1, <1>2 DEF CreateProduction, Creates, Commit
  <2>2. ProductionShape(rows')
    BY <1>1, <2>1, MaxAmountAssumption DEF ProductionOk, ProductionShape, OrderedOk, Amounts
  <2>3. OrderedOk(rows')
    BY <1>1, <2>1, MaxAmountAssumption DEF ProductionOk, ProductionShape, OrderedOk, Amounts
  <2> QED
    BY <2>2, <2>3 DEF ProductionOk
<1>3. CASE UpdateProduction(w, p)
  <2>1. PICK n \in Amounts :
          /\ rows.productions[p].status = "DRAFT"
          /\ rows' = [rows EXCEPT !.productions[p].planned = n]
    BY <1>1, <1>3 DEF UpdateProduction, At, Changes, Commit
  <2>2. ProductionShape(rows')
    BY <1>1, <2>1, MaxAmountAssumption DEF ProductionOk, ProductionShape, OrderedOk, Amounts
  <2>3. OrderedOk(rows')
    BY <1>1, <2>1, MaxAmountAssumption DEF ProductionOk, ProductionShape, OrderedOk, Amounts
  <2> QED
    BY <2>2, <2>3 DEF ProductionOk
<1>4. CASE DeleteProduction(w, p)
  <2>1. /\ rows.productions[p].status = "DRAFT"
        /\ rows' = [rows EXCEPT !.productions[p].status = "DELETED"]
    BY <1>1, <1>4 DEF DeleteProduction, At, Changes, Commit
  <2>2. ProductionShape(rows')
    BY <1>1, <2>1, MaxAmountAssumption DEF ProductionOk, ProductionShape, OrderedOk, Amounts
  <2>3. OrderedOk(rows')
    BY <1>1, <2>1, MaxAmountAssumption DEF ProductionOk, ProductionShape, OrderedOk, Amounts
  <2> QED
    BY <2>2, <2>3 DEF ProductionOk
<1>5. CASE ReleaseProduction(w, p)
  <2>1. /\ rows.productions[p].status \in {"DRAFT"}
        /\ rows' = [rows EXCEPT !.productions[p].status = "RELEASED"]
    BY <1>1, <1>5 DEF ReleaseProduction, SetStatus, At, Changes, Commit
  <2>2. ProductionShape(rows')
    BY <1>1, <2>1, MaxAmountAssumption DEF ProductionOk, ProductionShape, OrderedOk, Amounts
  <2>3. OrderedOk(rows')
    BY <1>1, <2>1, MaxAmountAssumption DEF ProductionOk, ProductionShape, OrderedOk, Amounts
  <2> QED
    BY <2>2, <2>3 DEF ProductionOk
<1>6. CASE StartProduction(w, p)
  <2>1. /\ rows.productions[p].status \in {"RELEASED"}
        /\ rows' = [rows EXCEPT !.productions[p].status = "IN_PROGRESS"]
    BY <1>1, <1>6 DEF StartProduction, SetStatus, At, Changes, Commit
  <2>2. ProductionShape(rows')
    BY <1>1, <2>1, MaxAmountAssumption DEF ProductionOk, ProductionShape, OrderedOk, Amounts
  <2>3. OrderedOk(rows')
    BY <1>1, <2>1, MaxAmountAssumption DEF ProductionOk, ProductionShape, OrderedOk, Amounts
  <2> QED
    BY <2>2, <2>3 DEF ProductionOk
<1>7. CASE CancelProduction(w, p)
  <2>1. /\ rows.productions[p].status \in {"DRAFT", "RELEASED"}
        /\ rows' = [rows EXCEPT !.productions[p].status = "CANCELLED"]
    BY <1>1, <1>7 DEF CancelProduction, SetStatus, At, Changes, Commit
  <2>2. ProductionShape(rows')
    BY <1>1, <2>1, MaxAmountAssumption DEF ProductionOk, ProductionShape, OrderedOk, Amounts
  <2>3. OrderedOk(rows')
    BY <1>1, <2>1, MaxAmountAssumption DEF ProductionOk, ProductionShape, OrderedOk, Amounts
  <2> QED
    BY <2>2, <2>3 DEF ProductionOk
<1>8. CASE IssueMaterial(w, p)
  <2>1. PICK n \in 1..rows.components, to \in {"IN_PROGRESS", rows.productions[p].status} :
          /\ rows.productions[p].status \in {"RELEASED", "IN_PROGRESS", "PARTIALLY_COMPLETED"}
          /\ to = IF rows.productions[p].status = "RELEASED" THEN "IN_PROGRESS"
                                                            ELSE rows.productions[p].status
          /\ rows' = [rows EXCEPT !.components = rows.components - n,
                                  !.productions[p].issued = rows.productions[p].issued + n,
                                  !.productions[p].status = to]
    BY <1>1, <1>8 DEF IssueMaterial, At, Changes, Commit
  <2>2. /\ DOMAIN rows = {"domain", "allowReleaseOnShortage", "productions", "components", "finished",
                            "outputs"}
        /\ DOMAIN rows.productions = {1}
        /\ DOMAIN rows.productions[1] = {"status", "planned", "required", "issued", "produced"}
    BY <1>1 DEF ProductionOk, ProductionShape
  <2>3. /\ DOMAIN rows' = DOMAIN rows /\ DOMAIN rows'.productions = {1}
        /\ DOMAIN rows'.productions[1] = DOMAIN rows.productions[1]
        /\ n \in 1..rows.components /\ rows'.components = rows.components - n
        /\ rows'.finished = rows.finished /\ rows'.outputs = rows.outputs
        /\ rows'.productions[1].issued = rows.productions[1].issued + n
        /\ rows'.productions[1].planned = rows.productions[1].planned
        /\ rows'.productions[1].produced = rows.productions[1].produced
        /\ rows'.productions[1].status = to
        /\ to = IF rows.productions[1].status = "RELEASED" THEN "IN_PROGRESS"
                                                          ELSE rows.productions[1].status
        /\ to \in {"IN_PROGRESS", "PARTIALLY_COMPLETED"}
    BY <1>1, <2>1, <2>2
  <2>4. ProductionShape(rows')
    BY <1>1, <2>3, MaxAmountAssumption DEF ProductionOk, ProductionShape, OrderedOk, Amounts
  <2>5. OrderedOk(rows')
    BY <1>1, <2>3, MaxAmountAssumption DEF ProductionOk, ProductionShape, OrderedOk, Amounts
  <2> QED
    BY <2>4, <2>5 DEF ProductionOk
<1>9. CASE CompleteProduction(w, p)
  <2>1. PICK n \in Amounts :
          /\ rows.productions[p].status \in {"IN_PROGRESS", "PARTIALLY_COMPLETED"}
          /\ rows' = [rows EXCEPT
                       !.finished = rows.finished + n,
                       !.outputs = rows.outputs + n,
                       !.productions[p].produced = rows.productions[p].produced + n,
                       !.productions[p].status =
                          IF rows.productions[p].produced + n >= rows.productions[p].planned
                          THEN "COMPLETED" ELSE "PARTIALLY_COMPLETED"]
    <3>1. Seen(w) = rows /\ rows.productions[p].status \in {"IN_PROGRESS", "PARTIALLY_COMPLETED"}
      BY <1>1, <1>9 DEF CompleteProduction, At, Changes
    <3>2. PICK n \in Amounts :
            Commit(w, [rows EXCEPT
                       !.finished = Seen(w).finished + n,
                       !.outputs = @ + n,
                       !.productions[p].produced = Seen(w).productions[p].produced + n,
                       !.productions[p].status =
                          IF Seen(w).productions[p].produced + n >= Seen(w).productions[p].planned
                          THEN "COMPLETED" ELSE "PARTIALLY_COMPLETED"])
      BY <1>1, <1>9, Zenon DEF CompleteProduction
    <3> QED
      BY <3>1, <3>2 DEF Commit
  <2>2. /\ DOMAIN rows = {"domain", "allowReleaseOnShortage", "productions", "components", "finished",
                            "outputs"}
        /\ DOMAIN rows.productions = {1}
        /\ DOMAIN rows.productions[1] = {"status", "planned", "required", "issued", "produced"}
    BY <1>1 DEF ProductionOk, ProductionShape
  <2>3. /\ DOMAIN rows' = DOMAIN rows /\ DOMAIN rows'.productions = {1}
        /\ DOMAIN rows'.productions[1] = DOMAIN rows.productions[1]
        /\ n \in Amounts /\ rows'.components = rows.components
        /\ rows'.finished = rows.finished + n /\ rows'.outputs = rows.outputs + n
        /\ rows'.productions[1].issued = rows.productions[1].issued
        /\ rows'.productions[1].planned = rows.productions[1].planned
        /\ rows'.productions[1].produced = rows.productions[1].produced + n
        /\ rows'.productions[1].status = IF rows.productions[1].produced + n >= rows.productions[1].planned
                                         THEN "COMPLETED" ELSE "PARTIALLY_COMPLETED"
    BY <1>1, <2>1, <2>2
  <2>4. ProductionShape(rows')
    BY <1>1, <2>3, MaxAmountAssumption DEF ProductionOk, ProductionShape, OrderedOk, Amounts
  <2>5. OrderedOk(rows')
    BY <1>1, <2>3, MaxAmountAssumption DEF ProductionOk, ProductionShape, OrderedOk, Amounts
  <2> QED
    BY <2>4, <2>5 DEF ProductionOk
<1>10. CASE CloseProduction(w, p)
  <2>1. /\ rows.productions[p].status \in {"COMPLETED", "PARTIALLY_COMPLETED"}
        /\ rows' = [rows EXCEPT !.productions[p].status = "CLOSED"]
    BY <1>1, <1>10 DEF CloseProduction, SetStatus, At, Changes, Commit
  <2>2. ProductionShape(rows')
    BY <1>1, <2>1, MaxAmountAssumption DEF ProductionOk, ProductionShape, OrderedOk, Amounts
  <2>3. OrderedOk(rows')
    BY <1>1, <2>1, MaxAmountAssumption DEF ProductionOk, ProductionShape, OrderedOk, Amounts
  <2> QED
    BY <2>2, <2>3 DEF ProductionOk
<1> QED
  BY <1>1, <1>2, <1>3, <1>4, <1>5, <1>6, <1>7, <1>8, <1>9, <1>10

\* ProductionOk implies the property of the production orders.
LEMMA ProductionConservesThen ==
  ASSUME rows.domain = "production" => ProductionOk(rows)
  PROVE  ProductionConserves
  BY DEF ProductionConserves, ProductionOk, ProductionShape, OrderedOk

LEMMA NoProductionOk == \A b : ProductionOk(NoProduction(b))
  BY MaxAmountAssumption DEF NoProduction, ProductionOk, ProductionShape, OrderedOk

-----------------------------------------------------------------------------
(* planning: MRP runs and what they plan. *)

\* Filling up the last lot.
LEMMA WholeLots ==
  ASSUME NEW a \in Nat, NEW m \in Nat \ {0}
  PROVE  a % m \in 0..(m - 1) /\ (a + (m - (a % m))) % m = 0
<1>1. a % m \in 0..(m - 1)
  OBVIOUS
<1>2. (a + (m - (a % m))) % m = 0
  BY SMTT(30)
<1> QED
  BY <1>1, <1>2

\* Lots cover what is asked for and the minimum, and one lot less would not.
LEMMA LotsCover ==
  ASSUME NEW net \in Nat, NEW moq \in Nat, NEW multiple \in Nat \ {0}
  PROVE  /\ LotSize(net, moq, multiple) \in Nat
         /\ LotSize(net, moq, multiple) >= net /\ LotSize(net, moq, multiple) >= moq
         /\ LotSize(net, moq, multiple) % multiple = 0
         /\ \/ LotSize(net, moq, multiple) - multiple < net
            \/ LotSize(net, moq, multiple) - multiple < moq
<1> DEFINE suggested == IF net < moq THEN moq ELSE net
           over == suggested % multiple
<1>1. suggested \in Nat /\ suggested >= net /\ suggested >= moq /\ suggested \in {net, moq}
  OBVIOUS
<1>2. LotSize(net, moq, multiple) = IF over = 0 THEN suggested ELSE suggested + (multiple - over)
  BY DEF LotSize
<1> HIDE DEF suggested
<1>3. over \in 0..(multiple - 1)
  BY <1>1, WholeLots
<1>4. (suggested + (multiple - over)) % multiple = 0
  BY <1>1, WholeLots
<1>5. CASE over = 0
  BY <1>1, <1>2, <1>5
<1>6. CASE over # 0
  <2>1. LotSize(net, moq, multiple) = suggested + (multiple - over)
    BY <1>2, <1>6
  <2>2. LotSize(net, moq, multiple) % multiple = 0
    BY <1>4, <2>1
  <2> HIDE DEF over
  <2> QED
    BY <1>1, <1>3, <1>6, <2>1, <2>2
<1> QED
  BY <1>5, <1>6

\* The tables of the domain.
PlanningShape(db) ==
  /\ DOMAIN db = {"domain", "runs", "plans"}
  /\ DOMAIN db.runs = {1} /\ DOMAIN db.runs[1] = {"status"}
  /\ DOMAIN db.plans = {1}
  /\ DOMAIN db.plans[1] = {"status", "net", "quantity", "moq", "multiple"}

\* A plan is made by the run, of the size that covers the shortage.
PlanOk(db) ==
  db.plans[1].status # "NONE" =>
    /\ db.runs[1].status = "COMPLETED"
    /\ db.plans[1].net \in Nat /\ db.plans[1].moq \in Nat /\ db.plans[1].multiple \in Nat \ {0}
    /\ db.plans[1].quantity =
         LotSize(db.plans[1].net, db.plans[1].moq, db.plans[1].multiple)

\* MRP runs and plans.
PlanningOk(db) == PlanningShape(db) /\ PlanOk(db)

\* Every handler of the plans preserves PlanningOk.
LEMMA PlanningStep ==
  ASSUME PlanningOk(rows), NEW w \in Workers, requests[w].pc = "read" => Seen(w) = rows,
         PlanningNext(w)
  PROVE  PlanningOk(rows')
<1>1. PICK r \in {1} : CreateRun(w, r) \/ ExecuteRun(w, r) \/ CancelRun(w, r) \/ UpdatePlan(w, r)
  BY DEF PlanningNext, PlanningOk, PlanningShape
<1>2. CASE CreateRun(w, r)
  <2>1. rows.runs[r].status = "NONE" /\ rows' = [rows EXCEPT !.runs[r].status = "DRAFT"]
    BY <1>2 DEF CreateRun, Creates, Commit
  <2> QED
    BY <1>1, <2>1 DEF PlanningOk, PlanningShape, PlanOk
<1>3. CASE CancelRun(w, r)
  <2>1. /\ rows.runs[r].status \in {"DRAFT", "FAILED"}
        /\ rows' = [rows EXCEPT !.runs[r].status = "CANCELLED"]
    BY <1>3 DEF CancelRun, SetStatus, At, Changes, Commit
  <2> QED
    BY <1>1, <2>1 DEF PlanningOk, PlanningShape, PlanOk
<1>4. CASE UpdatePlan(w, r)
  <2>1. PICK to : /\ rows.plans[r].status # "NONE"
                  /\ rows' = [rows EXCEPT !.plans[r].status = to]
    BY <1>4 DEF UpdatePlan, SetStatus, At, Changes, Commit
  <2> QED
    BY <1>1, <2>1 DEF PlanningOk, PlanningShape, PlanOk
<1>5. CASE ExecuteRun(w, r)
  <2>1. rows.runs[r].status = "DRAFT"
    BY <1>5 DEF ExecuteRun, At, Changes
  <2>2. PICK gross, safety, onHand, expected \in 0..MaxAmount,
             moq, multiple \in 1..(2 * MaxAmount) :
          LET net == NetRequirement(gross, safety, onHand, expected)
          IN Commit(w, [rows EXCEPT
               !.runs[r].status = "COMPLETED",
               !.plans[r] = IF net = 0 THEN @
                            ELSE [status |-> "SUGGESTED", net |-> net, moq |-> moq,
                                  multiple |-> multiple, quantity |-> LotSize(net, moq, multiple)]])
    BY <1>5, Zenon DEF ExecuteRun
  <2> DEFINE net == NetRequirement(gross, safety, onHand, expected)
             made == [status |-> "SUGGESTED", net |-> net, moq |-> moq,
                      multiple |-> multiple, quantity |-> LotSize(net, moq, multiple)]
             plan == IF net = 0 THEN rows.plans[r] ELSE made
  <2>3. net \in Nat /\ moq \in Nat /\ multiple \in Nat \ {0}
    BY <2>2, MaxAmountAssumption DEF NetRequirement
  <2>4. rows' = [rows EXCEPT !.runs[r].status = "COMPLETED", !.plans[r] = plan]
    BY <1>1, <2>2 DEF Commit, PlanningOk, PlanningShape
  <2>5. /\ DOMAIN made = {"status", "net", "quantity", "moq", "multiple"}
        /\ made.net = net /\ made.moq = moq /\ made.multiple = multiple
        /\ made.quantity = LotSize(net, moq, multiple)
    OBVIOUS
  <2>6. plan = rows.plans[r] \/ plan = made
    OBVIOUS
  <2> HIDE DEF plan, made, net
  <2>7. /\ DOMAIN rows' = DOMAIN rows /\ rows'.plans = [rows.plans EXCEPT ![r] = plan]
        /\ rows'.runs = [rows.runs EXCEPT ![r].status = "COMPLETED"]
    BY <1>1, <2>4 DEF PlanningOk, PlanningShape
  <2>8. rows'.plans[1] = plan /\ DOMAIN rows'.plans = {1}
    BY <1>1, <2>7 DEF PlanningOk, PlanningShape
  <2>9. DOMAIN rows'.runs = {1} /\ DOMAIN rows'.runs[1] = {"status"} /\ rows'.runs[1].status = "COMPLETED"
    BY <1>1, <2>7 DEF PlanningOk, PlanningShape
  <2>10. PlanningShape(rows')
    BY <1>1, <2>5, <2>6, <2>7, <2>8, <2>9 DEF PlanningOk, PlanningShape
  <2>11. PlanOk(rows')
    BY <1>1, <2>3, <2>5, <2>6, <2>8, <2>9 DEF PlanningOk, PlanOk
  <2> QED
    BY <2>10, <2>11 DEF PlanningOk
<1> QED
  BY <1>1, <1>2, <1>3, <1>4, <1>5

\* PlanningOk implies the property of the plans.
LEMMA PlansCoverShortageThen ==
  ASSUME rows.domain = "planning" => PlanningOk(rows)
  PROVE  PlansCoverShortage
<1> SUFFICES ASSUME rows.domain = "planning", NEW r \in DOMAIN rows.plans,
                    rows.plans[r].status # "NONE"
             PROVE  LET plan == rows.plans[r]
                    IN /\ rows.runs[r].status = "COMPLETED"
                       /\ plan.quantity >= plan.net /\ plan.quantity >= plan.moq
                       /\ plan.quantity % plan.multiple = 0
                       /\ \/ plan.quantity - plan.multiple < plan.net
                          \/ plan.quantity - plan.multiple < plan.moq
  BY DEF PlansCoverShortage
<1> DEFINE plan == rows.plans[r]
<1>1. r = 1 /\ PlanOk(rows)
  BY DEF PlanningOk, PlanningShape
<1>2. /\ rows.runs[r].status = "COMPLETED"
      /\ plan.net \in Nat /\ plan.moq \in Nat /\ plan.multiple \in Nat \ {0}
      /\ plan.quantity = LotSize(plan.net, plan.moq, plan.multiple)
  BY <1>1 DEF PlanOk
<1> HIDE DEF plan
<1>3. /\ plan.quantity >= plan.net /\ plan.quantity >= plan.moq
      /\ plan.quantity % plan.multiple = 0
      /\ \/ plan.quantity - plan.multiple < plan.net
         \/ plan.quantity - plan.multiple < plan.moq
  <2> DEFINE net == plan.net
             moq == plan.moq
             multiple == plan.multiple
  <2>1. /\ net \in Nat /\ moq \in Nat /\ multiple \in Nat \ {0}
        /\ plan.quantity = LotSize(net, moq, multiple)
    BY <1>2
  <2> SUFFICES /\ plan.quantity >= net /\ plan.quantity >= moq
               /\ plan.quantity % multiple = 0
               /\ plan.quantity - multiple < net \/ plan.quantity - multiple < moq
    OBVIOUS
  <2> HIDE DEF net, moq, multiple
  <2> DEFINE lots == LotSize(net, moq, multiple)
  <2>2. plan.quantity = lots
    BY <2>1
  <2>3. /\ lots >= net /\ lots >= moq
        /\ lots % multiple = 0
        /\ lots - multiple < net \/ lots - multiple < moq
    BY <2>1, LotsCover
  <2> HIDE DEF lots
  <2> QED
    BY <2>2, <2>3, Zenon
<1> QED
  BY <1>2, <1>3, Zenon DEF plan

LEMMA NoPlanningOk == PlanningOk(NoPlanning)
  BY DEF NoPlanning, PlanningOk, PlanningShape, PlanOk

-----------------------------------------------------------------------------
(* manufacturing: bills of material. *)

\* Numbers are well ordered, so what holds of 0 and of each next holds of all.
LEMMA FromZero ==
  ASSUME NEW P, 0 \in P, \A n \in Nat : n \in P => n + 1 \in P
  PROVE  Nat \subseteq P
<1> SUFFICES ASSUME Nat \ P # {} PROVE FALSE
  OBVIOUS
<1>1. IsWellFoundedOn(OpToRel(<, Nat), Nat)
  BY NatLessThanWellFounded, Zenon
<1>2. PICK n \in Nat \ P : \A m \in Nat \ P : ~ (<<m, n>> \in OpToRel(<, Nat))
  BY <1>1, WFMin, Zenon
<1>3. \A m \in Nat \ P : ~ (m < n)
  BY <1>2, Zenon DEF OpToRel
<1>4. n \in Nat /\ n \notin P /\ n # 0
  BY <1>2, Zenon
<1>5. n - 1 \in Nat /\ (n - 1) + 1 = n /\ n - 1 < n
  BY <1>4
<1>6. n - 1 \notin P
  BY <1>4, <1>5
<1> QED
  BY <1>3, <1>5, <1>6

\* g says what components are made of, depth by depth.
IsWithin(g, db, components, n) ==
  g = [depth \in 0..n |->
         IF depth = 0 THEN components
         ELSE g[depth - 1] \cup UNION {NeededFor(db, i) : i \in g[depth - 1]}]

LEMMA WithinExists ==
  ASSUME NEW db, NEW components
  PROVE  \A n \in Nat : \E g : IsWithin(g, db, components, n)
<1> DEFINE P == {n \in Nat : \E g : IsWithin(g, db, components, n)}
<1>1. 0 \in P
  <2>1. IsWithin([depth \in 0..0 |-> components], db, components, 0)
    BY DEF IsWithin
  <2> QED
    BY <2>1
<1>2. ASSUME NEW n \in Nat, n \in P PROVE n + 1 \in P
  <2>1. PICK g : IsWithin(g, db, components, n)
    BY <1>2
  <2> DEFINE next == g[n] \cup UNION {NeededFor(db, i) : i \in g[n]}
             h == [depth \in 0..(n + 1) |-> IF depth = n + 1 THEN next ELSE g[depth]]
  <2>2. \A depth \in 0..n : h[depth] = g[depth]
    OBVIOUS
  <2>3. h[n + 1] = next /\ h[n] = g[n]
    OBVIOUS
  <2>4. \A depth \in 0..n : g[depth] = IF depth = 0 THEN components
                             ELSE g[depth - 1] \cup UNION {NeededFor(db, i) : i \in g[depth - 1]}
    BY <2>1 DEF IsWithin
  <2>5. ASSUME NEW depth \in 0..(n + 1)
        PROVE  h[depth] = IF depth = 0 THEN components
                          ELSE h[depth - 1] \cup UNION {NeededFor(db, i) : i \in h[depth - 1]}
    <3>1. CASE depth = n + 1
      <4>1. depth # 0 /\ depth - 1 = n
        BY <3>1
      <4> QED
        BY <2>3, <3>1, <4>1
    <3>2. CASE depth # n + 1
      <4>1. depth \in 0..n /\ (depth # 0 => depth - 1 \in 0..n)
        BY <3>2
      <4> HIDE DEF h
      <4> QED
        BY <2>2, <2>4, <4>1
    <3> QED
      BY <3>1, <3>2
  <2>6. h = [depth \in 0..(n + 1) |-> h[depth]]
    OBVIOUS
  <2> HIDE DEF h, next
  <2>7. IsWithin(h, db, components, n + 1)
    BY <2>5, <2>6 DEF IsWithin
  <2> QED
    BY <2>7
<1>3. Nat \subseteq P
  <2> HIDE DEF P
  <2> QED
    BY <1>1, <1>2, FromZero
<1> QED
  BY <1>3

LEMMA MadeOfWithin ==
  ASSUME NEW db, NEW components, IsFiniteSet(Boms)
  PROVE  \E g : IsWithin(g, db, components, Cardinality(Boms)) /\ MadeOf(db, components) = g[Cardinality(Boms)]
<1> DEFINE g == CHOOSE f : IsWithin(f, db, components, Cardinality(Boms))
<1>1. Cardinality(Boms) \in Nat
  BY FS_CardinalityType
<1>2. IsWithin(g, db, components, Cardinality(Boms))
  BY <1>1, WithinExists
<1>3. MadeOf(db, components) = g[Cardinality(Boms)]
  BY DEF MadeOf, IsWithin
<1> QED
  BY <1>2, <1>3

\* What S contains, S contains the components of.
Closed(db, S) == \A i \in S : NeededFor(db, i) \subseteq S

\* Whatever components are made of is in every closed set they are in,
LEMMA MadeOfLeast ==
  ASSUME NEW db, NEW components, NEW S, components \subseteq S, Closed(db, S), IsFiniteSet(Boms)
  PROVE  MadeOf(db, components) \subseteq S
<1> DEFINE N == Cardinality(Boms)
<1>1. N \in Nat
  BY FS_CardinalityType
<1>2. PICK g : IsWithin(g, db, components, N) /\ MadeOf(db, components) = g[N]
  BY MadeOfWithin
<1>3. \A depth \in 0..N : g[depth] = IF depth = 0 THEN components
                           ELSE g[depth - 1] \cup UNION {NeededFor(db, i) : i \in g[depth - 1]}
  BY <1>2 DEF IsWithin
<1> HIDE DEF N
<1> DEFINE P == {n \in Nat : n <= N => g[n] \subseteq S}
<1>4. 0 \in P
  <2>1. 0 \in 0..N
    BY <1>1
  <2>2. g[0] = components
    BY <1>3, <2>1
  <2> QED
    BY <2>2
<1>5. ASSUME NEW n \in Nat, n \in P PROVE n + 1 \in P
  <2> SUFFICES ASSUME n + 1 <= N PROVE g[n + 1] \subseteq S
    OBVIOUS
  <2>1. g[n] \subseteq S
    BY <1>1, <1>5
  <2>2. g[n + 1] = g[n] \cup UNION {NeededFor(db, i) : i \in g[n]}
    <3>1. n + 1 \in 0..N /\ n + 1 # 0 /\ (n + 1) - 1 = n
      BY <1>1
    <3> QED
      BY <1>3, <3>1
  <2>3. \A i \in g[n] : NeededFor(db, i) \subseteq S
    BY <2>1 DEF Closed
  <2> QED
    BY <2>1, <2>2, <2>3
<1>6. Nat \subseteq P
  <2> HIDE DEF P
  <2> QED
    BY <1>4, <1>5, FromZero
<1>7. N \in P
  BY <1>1, <1>6
<1>8. g[N] \subseteq S
  BY <1>1, <1>7
<1> QED
  BY <1>2, <1>8

\* The items of every bill are among the items.
ItemsOk(db) == \A b \in Boms : db.boms[b].components \subseteq Boms

LEMMA NeededItems ==
  ASSUME NEW db, ItemsOk(db), NEW i
  PROVE  NeededFor(db, i) \subseteq Boms
  BY DEF ItemsOk, NeededFor

\* and is itself closed: with each depth that is not, there is one item more,
\* and there are no more than the items.
LEMMA MadeOfClosed ==
  ASSUME NEW db, ItemsOk(db), NEW components, components \subseteq Boms, IsFiniteSet(Boms)
  PROVE  /\ components \subseteq MadeOf(db, components)
         /\ Closed(db, MadeOf(db, components))
<1> DEFINE N == Cardinality(Boms)
<1>1. N \in Nat
  BY FS_CardinalityType
<1>2. PICK g : IsWithin(g, db, components, N) /\ MadeOf(db, components) = g[N]
  BY MadeOfWithin
<1>3. \A depth \in 0..N : g[depth] = IF depth = 0 THEN components
                           ELSE g[depth - 1] \cup UNION {NeededFor(db, i) : i \in g[depth - 1]}
  BY <1>2 DEF IsWithin
<1>4. \A S \in SUBSET Boms : IsFiniteSet(S) /\ Cardinality(S) <= N /\ (Cardinality(S) = N => S = Boms)
  BY FS_Subset
<1> HIDE DEF N
<1> DEFINE P == {n \in Nat : n <= N => /\ components \subseteq g[n] /\ g[n] \subseteq Boms
                                       /\ Closed(db, g[n]) \/ Cardinality(g[n]) >= n}
<1>5. 0 \in P
  <2>1. g[0] = components
    <3>1. 0 \in 0..N
      BY <1>1
    <3> QED
      BY <1>3, <3>1
  <2>2. Cardinality(components) \in Nat
    BY <1>4, FS_CardinalityType
  <2> QED
    BY <2>1, <2>2
<1>6. ASSUME NEW n \in Nat, n \in P PROVE n + 1 \in P
  <2> SUFFICES ASSUME n + 1 <= N
               PROVE  /\ components \subseteq g[n + 1] /\ g[n + 1] \subseteq Boms
                      /\ Closed(db, g[n + 1]) \/ Cardinality(g[n + 1]) >= n + 1
    OBVIOUS
  <2>1. /\ components \subseteq g[n] /\ g[n] \subseteq Boms
        /\ Closed(db, g[n]) \/ Cardinality(g[n]) >= n
    BY <1>1, <1>6
  <2>2. g[n + 1] = g[n] \cup UNION {NeededFor(db, i) : i \in g[n]}
    <3>1. n + 1 \in 0..N /\ n + 1 # 0 /\ (n + 1) - 1 = n
      BY <1>1
    <3> QED
      BY <1>3, <3>1
  <2>3. \A i \in g[n] : NeededFor(db, i) \subseteq Boms
    BY NeededItems
  <2>4. components \subseteq g[n + 1] /\ g[n + 1] \subseteq Boms
    BY <2>1, <2>2, <2>3
  <2>5. CASE Closed(db, g[n])
    <3>1. g[n + 1] = g[n]
      BY <2>2, <2>5 DEF Closed
    <3> QED
      BY <2>4, <2>5, <3>1
  <2>6. CASE ~ Closed(db, g[n])
    <3>1. PICK i \in g[n] : ~ (NeededFor(db, i) \subseteq g[n])
      BY <2>6 DEF Closed
    <3>2. PICK x \in g[n + 1] : x \notin g[n]
      BY <2>2, <3>1
    <3>3. IsFiniteSet(g[n]) /\ Cardinality(g[n]) \in Nat
      BY <1>4, <2>1, FS_CardinalityType
    <3>4. Cardinality(g[n] \cup {x}) = Cardinality(g[n]) + 1
      BY <3>2, <3>3, FS_AddElement
    <3>5. IsFiniteSet(g[n + 1]) /\ g[n] \cup {x} \subseteq g[n + 1]
      BY <1>4, <2>2, <2>4, <3>2
    <3>6. Cardinality(g[n] \cup {x}) <= Cardinality(g[n + 1]) /\ Cardinality(g[n + 1]) \in Nat
      BY <3>5, FS_Subset, FS_CardinalityType
    <3> QED
      BY <2>1, <2>4, <2>6, <3>3, <3>4, <3>6
  <2> QED
    BY <2>5, <2>6
<1>7. Nat \subseteq P
  <2> HIDE DEF P
  <2> QED
    BY <1>5, <1>6, FromZero
<1>8. N \in P
  BY <1>1, <1>7
<1>9. /\ components \subseteq g[N] /\ g[N] \subseteq Boms
      /\ Closed(db, g[N]) \/ Cardinality(g[N]) >= N
  BY <1>1, <1>8
<1>10. CASE Closed(db, g[N])
  BY <1>2, <1>9, <1>10
<1>11. CASE Cardinality(g[N]) >= N
  <2>1. Cardinality(g[N]) <= N /\ IsFiniteSet(g[N]) /\ (Cardinality(g[N]) = N => g[N] = Boms)
    BY <1>4, <1>9
  <2>2. Cardinality(g[N]) \in Nat
    BY <2>1, FS_CardinalityType
  <2>3. g[N] = Boms
    BY <1>1, <1>11, <2>1, <2>2
  <2> QED
    BY <1>2, <1>9, <2>3, NeededItems DEF Closed
<1> QED
  BY <1>9, <1>10, <1>11

\* No item is made of itself.
Acyclic(db) == \A i \in Boms : i \notin MadeOf(db, NeededFor(db, i))

\* An item that the components are not made of can be made of them.
LEMMA StaysAcyclic ==
  ASSUME NEW db, NEW new, ItemsOk(db), ItemsOk(new), IsFiniteSet(Boms), Acyclic(db),
         NEW item \in Boms, NEW components \in SUBSET Boms, item \notin MadeOf(db, components),
         \A i \in Boms \ {item} : NeededFor(new, i) \subseteq NeededFor(db, i),
         NeededFor(new, item) \subseteq NeededFor(db, item) \cup components
  PROVE  Acyclic(new)
<1> DEFINE M == MadeOf(db, components)
<1>1. components \subseteq M /\ Closed(db, M) /\ item \notin M
  BY MadeOfClosed
<1>2. \A i \in Boms : NeededFor(new, i) \subseteq Boms /\ NeededFor(db, i) \subseteq Boms
  BY NeededItems
<1>3. ASSUME NEW i \in Boms
      PROVE  /\ NeededFor(db, i) \subseteq MadeOf(db, NeededFor(db, i))
             /\ Closed(db, MadeOf(db, NeededFor(db, i))) /\ i \notin MadeOf(db, NeededFor(db, i))
  BY <1>2, <1>3, MadeOfClosed DEF Acyclic
<1>4. M \subseteq Boms
  <2>1. Closed(db, Boms)
    BY NeededItems DEF Closed
  <2> QED
    BY <2>1, MadeOfLeast
<1>5. \A i \in Boms : MadeOf(db, NeededFor(db, i)) \subseteq Boms
  <2>1. Closed(db, Boms)
    BY NeededItems DEF Closed
  <2> QED
    BY <1>2, <2>1, MadeOfLeast
<1> HIDE DEF M
<1>6. ASSUME NEW i \in Boms, i = item PROVE i \notin MadeOf(new, NeededFor(new, i))
  <2> DEFINE T == MadeOf(db, NeededFor(db, i)) \cup M
  <2>1. item \notin T
    BY <1>1, <1>3, <1>6
  <2>2. Closed(new, T)
    <3> SUFFICES ASSUME NEW j \in T PROVE NeededFor(new, j) \subseteq T
      BY DEF Closed
    <3>1. j \in Boms \ {item}
      BY <1>4, <1>5, <2>1
    <3>2. NeededFor(new, j) \subseteq NeededFor(db, j)
      BY <3>1
    <3>3. CASE j \in M
      BY <1>1, <3>2, <3>3 DEF Closed
    <3>4. CASE j \in MadeOf(db, NeededFor(db, i))
      BY <1>3, <3>2, <3>4 DEF Closed
    <3> QED
      BY <3>3, <3>4
  <2>3. NeededFor(new, i) \subseteq T
    BY <1>1, <1>3, <1>6
  <2> HIDE DEF T
  <2>4. MadeOf(new, NeededFor(new, i)) \subseteq T
    BY <2>2, <2>3, MadeOfLeast
  <2> QED
    BY <1>6, <2>1, <2>4
<1>7. ASSUME NEW i \in Boms, i # item PROVE i \notin MadeOf(new, NeededFor(new, i))
  <2> DEFINE D == MadeOf(db, NeededFor(db, i))
  <2>1. /\ NeededFor(db, i) \subseteq D /\ Closed(db, D) /\ i \notin D /\ D \subseteq Boms
        /\ NeededFor(new, i) \subseteq D
    BY <1>3, <1>5, <1>7
  <2>2. D \subseteq M \/ i \notin M
    <3>1. ASSUME i \in M PROVE D \subseteq M
      <4>1. NeededFor(db, i) \subseteq M
        BY <1>1, <3>1 DEF Closed
      <4> QED
        BY <1>1, <4>1, MadeOfLeast
    <3> QED
      BY <3>1
  <2> HIDE DEF D
  <2>3. CASE item \notin D
    <3>1. Closed(new, D)
      BY <2>1, <2>3 DEF Closed
    <3>2. MadeOf(new, NeededFor(new, i)) \subseteq D
      BY <2>1, <3>1, MadeOfLeast
    <3> QED
      BY <2>1, <3>2
  <2>4. CASE item \in D
    <3>1. i \notin M
      BY <1>1, <2>2, <2>4
    <3> DEFINE T == D \cup M
    <3>2. Closed(new, T)
      <4> SUFFICES ASSUME NEW j \in T PROVE NeededFor(new, j) \subseteq T
        BY DEF Closed
      <4>1. j \in Boms
        BY <1>4, <2>1
      <4>2. NeededFor(db, j) \subseteq T
        BY <1>1, <2>1 DEF Closed
      <4> QED
        BY <1>1, <4>1, <4>2
    <3>3. NeededFor(new, i) \subseteq T
      BY <2>1
    <3>4. i \notin T
      BY <2>1, <3>1
    <3> HIDE DEF T
    <3>5. MadeOf(new, NeededFor(new, i)) \subseteq T
      BY <3>2, <3>3, MadeOfLeast
    <3> QED
      BY <3>4, <3>5
  <2> QED
    BY <2>3, <2>4
<1> QED
  BY <1>6, <1>7 DEF Acyclic

\* The tables of the domain.
BomsShape(db) ==
  /\ DOMAIN db = {"domain", "boms", "usedBy", "relabelled"}
  /\ DOMAIN db.boms = Boms
  /\ \A b \in Boms : /\ DOMAIN db.boms[b] = {"status", "item", "components"}
                     /\ db.boms[b].item \in Boms /\ db.boms[b].components \subseteq Boms

\* Bills of material.
BomsOk(db) == BomsShape(db) /\ (~ db.relabelled => Acyclic(db))

\* A bill changes and no other: what it says is what is needed in addition.
LEMMA BillStep ==
  ASSUME NEW db, NEW new, BomsOk(db), BomsShape(new), IsFiniteSet(Boms), NEW b \in Boms,
         \A c \in Boms \ {b} : new.boms[c] = db.boms[c],
         new.relabelled = db.relabelled,
         \/ new.boms[b].status \notin {"DRAFT", "ACTIVE"}
         \/ new.boms[b].item \notin MadeOf(db, new.boms[b].components)
  PROVE  BomsOk(new)
<1> SUFFICES ASSUME ~ db.relabelled PROVE Acyclic(new)
  BY DEF BomsOk
<1>1. ItemsOk(db) /\ ItemsOk(new) /\ Acyclic(db)
  BY DEF BomsOk, BomsShape, ItemsOk
<1>2. new.boms[b].item \in Boms /\ new.boms[b].components \subseteq Boms
  BY DEF BomsShape
<1> DEFINE item == new.boms[b].item
           components == IF new.boms[b].status \in {"DRAFT", "ACTIVE"} THEN new.boms[b].components ELSE {}
<1>3. \A i \in Boms \ {item} : NeededFor(new, i) \subseteq NeededFor(db, i)
  BY DEF NeededFor
<1>4. NeededFor(new, item) \subseteq NeededFor(db, item) \cup components
  BY DEF NeededFor
<1>5. item \notin MadeOf(db, components)
  <2>1. CASE new.boms[b].status \in {"DRAFT", "ACTIVE"}
    BY <2>1
  <2>2. CASE new.boms[b].status \notin {"DRAFT", "ACTIVE"}
    <3>1. components = {} /\ Closed(db, {})
      BY <2>2 DEF Closed
    <3> HIDE DEF components
    <3>2. MadeOf(db, components) \subseteq {}
      BY <3>1, MadeOfLeast
    <3> QED
      BY <3>2
  <2> QED
    BY <2>1, <2>2
<1>6. item \in Boms /\ components \in SUBSET Boms
  BY <1>2
<1> HIDE DEF item, components
<1> QED
  BY <1>1, <1>3, <1>4, <1>5, <1>6, StaysAcyclic

\* Every handler of the bills preserves BomsOk.
LEMMA BomsStep ==
  ASSUME BomsOk(rows), NEW w \in Workers, requests[w].pc = "read" => Seen(w) = rows, BomsNext(w),
         IsFiniteSet(Boms)
  PROVE  BomsOk(rows')
<1>1. PICK b \in Boms : \/ CreateBom(w, b) \/ UpdateBom(w, b) \/ DeleteBom(w, b)
                        \/ ActivateBom(w, b) \/ DeactivateBom(w, b) \/ UseBom(w, b)
  BY DEF BomsNext
<1>2. BomsShape(rows)
  BY DEF BomsOk
<1>3. CASE CreateBom(w, b)
  <2>1. Seen(w) = rows
    BY <1>3 DEF CreateBom, Creates, At
  <2>2. PICK i \in Boms, components \in SUBSET Boms \ {{}} :
          /\ ~ CircularBom(Seen(w), i, components)
          /\ Commit(w, [rows EXCEPT !.boms[b] = [status |-> "DRAFT", item |-> i,
                                                 components |-> components]])
    BY <1>3, Zenon DEF CreateBom
  <2>3. /\ i \notin MadeOf(rows, components)
        /\ rows' = [rows EXCEPT !.boms[b] = [status |-> "DRAFT", item |-> i,
                                             components |-> components]]
    BY <2>1, <2>2 DEF CircularBom, Commit
  <2>4. /\ BomsShape(rows') /\ rows'.relabelled = rows.relabelled
        /\ \A c \in Boms \ {b} : rows'.boms[c] = rows.boms[c]
        /\ rows'.boms[b].item = i /\ rows'.boms[b].components = components
    BY <1>2, <2>2, <2>3 DEF BomsShape
  <2>5. rows'.boms[b].item \notin MadeOf(rows, rows'.boms[b].components)
    BY <2>3, <2>4, Zenon
  <2> QED
    BY <2>4, <2>5, BillStep
<1>4. CASE UpdateBom(w, b)
  <2>1. Seen(w) = rows
    BY <1>4 DEF UpdateBom, Changes, At
  <2>2. PICK i \in Boms :
          \/ \E components \in SUBSET Boms \ {{}} :
               /\ ~ CircularBom(Seen(w), i, components)
               /\ Commit(w, [rows EXCEPT !.boms[b].item = i, !.boms[b].components = components])
          \/ Commit(w, [rows EXCEPT !.boms[b].item = i, !.relabelled = TRUE])
    BY <1>4, Zenon DEF UpdateBom
  <2>3. ASSUME NEW components \in SUBSET Boms, ~ CircularBom(Seen(w), i, components),
               Commit(w, [rows EXCEPT !.boms[b].item = i, !.boms[b].components = components])
        PROVE  BomsOk(rows')
    <3>1. /\ i \notin MadeOf(rows, components)
          /\ rows' = [rows EXCEPT !.boms[b].item = i, !.boms[b].components = components]
      BY <2>1, <2>3 DEF CircularBom, Commit
    <3>2. /\ BomsShape(rows') /\ rows'.relabelled = rows.relabelled
          /\ \A c \in Boms \ {b} : rows'.boms[c] = rows.boms[c]
          /\ rows'.boms[b].item = i /\ rows'.boms[b].components = components
      BY <1>2, <2>3, <3>1 DEF BomsShape
    <3> QED
      BY <3>1, <3>2, BillStep
  <2>4. ASSUME Commit(w, [rows EXCEPT !.boms[b].item = i, !.relabelled = TRUE]) PROVE BomsOk(rows')
    <3>1. rows' = [rows EXCEPT !.boms[b].item = i, !.relabelled = TRUE]
      BY <2>4 DEF Commit
    <3> QED
      BY <1>2, <3>1 DEF BomsShape, BomsOk
  <2> QED
    BY <2>2, <2>3, <2>4
<1>5. CASE DeleteBom(w, b) \/ DeactivateBom(w, b)
  <2>1. PICK to : to \notin {"DRAFT", "ACTIVE"} /\ rows' = [rows EXCEPT !.boms[b].status = to]
    BY <1>5 DEF DeleteBom, DeactivateBom, SetStatus, Commit
  <2>2. /\ BomsShape(rows') /\ rows'.relabelled = rows.relabelled
        /\ \A c \in Boms \ {b} : rows'.boms[c] = rows.boms[c]
        /\ rows'.boms[b].status = to
    BY <1>2, <2>1 DEF BomsShape
  <2> QED
    BY <2>1, <2>2, BillStep
<1>6. CASE ActivateBom(w, b)
  <2>1. /\ ~ CircularBom(Seen(w), Seen(w).boms[b].item, Seen(w).boms[b].components)
        /\ Seen(w) = rows /\ rows' = [rows EXCEPT !.boms[b].status = "ACTIVE"]
    BY <1>6 DEF ActivateBom, SetStatus, Changes, At, Commit
  <2>2. /\ BomsShape(rows') /\ rows'.relabelled = rows.relabelled
        /\ \A c \in Boms \ {b} : rows'.boms[c] = rows.boms[c]
        /\ rows'.boms[b].item = rows.boms[b].item
        /\ rows'.boms[b].components = rows.boms[b].components
    BY <1>2, <2>1 DEF BomsShape
  <2>3. rows'.boms[b].item \notin MadeOf(rows, rows'.boms[b].components)
    BY <2>1, <2>2, Zenon DEF CircularBom
  <2> QED
    BY <2>2, <2>3, BillStep
<1>7. CASE UseBom(w, b)
  <2>1. PICK used : rows' = [rows EXCEPT !.usedBy = used]
    BY <1>2, <1>7 DEF UseBom, Commit, BomsShape
  <2>2. /\ BomsShape(rows') /\ rows'.relabelled = rows.relabelled /\ rows'.boms = rows.boms
    BY <1>2, <2>1 DEF BomsShape
  <2>3. \A components : MadeOf(rows', components) = MadeOf(rows, components)
    BY <2>2 DEF MadeOf, NeededFor
  <2>4. \A i : NeededFor(rows', i) = NeededFor(rows, i)
    BY <2>2 DEF NeededFor
  <2> QED
    BY <2>2, <2>3, <2>4 DEF BomsOk, Acyclic
<1> QED
  BY <1>1, <1>3, <1>4, <1>5, <1>6, <1>7

\* BomsOk implies the property of the bills.
LEMMA BomsAcyclicThen ==
  ASSUME rows.domain = "boms" => BomsOk(rows)
  PROVE  BomsAcyclic
  BY DEF BomsAcyclic, BomsOk, Acyclic

LEMMA NoBomsOk ==
  ASSUME IsFiniteSet(Boms)
  PROVE  BomsOk(NoBoms)
<1>1. BomsShape(NoBoms)
  BY DEF NoBoms, BomsShape
<1>2. \A i : NeededFor(NoBoms, i) = {}
  BY DEF NoBoms, NeededFor
<1>3. Closed(NoBoms, {})
  BY DEF Closed
<1>4. MadeOf(NoBoms, {}) \subseteq {}
  BY <1>3, MadeOfLeast
<1> QED
  BY <1>1, <1>2, <1>4 DEF BomsOk, Acyclic

-----------------------------------------------------------------------------
(* The domains together. *)

\* Where a behaviour about each of these domains starts.
Started(db) ==
  /\ "domain" \in DOMAIN db
  /\ db.domain = "expenses" => db = NoClaims
  /\ db.domain = "payroll" => db = NoPayroll
  /\ db.domain = "quotations" => db = NoQuotations
  /\ db.domain = "leads" => db = NoLeads
  /\ db.domain = "returns" => \E b : db = NoReturns(b)
  /\ db.domain = "quality" => \E b : db = NoQuality(b)
  /\ db.domain = "tickets" => db = NoTickets
  /\ db.domain = "repairs" => \E b : db = NoRepairs(b)
  /\ db.domain = "shipping" => db = NoShipping
  /\ db.domain = "warehouse" => \E kinds \in SUBSET WarehouseKinds : db = NoWarehouse(kinds)
  /\ db.domain = "production" => \E b : db = NoProduction(b)
  /\ db.domain = "planning" => db = NoPlanning
  /\ db.domain = "boms" => db = NoBoms

\* Every state a behaviour may start in is such a state.
LEMMA StartedAs ==
  ASSUME NEW db \in Start
  PROVE  Started(db)
<1>1. CASE db \in {NoSessions, NoAccess, NoLedger, NoPurchasing, NoAssets, NoBanking, NoBudgets,
                   NoCosting, NoBilling, NoNcrs, NoTax, NoWebhooks}
  BY <1>1 DEF Started, NoSessions, NoAccess, NoLedger, NoPurchasing, NoAssets, NoBanking, NoBudgets,
     NoCosting, NoBilling, NoNcrs, NoTax, NoWebhooks
<1>2. CASE db \in {NoNotifications, NoNumbering, NoCatalog, NoPricing, NoLocations,
                   NoStaff({1, 2, 3}, {1}), NoStaff({1}, {1, 2}), NoCompensations}
  BY <1>2 DEF Started, NoNotifications, NoNumbering, NoCatalog, NoPricing, NoLocations, NoStaff,
     NoCompensations
<1>3. CASE db \in {NoShipping, NoTickets, NoClaims, NoPayroll, NoQuotations, NoLeads, NoBoms,
                   NoPlanning}
  <2>1. /\ "domain" \in DOMAIN NoShipping /\ NoShipping.domain = "shipping"
        /\ "domain" \in DOMAIN NoTickets /\ NoTickets.domain = "tickets"
        /\ "domain" \in DOMAIN NoClaims /\ NoClaims.domain = "expenses"
        /\ "domain" \in DOMAIN NoPayroll /\ NoPayroll.domain = "payroll"
        /\ "domain" \in DOMAIN NoQuotations /\ NoQuotations.domain = "quotations"
        /\ "domain" \in DOMAIN NoLeads /\ NoLeads.domain = "leads"
        /\ "domain" \in DOMAIN NoBoms /\ NoBoms.domain = "boms"
        /\ "domain" \in DOMAIN NoPlanning /\ NoPlanning.domain = "planning"
    BY DEF NoShipping, NoTickets, NoClaims, NoPayroll, NoQuotations, NoLeads, NoBoms, NoPlanning
  <2> QED
    BY <1>3, <2>1 DEF Started
<1>4. ASSUME NEW kind, db = NoParty(kind) PROVE Started(db)
  BY <1>4 DEF Started, NoParty
<1>5. ASSUME NEW kinds \in SUBSET WarehouseKinds, db = NoWarehouse(kinds) PROVE Started(db)
  <2>1. "domain" \in DOMAIN db /\ db.domain = "warehouse"
    BY <1>5 DEF NoWarehouse
  <2> QED
    BY <1>5, <2>1 DEF Started
<1>6. ASSUME NEW b, db \in {NoSubscriptions(b), NoImport(b)} PROVE Started(db)
  BY <1>6 DEF Started, NoSubscriptions, NoImport
<1>7. ASSUME NEW b, db \in {NoProduction(b), NoReturns(b), NoRepairs(b), NoQuality(b)}
      PROVE  Started(db)
  <2>1. /\ "domain" \in DOMAIN NoReturns(b) /\ NoReturns(b).domain = "returns"
        /\ "domain" \in DOMAIN NoRepairs(b) /\ NoRepairs(b).domain = "repairs"
        /\ "domain" \in DOMAIN NoQuality(b) /\ NoQuality(b).domain = "quality"
        /\ "domain" \in DOMAIN NoProduction(b) /\ NoProduction(b).domain = "production"
    BY DEF NoReturns, NoRepairs, NoQuality, NoProduction
  <2> QED
    BY <1>7, <2>1 DEF Started
<1>8. CASE db \in {NoSessions, NoAccess, NoLedger, NoPurchasing, NoBoms, NoPlanning, NoShipping,
                   NoTickets, NoClaims, NoAssets, NoPayroll, NoBanking, NoBudgets, NoQuotations,
                   NoLeads, NoCosting, NoBilling, NoNcrs, NoTax, NoWebhooks, NoNotifications,
                   NoNumbering, NoCatalog, NoPricing, NoLocations, NoStaff({1, 2, 3}, {1}),
                   NoStaff({1}, {1, 2}), NoCompensations}
  BY <1>1, <1>2, <1>3, <1>8
<1>9. CASE db \in {NoParty(kind) : kind \in PartyKinds}
  BY <1>4, <1>9
<1>10. CASE db \in {NoWarehouse(kinds) :
                      kinds \in {K \in SUBSET WarehouseKinds : Cardinality(K) \in 1..2}}
  BY <1>5, <1>10
<1>11. CASE db \in UNION {{NoProduction(b), NoReturns(b), NoRepairs(b), NoSubscriptions(b),
                          NoImport(b), NoQuality(b)} : b \in BOOLEAN}
  BY <1>6, <1>7, <1>11
<1> QED
  BY <1>8, <1>9, <1>10, <1>11 DEF Start

\* An organization that starts with no documents has those of each domain in
\* order.
LEMMA NoClaimsOk == ClaimsOk(NoClaims)
  BY DEF NoClaims, ClaimsOk, ClaimsShape, EachClaimOk, ClaimOk, PayableOk, Outstanding, Owed

LEMMA NoPayrollOk == PayrollOk(NoPayroll)
<1>1. \A r \in {1, 2} : NoPayroll.payrolls[r] = NoRun
  BY DEF NoPayroll
<1>2. PayrollShape(NoPayroll)
  BY DEF NoPayroll, PayrollShape
<1>3. RunOk(NoRun) /\ NoRun.status = "NONE" /\ NoRun.paid = FALSE
  BY DEF NoRun, RunOk
<1>4. /\ NoPayroll.periods[1].status = "NONE" /\ NoPayroll.journal.count = 0
      /\ NoPayroll.journal.debit = 0 /\ NoPayroll.paidOut = 0
  BY DEF NoPayroll
<1>5. EachRunOk(NoPayroll) /\ PeriodOk(NoPayroll) /\ OneIsSettled(NoPayroll)
  BY <1>1, <1>3, <1>4 DEF EachRunOk, PeriodOk, OneIsSettled
<1>6. PostedOk(NoPayroll)
  BY <1>1, <1>3, <1>4 DEF PostedOk
<1> QED
  BY <1>2, <1>5, <1>6 DEF PayrollOk

LEMMA NoQuotationsOk == QuotationsOk(NoQuotations) /\ LeadsOk(NoLeads)
  BY DEF NoQuotations, QuotationsOk, NoLeads, LeadsOk

LEMMA NoReturnsOk == \A b : ReturnsOk(NoReturns(b))
<1>1. RmaOk(NoRma)
  BY DEF NoRma, RmaOk
<1> QED
  BY <1>1 DEF NoReturns, ReturnsOk, ReturnsShape, EachRmaOk

LEMMA NoQualityOk == ASSUME NEW b PROVE QualityOk(NoQuality(b))
<1>1. Measured(NoQuality(b).results) = {} /\ FailedSamples(NoQuality(b).results) = {}
  BY DEF NoQuality, Measured, FailedSamples
<1>2. Cardinality({}) = 0
  BY FS_EmptySet, Zenon
<1>3. QualityShape(NoQuality(b))
  BY DEF NoQuality, QualityShape
<1>4. /\ NoQuality(b).lots[1].failed = 0 /\ NoQuality(b).lots[1].inspected = 0
      /\ NoQuality(b).lots[1].passed = 0 /\ NoQuality(b).lots[1].decision = "-"
      /\ NoQuality(b).lots[1].status = "NONE" /\ NoQuality(b).holds[1].status = "NONE"
  BY DEF NoQuality
<1>5. CountsOk(NoQuality(b))
  BY <1>1, <1>2, <1>4 DEF CountsOk
<1>6. DecisionOk(NoQuality(b))
  BY <1>4 DEF DecisionOk
<1> QED
  BY <1>3, <1>5, <1>6 DEF QualityOk

LEMMA NoTicketsOk == TicketsOk(NoTickets)
  BY DEF NoTickets, TicketsOk, TicketsShape, IntakeOk, ApprovedOk

LEMMA NoRepairsOk == \A b : RepairsOk(NoRepairs(b))
  BY DEF NoRepairs, RepairsOk, RepairsShape, PartsOk, CostsOk, NoPart, NetIssued

LEMMA NoShippingOk == ShippingOk(NoShipping)
  BY MaxAmountAssumption DEF NoShipping, ShippingOk, ShippingShape, Carried

LEMMA NoWarehouseOk ==
  ASSUME NEW kinds \in SUBSET WarehouseKinds
  PROVE  WarehouseOk(NoWarehouse(kinds))
<1> DEFINE db == NoWarehouse(kinds)
<1>1. WarehouseShape(db)
  BY InitialStockAssumption DEF NoWarehouse, NoDocument, WarehouseShape
<1>2. /\ db.kinds = kinds /\ \A k \in kinds : db.moved[k] = 0
      /\ \A k \in kinds : db.documents[k].status # "COMPLETED" /\ db.documents[k].done = 0
      /\ db.stock.destination = 0 /\ db.stock.source = InitialStock
  BY DEF NoWarehouse, NoDocument
<1> HIDE DEF db
<1>3. IsFiniteSet(Movers(db)) /\ IsFiniteSet(db.kinds \cap {"count"})
  BY <1>1, KindsFinite
<1>4. (\A k \in Movers(db) : db.moved[k] = 0) /\ \A k \in db.kinds \cap {"count"} : db.moved[k] = 0
  BY <1>2 DEF Movers
<1>5. MovedOut(db) = 0
  BY <1>3, <1>4, SumZero DEF MovedOut
<1>6. Corrected(db) = 0
  BY <1>3, <1>4, SumZero DEF Corrected
<1>7. StockMoved(db)
  BY <1>2, <1>5, <1>6, InitialStockAssumption DEF StockMoved
<1>8. MovedOnce(db)
  BY <1>2 DEF MovedOnce, Movers
<1> QED
  BY <1>1, <1>7, <1>8 DEF WarehouseOk, db

-----------------------------------------------------------------------------
\* The domains in which one request at a time is handled have their documents
\* in order.
DocumentsOk(db) ==
  /\ db.domain = "expenses" => ClaimsOk(db)
  /\ db.domain = "payroll" => PayrollOk(db)
  /\ db.domain = "quotations" => QuotationsOk(db)
  /\ db.domain = "leads" => LeadsOk(db)
  /\ db.domain = "returns" => ReturnsOk(db)
  /\ db.domain = "quality" => QualityOk(db)
  /\ db.domain = "tickets" => TicketsOk(db)
  /\ db.domain = "repairs" => RepairsOk(db)
  /\ db.domain = "shipping" => ShippingOk(db)
  /\ db.domain = "warehouse" => WarehouseOk(db)
  /\ db.domain = "production" => ProductionOk(db)
  /\ db.domain = "planning" => PlanningOk(db)
  /\ db.domain = "boms" => BomsOk(db)

\* A request that has converted a quotation, and has still to say so to the
\* opportunity, left it converted.
CrmOk ==
  rows.domain = "quotations" =>
    \A w \in Workers :
      requests[w].pc = "crmConverted" => rows.quotations[1].status = "CONVERTED"

\* The inductive invariant.
OfficeInv == Ready /\ (rows.domain \notin Overlapping => DocumentsOk(rows) /\ CrmOk)

\* It holds at the start,
LEMMA StartedOk ==
  ASSUME NEW db, Started(db)
  PROVE  DocumentsOk(db)
<1>1. /\ db.domain = "expenses" => ClaimsOk(db)
      /\ db.domain = "payroll" => PayrollOk(db)
      /\ db.domain = "quotations" => QuotationsOk(db)
      /\ db.domain = "leads" => LeadsOk(db)
      /\ db.domain = "tickets" => TicketsOk(db)
      /\ db.domain = "shipping" => ShippingOk(db)
  BY NoClaimsOk, NoPayrollOk, NoQuotationsOk, NoTicketsOk, NoShippingOk DEF Started
<1>2. /\ db.domain = "returns" => ReturnsOk(db)
      /\ db.domain = "quality" => QualityOk(db)
      /\ db.domain = "repairs" => RepairsOk(db)
  BY NoReturnsOk, NoQualityOk, NoRepairsOk DEF Started
<1>3. db.domain = "warehouse" => WarehouseOk(db)
  BY NoWarehouseOk DEF Started
<1>4. /\ db.domain = "production" => ProductionOk(db)
      /\ db.domain = "planning" => PlanningOk(db)
      /\ db.domain = "boms" => BomsOk(db)
  BY NoProductionOk, NoPlanningOk, NoBomsOk, BomsAssumption DEF Started
<1> QED
  BY <1>1, <1>2, <1>3, <1>4 DEF DocumentsOk

LEMMA OfficeInit == Init => OfficeInv
<1> SUFFICES ASSUME Init PROVE OfficeInv
  OBVIOUS
<1>1. Started(rows)
  BY StartedAs DEF Init
<1>2. DocumentsOk(rows)
  BY <1>1, StartedOk
<1>3. Ready
  BY <1>1 DEF Init, Ready, Started, Idle
<1>4. CrmOk
  BY DEF Init, CrmOk, Idle
<1> QED
  BY <1>2, <1>3, <1>4 DEF OfficeInv

\* every handler preserves the order of the documents,
LEMMA DocumentsStep ==
  ASSUME NEW w \in Workers, Fresh(w), Handled(w), Keeps(w), DocumentsOk(rows), CrmOk,
         rows.domain \notin Overlapping
  PROVE  DocumentsOk(rows')
<1>1. requests[w].pc = "read" => Seen(w) = rows
  BY DEF Fresh
<1>2. rows'.domain = rows.domain
  BY DEF Keeps
<1>3. CASE rows.domain = "expenses"
  BY <1>1, <1>2, <1>3, ClaimsStep DEF DocumentsOk, Handled
<1>4. CASE rows.domain = "payroll"
  BY <1>1, <1>2, <1>4, PayrollStep DEF DocumentsOk, Handled
<1>5. CASE rows.domain = "quotations"
  <2>1. QuotationsOk(rows) /\ QuotationsNext(w)
    BY <1>5 DEF DocumentsOk, Handled
  <2>2. requests[w].pc = "crmConverted" => rows.quotations[1].status = "CONVERTED"
    BY <1>5 DEF CrmOk
  <2>3. QuotationsOk(rows')
    BY <1>1, <2>1, <2>2, QuotationsStep
  <2> QED
    BY <1>2, <1>5, <2>3 DEF DocumentsOk
<1>6. CASE rows.domain = "leads"
  BY <1>1, <1>2, <1>6, LeadsStep DEF DocumentsOk, Handled
<1>7. CASE rows.domain = "returns"
  BY <1>1, <1>2, <1>7, ReturnsStep DEF DocumentsOk, Handled
<1>8. CASE rows.domain = "quality"
  BY <1>1, <1>2, <1>8, QualityStep DEF DocumentsOk, Handled
<1>9. CASE rows.domain = "tickets"
  BY <1>1, <1>2, <1>9, TicketsStep DEF DocumentsOk, Handled
<1>10. CASE rows.domain = "repairs"
  BY <1>1, <1>2, <1>10, RepairsStep DEF DocumentsOk, Handled
<1>11. CASE rows.domain = "shipping"
  BY <1>1, <1>2, <1>11, ShippingStep DEF DocumentsOk, Handled
<1>12. CASE rows.domain = "warehouse"
  BY <1>1, <1>2, <1>12, WarehouseStep DEF DocumentsOk, Handled
<1>13. CASE rows.domain = "production"
  BY <1>1, <1>2, <1>13, ProductionStep DEF DocumentsOk, Handled
<1>14. CASE rows.domain = "planning"
  BY <1>1, <1>2, <1>14, PlanningStep DEF DocumentsOk, Handled
<1>15. CASE rows.domain = "boms"
  BY <1>1, <1>2, <1>15, BomsStep, BomsAssumption DEF DocumentsOk, Handled
<1> QED
  BY <1>2, <1>3, <1>4, <1>5, <1>6, <1>7, <1>8, <1>9, <1>10, <1>11, <1>12, <1>13, <1>14, <1>15
     DEF DocumentsOk

\* and what a conversion in two transactions relies on,
LEMMA CrmStep ==
  ASSUME NEW w \in Workers, Ready, Fresh(w), Handled(w), Keeps(w), DocumentsOk(rows), CrmOk,
         rows.domain \notin Overlapping
  PROVE  CrmOk'
<1>1. rows'.domain = rows.domain /\ \A v \in Workers : v # w => requests'[v] = requests[v]
  BY DEF Keeps, Ready
<1> SUFFICES ASSUME rows.domain = "quotations", NEW v \in Workers, requests'[v].pc = "crmConverted"
             PROVE  rows'.quotations[1].status = "CONVERTED"
  BY <1>1 DEF CrmOk
<1>2. QuotationsOk(rows) /\ QuotationsNext(w)
  BY DEF DocumentsOk, Handled
<1>3. CASE v = w
  BY <1>2, <1>3, CrmConvertedAfter DEF Ready
<1>4. CASE v # w
  <2>1. rows.quotations[1].status = "CONVERTED"
    BY <1>1, <1>4 DEF CrmOk
  <2>2. requests[w].pc = "read" => Seen(w) = rows
    BY DEF Fresh
  <2>3. requests[w].pc = "crmConverted" => rows.quotations[1].status = "CONVERTED"
    BY DEF CrmOk
  <2> QED
    BY <1>2, <2>1, <2>2, <2>3, QuotationsStep
<1> QED
  BY <1>3, <1>4

\* so that every step preserves the invariant.
LEMMA OfficeNext ==
  ASSUME OfficeInv, [Next]_vars
  PROVE  OfficeInv'
<1>1. Ready /\ Ready'
  BY ReadyStep DEF OfficeInv
<1>2. CASE rows' = rows /\ \A v \in Workers : requests'[v] = requests[v] \/ requests'[v].pc \in {"idle", "read"}
  BY <1>1, <1>2 DEF OfficeInv, CrmOk
<1>3. ASSUME NEW w \in Workers, Fresh(w), Handled(w), Keeps(w) PROVE OfficeInv'
  <2>1. rows'.domain = rows.domain
    BY <1>3 DEF Keeps
  <2> SUFFICES ASSUME rows.domain \notin Overlapping PROVE DocumentsOk(rows)' /\ CrmOk'
    BY <1>1, <2>1 DEF OfficeInv
  <2>2. DocumentsOk(rows')
    BY <1>3, DocumentsStep DEF OfficeInv
  <2>3. CrmOk'
    BY <1>1, <1>3, CrmStep DEF OfficeInv
  <2> QED
    BY <2>2, <2>3
<1> QED
  BY <1>1, <1>2, <1>3, StepCases

\* Whatever the constants are, the rows and the requests of the domains that
\* do not overlap satisfy the inductive invariant.
THEOREM OfficeInvariance == Spec => []OfficeInv
<1>1. Init => OfficeInv
  BY OfficeInit
<1>2. OfficeInv /\ [Next]_vars => OfficeInv'
  BY OfficeNext
<1> QED
  BY <1>1, <1>2, PTL DEF Spec

\* Where requests about claims and payroll do not overlap, what the ledger owes
\* claimants is what was posted, not voided and not paid out; what is paid and
\* what is due make up a claim's total; and however often a period is
\* calculated, one run of it is approved, posted and paid.
THEOREM StaffSafety ==
  ASSUME {"expenses", "payroll"} \cap Overlapping = {}
  PROVE  Spec => []StaffArePaidOnce
<1>1. OfficeInv => StaffArePaidOnce
  BY ClaimsAddUpThen, PayrollOnceThen DEF OfficeInv, DocumentsOk, StaffArePaidOnce
<1> QED
  BY <1>1, OfficeInvariance, PTL

\* Where requests about quotations and leads do not overlap, a quotation becomes
\* at most one order, of the lines that were accepted, and stays CONVERTED; and
\* a lead becomes at most one opportunity.
THEOREM ConversionSafety ==
  ASSUME {"quotations", "leads"} \cap Overlapping = {}
  PROVE  Spec => []ConvertsOnce
<1>1. OfficeInv => ConvertsOnce
  BY ConvertsOnceThen DEF OfficeInv, DocumentsOk
<1> QED
  BY <1>1, OfficeInvariance, PTL

\* Where requests about returns and inspections do not overlap, no more of a
\* return is disposed of than was authorized, nor than has arrived; and a lot
\* counts what was measured last, is accepted only if it passed, and is on hold
\* or has its NCR if it was not accepted.
THEOREM ReturnsSafety ==
  ASSUME {"returns", "quality"} \cap Overlapping = {}
  PROVE  Spec => []InspectedAndReturned
<1>1. OfficeInv => InspectedAndReturned
  BY DisposedOnceThen, DecisionsAreFoundedThen DEF OfficeInv, DocumentsOk, InspectedAndReturned
<1> QED
  BY <1>1, OfficeInvariance, PTL

\* Where requests about tickets and repairs do not overlap, a converted intake
\* request has one ticket, a ticket is approved by an estimate or a diagnosis
\* under warranty, and the cost and the charge of a repair are those of the parts
\* that stayed in it and of its labor.
THEOREM ServiceSafety ==
  ASSUME {"tickets", "repairs"} \cap Overlapping = {}
  PROVE  Spec => []ServiceAddsUp
<1>1. OfficeInv => ServiceAddsUp
  BY TicketsHaveOriginsThen, RepairAddsUpThen DEF OfficeInv, DocumentsOk, ServiceAddsUp
<1> QED
  BY <1>1, OfficeInvariance, PTL

\* Where requests about the warehouse and shipments do not overlap, a document
\* has moved its quantity when it is completed and nothing otherwise, the stock
\* is what the documents and the counts have made of it, and the shipments that
\* are not cancelled carry no more than the delivery.
THEOREM GoodsSafety ==
  ASSUME {"warehouse", "shipping"} \cap Overlapping = {}
  PROVE  Spec => []GoodsLeaveOnce
<1>1. OfficeInv => GoodsLeaveOnce
  BY GoodsMoveOnceThen, ShippedWithinDeliveryThen DEF OfficeInv, DocumentsOk, GoodsLeaveOnce
<1> QED
  BY <1>1, OfficeInvariance, PTL

\* Where requests about production, bills and plans do not overlap, an order
\* has used and produced what the stock lost and gained, and is completed when
\* it has produced its plan; no product needs itself through its bills; and what
\* MRP plans covers the shortage in whole lots and not one lot more.
THEOREM PlanSafety ==
  ASSUME {"production", "planning", "boms"} \cap Overlapping = {}
  PROVE  Spec => []MakesWhatIsPlanned
<1>1. OfficeInv => MakesWhatIsPlanned
  BY ProductionConservesThen, PlansCoverShortageThen, BomsAcyclicThen
     DEF OfficeInv, DocumentsOk, MakesWhatIsPlanned
<1> QED
  BY <1>1, OfficeInvariance, PTL
=============================================================================
