----------------------------- MODULE Warehouse -----------------------------
(***************************************************************************)
(* warehouse/ and inventory/transfers: documents that move stock between   *)
(* two locations, and counts that correct it.  A balance is read, computed *)
(* and written back (applyStockMovement), so it is computed from Seen.     *)
(* Of the kinds of documents, those in rows.kinds are in use.              *)
(***************************************************************************)
EXTENDS Handlers

WarehouseKinds ==
  {"stockTransfer", "transfer", "putaway", "replenishment", "pick", "wave", "count",
   "task", "quarantine"}

CONSTANT InitialStock      \* on hand at the source location at first

ASSUME InitialStockAssumption == InitialStock \in Nat

\* quantity: to be moved; done: of it picked, or the variance that was counted;
\* system: the balance a count started from.
NoDocument == [status |-> "NONE", quantity |-> 0, done |-> 0, system |-> 0]

NoWarehouse(kinds) ==
  [domain |-> "warehouse", kinds |-> kinds,
   documents |-> [k \in kinds |-> NoDocument],
   moved |-> [k \in kinds |-> 0],
   stock |-> [source |-> InitialStock, destination |-> 0]]

\* Two stock movements, out of the source and into the destination.  The issue
\* needs the quantity on hand.
CanMove(w, n) == n <= Seen(w).stock.source

Moved(w, k, n) ==
  [rows EXCEPT !.stock = [source |-> Seen(w).stock.source - n,
                          destination |-> Seen(w).stock.destination + n],
               !.moved[k] = @ + n]

InUse(k) == rows.domain = "warehouse" /\ k \in rows.kinds

CreateDocument(w, k, statuses) ==
  /\ InUse(k)
  /\ Creates(w, "documents", k)
  /\ \E n \in Amounts, status \in statuses :
       Commit(w, [rows EXCEPT !.documents[k].status = status,
                              !.documents[k].quantity = n])

\* Moves what the document says and finishes it.
CompleteDocument(w, k, from, to) ==
  LET n == Seen(w).documents[k].quantity
  IN /\ Changes(w, "documents", k, from)
     /\ CanMove(w, n)
     /\ Commit(w, [Moved(w, k, n) EXCEPT !.documents[k].status = to])

SetDocument(w, k, from, to) == InUse(k) /\ SetStatus(w, "documents", k, from, to)

-----------------------------------------------------------------------------
(* inventory/transfers *)

CreateStockTransfer(w) == CreateDocument(w, "stockTransfer", {"DRAFT"})

CompleteStockTransfer(w) ==
  InUse("stockTransfer") /\ CompleteDocument(w, "stockTransfer", {"DRAFT"}, "COMPLETED")

CancelStockTransfer(w) == SetDocument(w, "stockTransfer", {"DRAFT"}, "CANCELLED")

-----------------------------------------------------------------------------
(* warehouse/transfers: only completion looks at what was completed before *)

OpenTransfer == {"DRAFT", "SUBMITTED", "APPROVED", "IN_PROGRESS"}

CreateTransfer(w) == CreateDocument(w, "transfer", {"DRAFT"})
SubmitTransfer(w) == SetDocument(w, "transfer", {"DRAFT"}, "SUBMITTED")
ApproveTransfer(w) == SetDocument(w, "transfer", {"SUBMITTED", "DRAFT"}, "APPROVED")
RejectTransfer(w) == SetDocument(w, "transfer", OpenTransfer \cup {"REJECTED"}, "REJECTED")
StartTransfer(w) == SetDocument(w, "transfer", {"APPROVED"}, "IN_PROGRESS")

\* Mutant: a cancelled transfer can be completed.
CompleteAnyTransfer(w) ==
  /\ InUse("transfer")
  /\ CompleteDocument(w, "transfer", OpenTransfer \cup {"COMPLETED"}, "COMPLETED")

CompleteTransfer(w) ==
  InUse("transfer") /\ CompleteDocument(w, "transfer", OpenTransfer, "COMPLETED")

CancelTransfer(w) ==
  SetDocument(w, "transfer", OpenTransfer \cup {"REJECTED", "CANCELLED"}, "CANCELLED")

-----------------------------------------------------------------------------
(* warehouse/putaway and warehouse/tasks share their statuses *)

OpenTask == {"PENDING", "ASSIGNED", "IN_PROGRESS"}

CreatePutaway(w) == CreateDocument(w, "putaway", {"PENDING", "ASSIGNED"})
AssignPutaway(w) == SetDocument(w, "putaway", {"PENDING"}, "ASSIGNED")
StartPutaway(w) == SetDocument(w, "putaway", OpenTask, "IN_PROGRESS")

CompletePutaway(w) ==
  InUse("putaway") /\ CompleteDocument(w, "putaway", OpenTask, "COMPLETED")

CancelPutaway(w) == SetDocument(w, "putaway", OpenTask \cup {"CANCELLED"}, "CANCELLED")

CreateTask(w) == CreateDocument(w, "task", {"PENDING", "ASSIGNED"})
AssignTask(w) == SetDocument(w, "task", {"PENDING"}, "ASSIGNED")
StartTask(w) == SetDocument(w, "task", OpenTask, "IN_PROGRESS")
CompleteTask(w) == SetDocument(w, "task", OpenTask, "COMPLETED")
CancelTask(w) == SetDocument(w, "task", OpenTask \cup {"CANCELLED"}, "CANCELLED")

-----------------------------------------------------------------------------
(* warehouse/replenishment: a rule keeps the destination between bounds *)

MinQuantity == 1

GenerateReplenishment(w) ==
  LET current == Seen(w).stock.destination
  IN /\ InUse("replenishment")
     /\ Creates(w, "documents", "replenishment")
     /\ current < MinQuantity
     /\ Commit(w, [rows EXCEPT !.documents["replenishment"].status = "PENDING",
                               !.documents["replenishment"].quantity = MaxAmount - current])

CompleteReplenishment(w) ==
  /\ InUse("replenishment")
  /\ CompleteDocument(w, "replenishment", {"PENDING", "IN_PROGRESS"}, "COMPLETED")

CancelReplenishment(w) ==
  SetDocument(w, "replenishment", {"PENDING", "IN_PROGRESS", "CANCELLED"}, "CANCELLED")

-----------------------------------------------------------------------------
(* warehouse/picking: tasks picked in parts, to a staging location; waves *)

OpenPick == {"PENDING", "ASSIGNED", "IN_PROGRESS", "PARTIALLY_PICKED"}

CreatePick(w) == CreateDocument(w, "pick", {"PENDING", "ASSIGNED"})
AssignPick(w) == SetDocument(w, "pick", {"PENDING"}, "ASSIGNED")
StartPick(w) == SetDocument(w, "pick", OpenPick, "IN_PROGRESS")

ExecutePick(w) ==
  LET task == Seen(w).documents["pick"]
  IN /\ InUse("pick")
     /\ Changes(w, "documents", "pick", OpenPick)
     /\ \E n \in 1..(task.quantity - task.done) :
          /\ CanMove(w, n)
          /\ Commit(w, [Moved(w, "pick", n) EXCEPT
               !.documents["pick"].done = task.done + n,
               !.documents["pick"].status =
                  IF task.done + n = task.quantity THEN "PICKED" ELSE "PARTIALLY_PICKED"])

CancelPick(w) == SetDocument(w, "pick", OpenPick \cup {"CANCELLED"}, "CANCELLED")

OpenWave == {"DRAFT", "RELEASED", "CANCELLED"}

CreateWave(w) == CreateDocument(w, "wave", {"DRAFT"})
ReleaseWave(w) == SetDocument(w, "wave", {"DRAFT"}, "RELEASED")
CompleteWave(w) == SetDocument(w, "wave", OpenWave, "COMPLETED")
CancelWave(w) == SetDocument(w, "wave", OpenWave, "CANCELLED")

-----------------------------------------------------------------------------
(* warehouse/counts: what is posted is the difference to the balance at    *)
(* the time the count was created, as a movement at the source location    *)

CreateCount(w) ==
  /\ InUse("count")
  /\ Creates(w, "documents", "count")
  /\ Commit(w, [rows EXCEPT !.documents["count"].status = "DRAFT",
                            !.documents["count"].system = Seen(w).stock.source])

StartCount(w) ==
  SetDocument(w, "count", {"DRAFT", "IN_PROGRESS", "COUNTED", "REVIEWED"}, "IN_PROGRESS")

\* The lines are updated one statement at a time, then the status.
Counted(w, status) ==
  \E n \in 0..InitialStock :
    Commit(w, [rows EXCEPT !.documents["count"].status = status,
                           !.documents["count"].done = n - Seen(w).documents["count"].system])

RecordCount(w) ==
  /\ InUse("count")
  /\ Changes(w, "documents", "count", {"DRAFT", "IN_PROGRESS", "COUNTED", "REVIEWED"})
  /\ Counted(w, "COUNTED")

\* recount() checks no status: the lines of a posted count can change.
RecountCount(w) ==
  /\ InUse("count")
  /\ At(w, "read") /\ Seen(w).documents["count"].status # "NONE"
  /\ Counted(w, rows.documents["count"].status)

ReviewCount(w) == SetDocument(w, "count", {"COUNTED"}, "REVIEWED")

PostCount(w) ==
  LET variance == Seen(w).documents["count"].done
  IN /\ InUse("count")
     /\ Changes(w, "documents", "count", {"COUNTED", "REVIEWED"})
     /\ Seen(w).stock.source + variance >= 0
     /\ Commit(w, [rows EXCEPT !.documents["count"].status = "POSTED",
                               !.stock.source = Seen(w).stock.source + variance,
                               !.moved["count"] = @ + variance])

CancelCount(w) ==
  SetDocument(w, "count", {"DRAFT", "IN_PROGRESS", "COUNTED", "REVIEWED", "CANCELLED"},
              "CANCELLED")

-----------------------------------------------------------------------------
(* warehouse/stock: quarantine is a record beside the stock, which stays on *)
(* hand; the same stock can be quarantined, and moved, any number of times  *)

QuarantineStock(w) ==
  /\ InUse("quarantine")
  /\ Creates(w, "documents", "quarantine")
  /\ \E n \in Amounts :
       /\ CanMove(w, n)
       /\ Commit(w, [rows EXCEPT !.documents["quarantine"].status = "QUARANTINED",
                                 !.documents["quarantine"].quantity = n])

OpenQuarantine == {"QUARANTINED", "UNDER_INSPECTION", "HELD"}
Disposed == {"RELEASED", "SCRAPPED", "RETURNED"}

\* The new status is the client's.
InspectQuarantine(w) ==
  \E to \in OpenQuarantine \cup Disposed : SetDocument(w, "quarantine", OpenQuarantine, to)

\* What was scrapped or returned can be released.
ReleaseQuarantine(w) ==
  SetDocument(w, "quarantine", OpenQuarantine \cup {"SCRAPPED", "RETURNED"}, "RELEASED")

WarehouseNext(w) ==
  \/ CreateStockTransfer(w) \/ CompleteStockTransfer(w) \/ CancelStockTransfer(w)
  \/ CreateTransfer(w) \/ SubmitTransfer(w) \/ ApproveTransfer(w) \/ RejectTransfer(w)
  \/ StartTransfer(w) \/ CompleteTransfer(w) \/ CancelTransfer(w)
  \/ CreatePutaway(w) \/ AssignPutaway(w) \/ StartPutaway(w) \/ CompletePutaway(w)
  \/ CancelPutaway(w)
  \/ CreateTask(w) \/ AssignTask(w) \/ StartTask(w) \/ CompleteTask(w) \/ CancelTask(w)
  \/ GenerateReplenishment(w) \/ CompleteReplenishment(w) \/ CancelReplenishment(w)
  \/ CreatePick(w) \/ AssignPick(w) \/ StartPick(w) \/ ExecutePick(w) \/ CancelPick(w)
  \/ CreateWave(w) \/ ReleaseWave(w) \/ CompleteWave(w) \/ CancelWave(w)
  \/ CreateCount(w) \/ StartCount(w) \/ RecordCount(w) \/ RecountCount(w)
  \/ ReviewCount(w) \/ PostCount(w) \/ CancelCount(w)
  \/ QuarantineStock(w) \/ InspectQuarantine(w) \/ ReleaseQuarantine(w)

-----------------------------------------------------------------------------
\* Goods move once: a document has moved its quantity when it is completed and
\* nothing otherwise (a pick, what is picked so far), and the stock of both
\* locations is what it was plus what all documents, and the counts of the
\* source, have moved.
GoodsMoveOnce ==
  rows.domain = "warehouse" =>
    LET movers == rows.kinds \ {"count", "quarantine", "task", "wave"}
        movedOut == SumFunctionOnSet(rows.moved, movers)
        corrected == SumFunctionOnSet(rows.moved, rows.kinds \cap {"count"})
    IN /\ \A k \in movers :
            LET document == rows.documents[k]
            IN rows.moved[k] = IF k = "pick" THEN document.done
                               ELSE IF document.status = "COMPLETED" THEN document.quantity
                               ELSE 0
       /\ rows.stock.destination = movedOut
       /\ rows.stock.source = InitialStock + corrected - movedOut

-----------------------------------------------------------------------------
(***************************************************************************)
(* shipping/shipments: the line of a delivery order, of quantity           *)
(* MaxAmount, is divided over shipments.                                   *)
(***************************************************************************)

NoShipping ==
  [domain |-> "shipping",
   deliveryCancelled |-> FALSE,
   shipments |-> [s \in {1, 2} |-> [status |-> "NONE", quantity |-> 0]]]

\* What the shipments that are not cancelled carry.
ShippedQuantity(db) ==
  SumFunction([s \in {t \in DOMAIN db.shipments : db.shipments[t].status # "CANCELLED"} |->
                 db.shipments[s].quantity])

CreateShipment(w, s) ==
  /\ Creates(w, "shipments", s)
  /\ ~ Seen(w).deliveryCancelled
  /\ \E n \in 1..(MaxAmount - ShippedQuantity(Seen(w))) :
       Commit(w, [rows EXCEPT !.shipments[s] = [status |-> "DRAFT", quantity |-> n]])

\* update() changes carrier data and dates only; lines stay.
PrepareShipment(w, s) == SetStatus(w, "shipments", s, {"DRAFT"}, "READY")

AssignCarrier(w, s) ==
  \/ SetStatus(w, "shipments", s, {"DRAFT", "READY", "ASSIGNED"}, "ASSIGNED")
  \/ \E from \in {"FAILED", "RETURNED"} : SetStatus(w, "shipments", s, {from}, from)

\* The vehicle and the status are written separately: no status is written here.
DispatchShipment(w, s) ==
  SetStatus(w, "shipments", s, {"DRAFT", "READY", "ASSIGNED"}, "DISPATCHED")

MarkInTransit(w, s) == SetStatus(w, "shipments", s, {"DISPATCHED"}, "IN_TRANSIT")

MarkDelivered(w, s) ==
  SetStatus(w, "shipments", s, {"DISPATCHED", "IN_TRANSIT"}, "DELIVERED")

MarkFailed(w, s) == SetStatus(w, "shipments", s, {"DISPATCHED", "IN_TRANSIT"}, "FAILED")

InitiateReturn(w, s) ==
  SetStatus(w, "shipments", s, {"FAILED", "IN_TRANSIT", "DISPATCHED"}, "RETURNED")

CloseShipment(w, s) ==
  SetStatus(w, "shipments", s, {"DELIVERED", "RETURNED", "FAILED"}, "CLOSED")

\* A failed or returned shipment may be cancelled, and its quantity shipped again.
CancelShipment(w, s) ==
  SetStatus(w, "shipments", s, {"DRAFT", "READY", "ASSIGNED", "FAILED", "RETURNED"}, "CANCELLED")

\* sales/deliveries cancel(): no shipment is looked at.
CancelShippedDelivery(w) ==
  /\ At(w, "read")
  /\ Commit(w, [rows EXCEPT !.deliveryCancelled = TRUE])

ShippingNext(w) ==
  /\ rows.domain = "shipping"
  /\ \/ CancelShippedDelivery(w)
     \/ \E s \in DOMAIN rows.shipments :
          \/ CreateShipment(w, s) \/ PrepareShipment(w, s) \/ AssignCarrier(w, s)
          \/ DispatchShipment(w, s) \/ MarkInTransit(w, s) \/ MarkDelivered(w, s)
          \/ MarkFailed(w, s) \/ InitiateReturn(w, s) \/ CloseShipment(w, s)
          \/ CancelShipment(w, s)

-----------------------------------------------------------------------------
\* A delivery line is not shipped twice: what its shipments carry, the
\* cancelled ones apart, is at most what the line delivers, at whatever
\* moment shipments are created, dispatched, failed, returned and cancelled.
ShippedWithinDelivery ==
  rows.domain = "shipping" => ShippedQuantity(rows) <= MaxAmount
=============================================================================
