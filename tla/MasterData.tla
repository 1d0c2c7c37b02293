------------------------------ MODULE MasterData ------------------------------
(***************************************************************************)
(* What the documents refer to: numbering sequences, the catalog and its   *)
(* prices, locations, customers and suppliers, and the staff.              *)
(***************************************************************************)
EXTENDS Handlers

-----------------------------------------------------------------------------
(***************************************************************************)
(* Numbering.  drawn is history: how often each number was drawn since the *)
(* sequence was last set to a number.                                      *)
(***************************************************************************)

Numbers == 1..3

NoNumbering ==
  [domain |-> "numbering",
   sequence |-> [status |-> "NONE", next |-> 1],
   drawn |-> [n \in Numbers |-> 0]]

\* One sequence for a key, which the unique key of the schema ensures.
CreateSequence(w) ==
  /\ At(w, "read")
  /\ Seen(w).sequence.status = "NONE"
  /\ \E n \in Numbers : CommitIf(w, rows.sequence.status = "NONE",
                                 [rows EXCEPT !.sequence = [status |-> "ACTIVE", next |-> n]])

\* Whatever is drawn meanwhile: next is only written when the request gives one.
UpdateSequence(w) ==
  /\ At(w, "read")
  /\ Seen(w).sequence.status # "NONE"
  /\ \E status \in {"ACTIVE", "INACTIVE"} :
       \/ Commit(w, [rows EXCEPT !.sequence.status = status])
       \/ \E n \in Numbers : Commit(w, [rows EXCEPT !.sequence = [status |-> status, next |-> n],
                                                    !.drawn = [m \in Numbers |-> 0]])

\* Mutant: the number is read first, and written back incremented.
ReadNextNumber(w) ==
  /\ At(w, "read")
  /\ Seen(w).sequence.status = "ACTIVE" /\ Seen(w).sequence.next \in Numbers
  /\ Commit(w, [rows EXCEPT !.sequence.next = Seen(w).sequence.next + 1,
                            !.drawn[Seen(w).sequence.next] = @ + 1])

\* One UPDATE ... RETURNING, so nothing that was read matters.
NextNumber(w) ==
  /\ At(w, "read")
  /\ rows.sequence.status = "ACTIVE" /\ rows.sequence.next \in Numbers
  /\ Commit(w, [rows EXCEPT !.sequence.next = @ + 1,
                            !.drawn[rows.sequence.next] = @ + 1])

NumberingNext(w) ==
  /\ rows.domain = "numbering"
  /\ CreateSequence(w) \/ UpdateSequence(w) \/ NextNumber(w)

\* However many requests draw from a sequence at once, none gets a number that
\* another one got (numbering.service.ts nextNumber), as long as nobody sets the
\* sequence back.
NumbersDrawnOnce ==
  rows.domain = "numbering" => \A n \in Numbers : rows.drawn[n] <= 1

-----------------------------------------------------------------------------
(* The catalog: units, categories, items and their variants. *)

Alive == {"ACTIVE", "INACTIVE"}
Live(row) == row.status \in Alive

NoCatalog ==
  [domain |-> "catalog",
   units |-> [u \in {1} |-> [status |-> "NONE"]],
   categories |-> [c \in {1, 2} |-> [status |-> "NONE", parent |-> 0]],
   items |-> [i \in {1} |-> [status |-> "NONE", category |-> 0]],
   variants |-> [v \in {1, 2} |-> [status |-> "NONE"]]]

CreateUnit(w, u) ==
  /\ Creates(w, "units", u)
  /\ Commit(w, [rows EXCEPT !.units[u].status = "ACTIVE"])

UpdateUnit(w, u) == \E to \in Alive : SetStatus(w, "units", u, Alive, to)

DeactivateUnit(w, u) == SetStatus(w, "units", u, Alive, "INACTIVE")

\* No parent or category, or one that is live.
LiveCategory(db, c) == c # 0 => Live(db.categories[c])

CreateCategory(w, c) ==
  /\ Creates(w, "categories", c)
  /\ \E p \in {0} \cup DOMAIN rows.categories :
       /\ LiveCategory(Seen(w), p)
       /\ Commit(w, [rows EXCEPT !.categories[c] = [status |-> "ACTIVE", parent |-> p]])

\* A category is not its own parent; it may be its parent's parent.
UpdateCategory(w, c) ==
  /\ Changes(w, "categories", c, Alive)
  /\ \E p \in {0} \cup DOMAIN rows.categories, to \in Alive :
       /\ p = Seen(w).categories[c].parent \/ (p # c /\ LiveCategory(Seen(w), p))
       /\ Commit(w, [rows EXCEPT !.categories[c] = [status |-> to, parent |-> p]])

\* What is in the category, and below it, stays.
DeleteCategory(w, c) == SetStatus(w, "categories", c, Alive, "DELETED")

CreateItem(w, i) ==
  /\ Creates(w, "items", i)
  /\ Seen(w).units[1].status = "ACTIVE"
  /\ \E c \in {0} \cup DOMAIN rows.categories :
       /\ c # 0 => Seen(w).categories[c].status = "ACTIVE"
       /\ Commit(w, [rows EXCEPT !.items[i] = [status |-> "ACTIVE", category |-> c]])

UpdateItem(w, i) ==
  /\ Changes(w, "items", i, Alive)
  /\ \E c \in {0} \cup DOMAIN rows.categories, to \in Alive :
       /\ c = Seen(w).items[i].category \/ LiveCategory(Seen(w), c)
       /\ Commit(w, [rows EXCEPT !.items[i] = [status |-> to, category |-> c]])

\* With its variants, in one transaction.
DeleteItem(w, i) ==
  /\ Changes(w, "items", i, Alive)
  /\ Commit(w, [rows EXCEPT
                  !.items[i].status = "DELETED",
                  !.variants = [v \in DOMAIN @ |-> IF Live(@[v]) THEN [status |-> "DELETED"] ELSE @[v]]])

CreateVariant(w, v) ==
  /\ Creates(w, "variants", v)
  /\ Seen(w).items[1].status = "ACTIVE"
  /\ Commit(w, [rows EXCEPT !.variants[v].status = "ACTIVE"])

UpdateVariant(w, v) == \E to \in Alive : SetStatus(w, "variants", v, Alive, to)

DeleteVariant(w, v) == SetStatus(w, "variants", v, Alive, "DELETED")

CatalogNext(w) ==
  /\ rows.domain = "catalog"
  /\ \/ \E u \in DOMAIN rows.units : CreateUnit(w, u) \/ UpdateUnit(w, u) \/ DeactivateUnit(w, u)
     \/ \E c \in DOMAIN rows.categories :
          CreateCategory(w, c) \/ UpdateCategory(w, c) \/ DeleteCategory(w, c)
     \/ \E i \in DOMAIN rows.items : CreateItem(w, i) \/ UpdateItem(w, i) \/ DeleteItem(w, i)
     \/ \E v \in DOMAIN rows.variants :
          CreateVariant(w, v) \/ UpdateVariant(w, v) \/ DeleteVariant(w, v)

\* A variant that can still be sold or stocked is one of an item that can.
VariantsHaveItems ==
  rows.domain = "catalog" =>
    \A v \in DOMAIN rows.variants : Live(rows.variants[v]) => Live(rows.items[1])

-----------------------------------------------------------------------------
(* Prices, of an item or of a variant, in the pricing tiers. *)

NoPricing ==
  [domain |-> "pricing",
   currencies |-> [c \in {1} |-> [status |-> "ACTIVE"]],
   targets |-> [t \in {"item", "variant"} |-> [status |-> "ACTIVE"]],
   tiers |-> [t \in {1, 2} |-> [status |-> "NONE", isDefault |-> FALSE]],
   prices |-> [p \in {1} |-> [status |-> "NONE"]]]

UpdateCurrency(w, c) == \E to \in Alive : SetStatus(w, "currencies", c, Alive, to)

DeactivateCurrency(w, c) == SetStatus(w, "currencies", c, Alive, "INACTIVE")

\* Items and variants: what has a price may be deleted.
DeleteTarget(w, t) == SetStatus(w, "targets", t, Alive, "DELETED")

\* The tiers when t has become the default, or not.
WithDefault(tiers, t, isDefault) ==
  [u \in DOMAIN tiers |->
     [tiers[u] EXCEPT !.isDefault = IF u = t THEN isDefault ELSE @ /\ ~ isDefault]]

CreatePricingTier(w, t) ==
  /\ Creates(w, "tiers", t)
  /\ Seen(w).currencies[1].status = "ACTIVE"
  /\ \E isDefault \in BOOLEAN :
       Commit(w, [rows EXCEPT !.tiers = [WithDefault(@, t, isDefault) EXCEPT ![t].status = "ACTIVE"]])

\* The currency need only be active when the request gives one; a tier that is
\* inactive may be the default.
UpdatePricingTier(w, t) ==
  /\ Changes(w, "tiers", t, Alive)
  /\ \E to \in Alive :
       \/ Commit(w, [rows EXCEPT !.tiers[t].status = to])
       \/ \E isDefault \in BOOLEAN :
            Commit(w, [rows EXCEPT !.tiers = [WithDefault(@, t, isDefault) EXCEPT ![t].status = to]])

CreatePrice(w, p) ==
  /\ Creates(w, "prices", p)
  /\ \E target \in DOMAIN rows.targets : Live(Seen(w).targets[target])
  /\ \E t \in DOMAIN rows.tiers : Seen(w).tiers[t].status = "ACTIVE"
  /\ Commit(w, [rows EXCEPT !.prices[p].status = "ACTIVE"])

UpdatePrice(w, p) == \E to \in Alive : SetStatus(w, "prices", p, Alive, to)

DeletePrice(w, p) == SetStatus(w, "prices", p, Alive, "DELETED")

PricingNext(w) ==
  /\ rows.domain = "pricing"
  /\ \/ \E c \in DOMAIN rows.currencies : UpdateCurrency(w, c) \/ DeactivateCurrency(w, c)
     \/ \E t \in DOMAIN rows.targets : DeleteTarget(w, t)
     \/ \E t \in DOMAIN rows.tiers : CreatePricingTier(w, t) \/ UpdatePricingTier(w, t)
     \/ \E p \in DOMAIN rows.prices : CreatePrice(w, p) \/ UpdatePrice(w, p) \/ DeletePrice(w, p)

\* Prices that ask for the default tier find at most one.
OneDefaultTier ==
  rows.domain = "pricing" => Cardinality({t \in DOMAIN rows.tiers : rows.tiers[t].isDefault}) <= 1

-----------------------------------------------------------------------------
(* Locations, one within another. *)

NoLocations ==
  [domain |-> "locations",
   locations |-> [l \in {1, 2, 3} |-> [status |-> "NONE", parent |-> 0]]]

LiveLocation(db, l) == l # 0 => Live(db.locations[l])

CreateLocation(w, l) ==
  /\ Creates(w, "locations", l)
  /\ \E p \in {0} \cup DOMAIN rows.locations :
       /\ LiveLocation(Seen(w), p)
       /\ Commit(w, [rows EXCEPT !.locations[l] = [status |-> "ACTIVE", parent |-> p]])

\* A location is not its own parent; it may be its parent's parent.
UpdateLocation(w, l) ==
  /\ Changes(w, "locations", l, Alive)
  /\ \E p \in {0} \cup DOMAIN rows.locations, to \in Alive :
       /\ p = Seen(w).locations[l].parent \/ (p # l /\ LiveLocation(Seen(w), p))
       /\ Commit(w, [rows EXCEPT !.locations[l] = [status |-> to, parent |-> p]])

\* Not while there is a live location within it.
DeleteLocation(w, l) ==
  /\ \A k \in DOMAIN rows.locations : Live(Seen(w).locations[k]) => Seen(w).locations[k].parent # l
  /\ SetStatus(w, "locations", l, Alive, "DELETED")

LocationsNext(w) ==
  /\ rows.domain = "locations"
  /\ \E l \in DOMAIN rows.locations :
       CreateLocation(w, l) \/ UpdateLocation(w, l) \/ DeleteLocation(w, l)

\* A location in use is within one that is in use: goods do not get lost below a
\* deleted warehouse.
LocationsHaveParents ==
  rows.domain = "locations" =>
    \A l \in DOMAIN rows.locations :
      Live(rows.locations[l]) => LiveLocation(rows, rows.locations[l].parent)

-----------------------------------------------------------------------------
(***************************************************************************)
(* A customer or a supplier, with its contacts and its addresses: those of *)
(* suppliers are handled as those of customers are, except that suppliers  *)
(* have no groups and their contacts no second service.                    *)
(***************************************************************************)

PartyKinds == {"customer", "supplier"}

AddressTypes == {"BILLING", "SHIPPING"}

NoParty(kind) ==
  [domain |-> "parties",
   kind |-> kind,
   groups |-> [g \in {1} |-> [status |-> "ACTIVE"]],
   parties |-> [p \in {1} |-> [status |-> "NONE", group |-> 0]],
   contacts |-> [c \in {1, 2} |-> [status |-> "NONE", primary |-> FALSE]],
   addresses |-> [a \in {1, 2} |-> [status |-> "NONE", type |-> "BILLING", primary |-> FALSE]]]

\* Customers remain in a group that is deleted.
DeleteGroup(w, g) == SetStatus(w, "groups", g, Alive, "DELETED")

GroupsFor(db) == {0} \cup {g \in DOMAIN db.groups : db.kind = "customer" /\ Live(db.groups[g])}

CreateParty(w, p) ==
  /\ Creates(w, "parties", p)
  /\ \E g \in GroupsFor(Seen(w)), status \in Alive :
       /\ Seen(w).kind = "supplier" => status = "ACTIVE"
       /\ Commit(w, [rows EXCEPT !.parties[p] = [status |-> status, group |-> g]])

UpdateParty(w, p) ==
  /\ Changes(w, "parties", p, Alive)
  /\ \E g \in GroupsFor(Seen(w)) \cup {Seen(w).parties[p].group}, to \in Alive :
       Commit(w, [rows EXCEPT !.parties[p] = [status |-> to, group |-> g]])

\* Its contacts and addresses stay, and can be changed.
DeleteParty(w, p) == SetStatus(w, "parties", p, Alive, "DELETED")

\* Mutant: the flags of the other contacts are left as they are.
SetPrimaryOnly(contacts, c, primary) ==
  [contacts EXCEPT ![c] = [status |-> "ACTIVE", primary |-> primary]]

\* The contacts when c is written: a primary one is the only one.
SetPrimary(contacts, c, primary) ==
  [d \in DOMAIN contacts |->
     IF d = c THEN [status |-> "ACTIVE", primary |-> primary]
     ELSE [contacts[d] EXCEPT !.primary = @ /\ ~ primary]]

CreateContact(w, c) ==
  /\ Creates(w, "contacts", c)
  /\ Live(Seen(w).parties[1])
  /\ \E primary \in BOOLEAN : Commit(w, [rows EXCEPT !.contacts = SetPrimary(@, c, primary)])

UpdateContact(w, c) ==
  /\ Changes(w, "contacts", c, {"ACTIVE"})
  /\ \E primary \in BOOLEAN : Commit(w, [rows EXCEPT !.contacts = SetPrimary(@, c, primary)])

RemoveContact(w, c) ==
  /\ Changes(w, "contacts", c, {"ACTIVE"})
  /\ Commit(w, [rows EXCEPT !.contacts[c] = [status |-> "DELETED", primary |-> FALSE]])

\* crm/ has a service of its own for the contacts of customers, which clears the
\* flags of the others in a statement of its own, outside a transaction.
CrmClearPrimary(w, c) ==
  /\ At(w, "read")
  /\ Seen(w).kind = "customer"
  /\ \/ Seen(w).contacts[c].status = "NONE" /\ Live(Seen(w).parties[1])
     \/ Seen(w).contacts[c].status = "ACTIVE"
  /\ Proceed(w, [rows EXCEPT !.contacts = [d \in DOMAIN @ |->
                   IF d = c THEN @[d] ELSE [@[d] EXCEPT !.primary = FALSE]]], "crmContact", c)

\* An update by id of a contact that was deleted meanwhile is refused.
CrmWriteContact(w, c) ==
  /\ Resumes(w, "crmContact", c)
  /\ CommitIf(w, rows.contacts[c].status # "DELETED",
              [rows EXCEPT !.contacts[c] = [status |-> "ACTIVE", primary |-> TRUE]])

\* The addresses with a written: when it is primary, no other of its type is.
WithAddress(addresses, a, type, primary) ==
  [b \in DOMAIN addresses |->
     IF b = a THEN [status |-> "ACTIVE", type |-> type, primary |-> primary]
     ELSE [addresses[b] EXCEPT !.primary = @ /\ ~ (primary /\ addresses[b].type = type)]]

CreateAddress(w, a) ==
  /\ Creates(w, "addresses", a)
  /\ Live(Seen(w).parties[1])
  /\ \E type \in AddressTypes, primary \in BOOLEAN :
       Commit(w, [rows EXCEPT !.addresses = WithAddress(@, a, type, primary)])

\* An address that changes its type stays primary, whatever else has that type.
UpdateAddress(w, a) ==
  /\ Changes(w, "addresses", a, {"ACTIVE"})
  /\ \E type \in AddressTypes :
       \/ Commit(w, [rows EXCEPT !.addresses[a].type = type])
       \/ \E primary \in BOOLEAN :
            Commit(w, [rows EXCEPT !.addresses = WithAddress(@, a, type, primary)])

RemoveAddress(w, a) ==
  /\ Changes(w, "addresses", a, {"ACTIVE"})
  /\ Commit(w, [rows EXCEPT !.addresses[a].status = "DELETED", !.addresses[a].primary = FALSE])

PartiesNext(w) ==
  /\ rows.domain = "parties"
  /\ \/ \E g \in DOMAIN rows.groups : DeleteGroup(w, g)
     \/ \E p \in DOMAIN rows.parties : CreateParty(w, p) \/ UpdateParty(w, p) \/ DeleteParty(w, p)
     \/ \E c \in DOMAIN rows.contacts :
          \/ CreateContact(w, c) \/ UpdateContact(w, c) \/ RemoveContact(w, c)
          \/ CrmClearPrimary(w, c) \/ CrmWriteContact(w, c)
     \/ \E a \in DOMAIN rows.addresses :
          CreateAddress(w, a) \/ UpdateAddress(w, a) \/ RemoveAddress(w, a)

\* A customer or supplier has at most one primary contact, whichever of the two
\* services writes it, and also when the one without a transaction stops halfway.
OnePrimaryContact ==
  rows.domain = "parties" =>
    Cardinality({c \in DOMAIN rows.contacts : rows.contacts[c].primary}) <= 1

-----------------------------------------------------------------------------
(***************************************************************************)
(* The staff: departments, job positions and employees.  0 stands for no   *)
(* department, no manager.                                                 *)
(***************************************************************************)

NoStaff(departments, employees) ==
  [domain |-> "staff",
   departments |-> [d \in departments |-> [status |-> "NONE", parent |-> 0]],
   positions |-> [j \in {1} |-> [status |-> "NONE", department |-> 0]],
   employees |-> [e \in employees |-> [status |-> "NONE", department |-> 0, manager |-> 0]]]

\* The departments there are; a removed one leaves no row.
Existing(db) == {d \in DOMAIN db.departments : db.departments[d].status = "ACTIVE"}

\* Department p and those above it, as the walk up meets them.
UpFrom(db, p) ==
  LET up[k \in 0..Cardinality(DOMAIN db.departments)] ==
        IF k = 0 THEN {p} \ {0}
        ELSE up[k - 1] \cup ({db.departments[d].parent : d \in up[k - 1]} \ {0})
  IN up[Cardinality(DOMAIN db.departments)]

CreateDepartment(w, d) ==
  /\ Creates(w, "departments", d)
  /\ \E p \in {0} \cup Existing(Seen(w)) :
       Commit(w, [rows EXCEPT !.departments[d] = [status |-> "ACTIVE", parent |-> p]])

\* Mutant: only the department itself is refused as its parent.
NotItself(db, d, p) == p # d

\* The check for a circular hierarchy.
NotAbove(db, d, p) == d \notin UpFrom(db, p)

UpdateDepartment(w, d) ==
  /\ Changes(w, "departments", d, {"ACTIVE"})
  /\ \E p \in {0} \cup Existing(Seen(w)) :
       /\ NotAbove(Seen(w), d, p)
       /\ Commit(w, [rows EXCEPT !.departments[d].parent = p])

\* Refused while somebody works there.  The schema sets the references to it to
\* null: of departments, positions and former employees.
DeleteDepartment(w, d) ==
  /\ Changes(w, "departments", d, {"ACTIVE"})
  /\ \A e \in DOMAIN rows.employees :
       Seen(w).employees[e].status = "ACTIVE" => Seen(w).employees[e].department # d
  /\ LET Without(table) ==
           [r \in DOMAIN table |-> [table[r] EXCEPT !.department = IF @ = d THEN 0 ELSE @]]
     IN Commit(w, [rows EXCEPT
          !.departments = [c \in DOMAIN @ |->
             IF c = d THEN [status |-> "DELETED", parent |-> 0]
             ELSE [status |-> @[c].status, parent |-> IF @[c].parent = d THEN 0 ELSE @[c].parent]],
          !.positions = Without(@), !.employees = Without(@)])

CreatePosition(w, j) ==
  /\ Creates(w, "positions", j)
  /\ \E d \in {0} \cup Existing(Seen(w)) :
       Commit(w, [rows EXCEPT !.positions[j] = [status |-> "ACTIVE", department |-> d]])

UpdatePosition(w, j) ==
  /\ Changes(w, "positions", j, {"ACTIVE"})
  /\ \E d \in {0} \cup Existing(Seen(w)) :
       Commit(w, [rows EXCEPT !.positions[j].department = d])

DeletePosition(w, j) == SetStatus(w, "positions", j, {"ACTIVE"}, "DELETED")

Employed(db) == {e \in DOMAIN db.employees : db.employees[e].status = "ACTIVE"}

CreateEmployee(w, e) ==
  /\ Creates(w, "employees", e)
  /\ \E d \in {0} \cup Existing(Seen(w)), m \in {0} \cup Employed(Seen(w)) :
       Commit(w, [rows EXCEPT !.employees[e] =
                    [status |-> "ACTIVE", department |-> d, manager |-> m]])

\* Nobody manages himself; that two manage each other is not checked.  That the
\* department exists is only checked by the foreign key.
UpdateEmployee(w, e) ==
  /\ Changes(w, "employees", e, {"ACTIVE"})
  /\ \E d \in {0} \cup Existing(rows),
        m \in {0, Seen(w).employees[e].manager} \cup (Employed(Seen(w)) \ {e}) :
       Commit(w, [rows EXCEPT !.employees[e].department = d, !.employees[e].manager = m])

DeleteEmployee(w, e) == SetStatus(w, "employees", e, {"ACTIVE"}, "DELETED")

StaffNext(w) ==
  /\ rows.domain = "staff"
  /\ \/ \E d \in DOMAIN rows.departments :
          CreateDepartment(w, d) \/ UpdateDepartment(w, d) \/ DeleteDepartment(w, d)
     \/ \E j \in DOMAIN rows.positions :
          CreatePosition(w, j) \/ UpdatePosition(w, j) \/ DeletePosition(w, j)
     \/ \E e \in DOMAIN rows.employees :
          CreateEmployee(w, e) \/ UpdateEmployee(w, e) \/ DeleteEmployee(w, e)

\* No department is above itself, so that the walk up ends, and everybody who is
\* employed works in a department that exists, if in one.
DepartmentsAreOrdered ==
  rows.domain = "staff" =>
    /\ \A d \in Existing(rows) :
         /\ rows.departments[d].parent \in {0} \cup Existing(rows)
         /\ d \notin UpFrom(rows, rows.departments[d].parent)
    /\ \A e \in Employed(rows) : rows.employees[e].department \in {0} \cup Existing(rows)

-----------------------------------------------------------------------------
(* What an employee is paid, from a day until another or without an end. *)

PayDays == 1..3
NoEnd == 4

NoCompensations ==
  [domain |-> "compensations",
   earners |-> [e \in {1} |-> [status |-> "ACTIVE"]],
   compensations |-> [c \in {1, 2} |-> [status |-> "NONE", from |-> 1, until |-> NoEnd]]]

\* Both ends belong to the range.
Overlap(c, d) == c.from <= d.until /\ d.from <= c.until

\* validateNoOverlap(): with the other records that are active, also when the one
\* that is written is not.
OverlapsNone(db, c, range) ==
  \A d \in DOMAIN db.compensations \ {c} :
    db.compensations[d].status = "ACTIVE" => ~ Overlap(range, db.compensations[d])

Compensations == [status : Alive, from : PayDays, until : PayDays \cup {NoEnd}]

CreateCompensation(w, c) ==
  /\ Creates(w, "compensations", c)
  /\ Seen(w).earners[1].status = "ACTIVE"
  /\ \E new \in Compensations :
       /\ new.from <= new.until /\ OverlapsNone(Seen(w), c, new)
       /\ Commit(w, [rows EXCEPT !.compensations[c] = new])

UpdateCompensation(w, c) ==
  /\ Changes(w, "compensations", c, Alive)
  /\ \E new \in Compensations :
       /\ new.from <= new.until /\ OverlapsNone(Seen(w), c, new)
       /\ Commit(w, [rows EXCEPT !.compensations[c] = new])

\* EmployeesService.delete() leaves the compensations as they are.
EarnerLeaves(w, e) == SetStatus(w, "earners", e, {"ACTIVE"}, "DELETED")

CompensationsNext(w) ==
  /\ rows.domain = "compensations"
  /\ \/ \E e \in DOMAIN rows.earners : EarnerLeaves(w, e)
     \/ \E c \in DOMAIN rows.compensations : CreateCompensation(w, c) \/ UpdateCompensation(w, c)

\* findEffective(): on every day, one active record says what the
\* employee is paid, however records are activated, stretched and shortened.
OnePayAtATime ==
  rows.domain = "compensations" =>
    \A day \in PayDays :
      Cardinality({c \in DOMAIN rows.compensations :
                     /\ rows.compensations[c].status = "ACTIVE"
                     /\ day \in rows.compensations[c].from..rows.compensations[c].until}) <= 1

-----------------------------------------------------------------------------

MasterDataNext(w) ==
  \/ NumberingNext(w) \/ CatalogNext(w) \/ PricingNext(w) \/ LocationsNext(w)
  \/ PartiesNext(w) \/ StaffNext(w) \/ CompensationsNext(w)

\* What documents refer to is there, once, and not in two ways at a time.
MasterDataConsistent ==
  /\ NumbersDrawnOnce /\ VariantsHaveItems /\ OneDefaultTier /\ LocationsHaveParents
  /\ OnePrimaryContact /\ DepartmentsAreOrdered /\ OnePayAtATime
=============================================================================
