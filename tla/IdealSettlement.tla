-------------------------- MODULE IdealSettlement --------------------------
(***************************************************************************)
(* What settling promises (ADR-030, docs/12-accounting): an invoice is     *)
(* settled only while it is in the books, never beyond its total, and      *)
(* leaves the books only when nothing is settled on it; it does not come   *)
(* back.  Who settles it, and with what, is left open.                     *)
(***************************************************************************)
EXTENDS Naturals

CONSTANT InvoiceIds

VARIABLES books,       \* where each invoice is: "before", "in" or "out"
          settled      \* the money brought in on it

Init ==
  /\ books = [i \in InvoiceIds |-> "before"]
  /\ settled = [i \in InvoiceIds |-> 0]

Enter(i) ==
  /\ books[i] = "before"
  /\ books' = [books EXCEPT ![i] = "in"]
  /\ UNCHANGED settled

\* A draft is dropped, or a posted invoice withdrawn.
Leave(i) ==
  /\ books[i] \in {"before", "in"} /\ settled[i] = 0
  /\ books' = [books EXCEPT ![i] = "out"]
  /\ UNCHANGED settled

Settle ==
  /\ UNCHANGED books
  /\ DOMAIN settled' = InvoiceIds
  /\ \A i \in InvoiceIds :
       settled'[i] # settled[i] => books[i] = "in" /\ settled'[i] > settled[i]

\* A note that settled invoices gives back what it settled.
Unsettle ==
  /\ UNCHANGED books
  /\ DOMAIN settled' = InvoiceIds
  /\ \A i \in InvoiceIds :
       settled'[i] # settled[i] => books[i] = "in" /\ settled'[i] \in 0..settled[i]

Next == Settle \/ Unsettle \/ \E i \in InvoiceIds : Enter(i) \/ Leave(i)

Spec == Init /\ [][Next]_<<books, settled>>
=============================================================================
