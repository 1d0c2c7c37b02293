------------------------------ MODULE Quality ------------------------------
(***************************************************************************)
(* quality/: an inspection lot, whose samples are measured and which is    *)
(* then decided; the hold and the non-conformance (NCR) the decision may   *)
(* make; and the corrective action (CAPA) for it.                          *)
(***************************************************************************)
EXTENDS Handlers

CONSTANT Samples       \* the sample numbers that results may be recorded for

\* mandatory: the plan has a mandatory characteristic, and the organization
\* wants every mandatory one measured.  Hold 1 and NCR 1 are the lot's, hold 2
\* is one the client makes.
NoQuality(mandatory) ==
  [domain |-> "quality", mandatory |-> mandatory,
   lots |-> [l \in {1} |-> [status |-> "NONE", sample |-> 0, decision |-> "-",
                            inspected |-> 0, passed |-> 0, failed |-> 0]],
   results |-> [s \in Samples |-> "-"],
   holds |-> [h \in {1, 2} |-> [status |-> "NONE"]],
   ncrs |-> [n \in {1} |-> [status |-> "NONE"]]]

NoNcrs ==
  [domain |-> "ncrs",
   ncrs |-> [n \in {1} |-> [status |-> "NONE"]],
   capas |-> [c \in {1, 2} |-> [status |-> "NONE", ncr |-> FALSE]]]

Undecided == {"PENDING", "IN_PROGRESS", "COMPLETED"}

\* The first lot of a plan makes the plan immutable.
CreateLot(w, l) ==
  /\ Creates(w, "lots", l)
  /\ \E n \in Samples :
       Commit(w, [rows EXCEPT !.lots[l].status = "PENDING", !.lots[l].sample = n])

Measured(results) == {s \in DOMAIN results : results[s] # "-"}
FailedSamples(results) == {s \in DOMAIN results : results[s] = "fail"}

\* A sample may be measured again, and numbers beyond the sample may be used.
RecordResults(w, l) ==
  /\ Changes(w, "lots", l, Undecided)
  /\ \E s \in Samples, result \in {"pass", "fail"} :
       LET results == [rows.results EXCEPT ![s] = result]
           failed == Cardinality(FailedSamples(results))
           inspected == Cardinality(Measured(results))
       IN Commit(w, [rows EXCEPT
            !.results = results,
            !.lots[l] = [@ EXCEPT
               !.status = IF inspected >= Seen(w).lots[l].sample
                          THEN "COMPLETED" ELSE "IN_PROGRESS",
               !.inspected = inspected, !.passed = inspected - failed, !.failed = failed]])

Decisions ==
  {"ACCEPT", "ACCEPT_WITH_DEVIATION", "REWORK", "REJECT", "SCRAP", "RETURN_TO_SUPPLIER", "HOLD"}

\* Samples of a mandatory characteristic that are missing.
MissingMandatory(db, l) ==
  IF db.mandatory THEN (1..db.lots[l].sample) \ Measured(db.results) ELSE {}

Decidable(db, l, decision) ==
  /\ MissingMandatory(db, l) = {}
  /\ decision = "ACCEPT" => FailedSamples(db.results) = {}

\* The client may ask for a non-conformance whatever the decision.
DecideInspection(w, l) ==
  /\ Changes(w, "lots", l, Undecided)
  /\ \E decision \in Decisions, asked \in BOOLEAN :
       /\ Decidable(Seen(w), l, decision)
       /\ Commit(w, [rows EXCEPT
            !.lots[l].status = "DECIDED", !.lots[l].decision = decision,
            !.holds[l].status = IF decision # "ACCEPT" THEN "ACTIVE" ELSE @,
            !.ncrs[l].status = IF asked \/ decision \in {"REJECT", "SCRAP", "RETURN_TO_SUPPLIER"}
                               THEN "OPEN" ELSE @])

CreateHold(w, h) ==
  /\ h # 1 /\ Creates(w, "holds", h)
  /\ Commit(w, [rows EXCEPT !.holds[h].status = "ACTIVE"])

\* The client may say how the hold ends, and even that it does not.
ReleaseHold(w, h) ==
  \E to \in {"ACTIVE", "RELEASED", "DISPOSITIONED", "CANCELLED"} :
    SetStatus(w, "holds", h, {"ACTIVE"}, to)

QualityNext(w) ==
  /\ rows.domain = "quality"
  /\ \/ \E l \in DOMAIN rows.lots :
          CreateLot(w, l) \/ RecordResults(w, l) \/ DecideInspection(w, l)
     \/ \E h \in DOMAIN rows.holds : CreateHold(w, h) \/ ReleaseHold(w, h)

-----------------------------------------------------------------------------
(* Non-conformances and corrective actions.  Nothing cancels either. *)

OpenNcr == {"OPEN", "CONTAINED", "ROOT_CAUSE_IDENTIFIED", "DISPOSITIONED", "CAPA_REQUIRED"}

CreateNcr(w, n) ==
  /\ Creates(w, "ncrs", n)
  /\ Commit(w, [rows EXCEPT !.ncrs[n].status = "OPEN"])

ContainNcr(w, n) == SetStatus(w, "ncrs", n, OpenNcr, "CONTAINED")
InvestigateNcr(w, n) == SetStatus(w, "ncrs", n, OpenNcr, "ROOT_CAUSE_IDENTIFIED")

DispositionNcr(w, n) ==
  \E to \in {"DISPOSITIONED", "CAPA_REQUIRED"} : SetStatus(w, "ncrs", n, OpenNcr, to)

\* Any status will do, as long as no CAPA for it is open.
CloseNcr(w, n) ==
  /\ \A c \in DOMAIN rows.capas :
       Seen(w).capas[c].ncr => Seen(w).capas[c].status = "CLOSED"
  /\ SetStatus(w, "ncrs", n, OpenNcr, "CLOSED")

\* For an NCR, which may be closed, or for none.
CreateCapa(w, c) ==
  /\ Creates(w, "capas", c)
  /\ \E ncr \in BOOLEAN :
       /\ ncr => Seen(w).ncrs[1].status # "NONE"
       /\ Commit(w, [rows EXCEPT !.capas[c] = [status |-> "OPEN", ncr |-> ncr]])

StartCapa(w, c) == SetStatus(w, "capas", c, {"OPEN"}, "IN_PROGRESS")
VerifyCapa(w, c) == SetStatus(w, "capas", c, {"IN_PROGRESS"}, "VERIFIED")
CloseCapa(w, c) == SetStatus(w, "capas", c, {"VERIFIED"}, "CLOSED")

NcrNext(w) ==
  /\ rows.domain = "ncrs"
  /\ \/ \E n \in DOMAIN rows.ncrs :
          CreateNcr(w, n) \/ ContainNcr(w, n) \/ InvestigateNcr(w, n) \/ DispositionNcr(w, n)
            \/ CloseNcr(w, n)
     \/ \E c \in DOMAIN rows.capas :
          CreateCapa(w, c) \/ StartCapa(w, c) \/ VerifyCapa(w, c) \/ CloseCapa(w, c)

-----------------------------------------------------------------------------
\* What a lot says about its samples is what was measured last, however often
\* they are measured; what was accepted has passed, completely where that is
\* mandatory, and nothing is measured or decided again afterwards; and what was
\* not accepted was put on hold, and rejected goods have their NCR.
DecisionsAreFounded ==
  rows.domain = "quality" =>
    \A l \in DOMAIN rows.lots :
      LET lot == rows.lots[l]
          failed == Cardinality(FailedSamples(rows.results))
      IN /\ lot.failed = failed /\ lot.inspected = Cardinality(Measured(rows.results))
         /\ lot.passed = lot.inspected - failed
         /\ lot.decision # "-" <=> lot.status = "DECIDED"
         /\ lot.decision = "ACCEPT" => failed = 0 /\ MissingMandatory(rows, l) = {}
         /\ rows.holds[l].status # "NONE" <=> lot.decision \notin {"-", "ACCEPT"}
         /\ lot.decision \in {"REJECT", "SCRAP", "RETURN_TO_SUPPLIER"} => rows.ncrs[1].status # "NONE"
=============================================================================
