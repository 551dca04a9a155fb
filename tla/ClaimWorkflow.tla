--------------------------- MODULE ClaimWorkflow ---------------------------
(***************************************************************************)
(* The vocabulary of the claim workflow: the statuses a claim row can      *)
(* have, the transition table, and the roles the service tells apart.      *)
(* Constant-level only; the abstract and the detailed specification share  *)
(* it.                                                                     *)
(***************************************************************************)

\* The value of a NULL column, and the from_status of a claim's first
\* history row.
None == "none"

\* The statuses the CHECK constraint on claims.status admits.
Status == {"draft", "submitted", "ai_processing", "fraud_review",
           "surveyor_review", "approved", "rejected", "payment_pending",
           "paid", "closed"}

\* VALID_TRANSITIONS; "closed" has no entry, and .get(..., set()) gives {}.
ValidTransitions ==
  [draft           |-> {"submitted"},
   submitted       |-> {"ai_processing"},
   ai_processing   |-> {"fraud_review", "surveyor_review"},
   fraud_review    |-> {"surveyor_review", "rejected"},
   surveyor_review |-> {"approved", "rejected"},
   approved        |-> {"payment_pending"},
   payment_pending |-> {"paid"},
   paid            |-> {"closed"},
   rejected        |-> {"closed"},
   closed          |-> {}]

\* Mutant of Uploadable: reviewers may ask for more images.
UploadableInReview == {"draft", "submitted", "surveyor_review"}

\* The statuses in which an image may still be added to a claim.
Uploadable == {"draft", "submitted"}

Role == {"customer", "surveyor", "insurance_officer", "repair_workshop",
         "fraud_analyst", "admin", "super_admin"}

\* The roles whose permission set holds claim:create.
ClaimCreators == {"customer", "super_admin"}

\* The roles update_status lets set any status.
Overriders == {"admin", "super_admin"}

\* FraudResult.risk_level, reduced to the one distinction the pipeline makes:
\* "flagged" stands for high and critical, "clear" for low and medium.
Verdict == {"clear", "flagged"}

\* Mutants of ReviewStatus: the risk level becomes the status; a claim that is
\* not suspicious is approved at once.
RiskLevelAsStatus(verdict) == verdict
ApprovedIfClear(verdict) ==
  IF verdict = "flagged" THEN "fraud_review" ELSE "approved"

\* The status the pipeline leaves a claim in.
ReviewStatus(verdict) ==
  IF verdict = "flagged" THEN "fraud_review" ELSE "surveyor_review"

=============================================================================
