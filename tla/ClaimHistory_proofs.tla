------------------------ MODULE ClaimHistory_proofs ------------------------
(***************************************************************************)
(* Proofs about what ClaimService records of a claim: its row, its status  *)
(* history and its audit log tell one story in every interleaving.         *)
(***************************************************************************)
EXTENDS ClaimService_proofs

\* The transition table has the statuses as its keys and leads to other ones.
LEMMA TableFacts ==
  /\ \A x \in Status : ValidTransitions[x] \subseteq Status \ {x}
  /\ "submitted" \in ValidTransitions["draft"]
  /\ "ai_processing" \in ValidTransitions["submitted"]
  /\ \A v \in Verdict : ReviewStatus(v) \in ValidTransitions["ai_processing"]
BY DEF Status, ValidTransitions, Verdict, ReviewStatus

\* The counters a history row is matched with.
Recorded(c) ==
  audit[c]["create"] + 3 * audit[c]["submit"] + audit[c]["status_change"]

\* A step that writes no claim row, no history row and no analysis.  Every
\* session it leaves busy was so before with the same copy, or has just loaded.
Private ==
  /\ UNCHANGED <<claims, history, analyses>>
  /\ \A c \in Claim : Recorded(c)' = Recorded(c)
  /\ \A r \in Slot : txn'[r].pc # "idle" =>
       /\ txn'[r].claim \in Claim
       /\ \/ /\ txn[r].pc # "idle"
             /\ txn'[r].claim = txn[r].claim
             /\ txn'[r].base = txn[r].base
          \/ /\ claims[txn'[r].claim].status # None
             /\ txn'[r].base \in {NoRow, claims[txn'[r].claim]}

\* Closing a session without writing is private (Rollback, RejectSubmit).
LEMMA ReleaseIsPrivate ==
  ASSUME TypeOK, NEW s \in Slot, Release(s), UNCHANGED <<claims, history, analyses>>,
         \A c \in Claim : Recorded(c)' = Recorded(c)
  PROVE  Private
<1>1. \A r \in Slot : txn[r].pc # "idle" => txn[r].claim \in Claim
  BY BusyType DEF TypeOK, BusyTxn
<1>2. QED
  BY <1>1 DEF Private, Release, IdleTxn, TypeOK

\* An uploaded image is logged, and nothing else is recorded (add_image).
LEMMA UploadIsPrivate ==
  ASSUME TypeOK, NEW s \in Slot, CommitUpload(s)
  PROVE  Private
<1> DEFINE c == txn[s].claim
<1>1. c \in Claim
  BY BusyType DEF CommitUpload, TypeOK, BusyTxn
<1>2. audit' = [audit EXCEPT ![c]["image_upload"] = audit[c]["image_upload"] + 1]
  BY DEF CommitUpload, Log
<1>3. \A d \in Claim : \A a \in AuditAction \ {"image_upload"} :
        audit'[d][a] = audit[d][a]
  BY <1>1, <1>2 DEF TypeOK, AuditAction
<1>4. \A d \in Claim : Recorded(d)' = Recorded(d)
  BY <1>3 DEF Recorded, AuditAction
<1>5. QED
  BY <1>4, ReleaseIsPrivate DEF CommitUpload

\* Loading a claim is private (get_claim).
LEMMA LoadIsPrivate ==
  ASSUME TypeOK, NEW s \in Slot, NEW u \in User, NEW c \in Claim,
         \/ \E i \in Image : LoadForUpload(s, u, c, i)
         \/ LoadForSubmit(s, u, c)
         \/ \E to \in Target, amount \in Amount \union {None}, reason \in BOOLEAN :
              LoadForDecision(s, u, c, to, amount, reason)
  PROVE  Private
<1>1. UNCHANGED <<claims, history, analyses, audit>>
  BY DEF LoadForUpload, LoadForSubmit, LoadForDecision, tables
<1>2. claims[c].status # None
  BY DEF LoadForUpload, LoadForSubmit, LoadForDecision, Uploadable, None
<1>3. /\ txn'[s].claim = c
      /\ txn'[s].base \in {NoRow, claims[c]}
      /\ \A r \in Slot \ {s} : txn'[r] = txn[r]
  <2>1. CASE \E i \in Image : LoadForUpload(s, u, c, i)
    BY <2>1 DEF LoadForUpload, TypeOK
  <2>2. CASE LoadForSubmit(s, u, c)
    BY <2>2 DEF LoadForSubmit, TypeOK
  <2>3. CASE \E to \in Target, amount \in Amount \union {None}, reason \in BOOLEAN :
               LoadForDecision(s, u, c, to, amount, reason)
    BY <2>3 DEF LoadForDecision, TypeOK
  <2>4. QED
    BY <2>1, <2>2, <2>3
<1>4. \A r \in Slot : txn[r].pc # "idle" => txn[r].claim \in Claim
  BY BusyType DEF TypeOK, BusyTxn
<1>5. QED
  BY <1>1, <1>2, <1>3, <1>4 DEF Private, Recorded

\* The pipeline's steps before the commit are private (run_ai_pipeline).
LEMMA PipelineIsPrivate ==
  ASSUME TypeOK, NEW s \in Slot, StartAnalysis(s) \/ Assess(s)
  PROVE  Private
<1> DEFINE t == txn[s]
<1>1. t \in BusyTxn /\ t.pc # "idle"
  BY BusyType DEF StartAnalysis, Assess, TypeOK
<1>2. UNCHANGED <<claims, history, analyses, audit>>
  BY DEF StartAnalysis, Assess, tables
<1>3. /\ txn'[s].claim = t.claim
      /\ txn'[s].base = t.base
      /\ \A r \in Slot \ {s} : txn'[r] = txn[r]
  <2>1. CASE StartAnalysis(s)
    <3>1. txn' = [txn EXCEPT ![s] =
                    [t EXCEPT !.pc = "analyse", !.new = InProcessing(t.new),
                              !.images = images[t.claim]]]
      BY <2>1 DEF StartAnalysis
    <3>2. QED
      BY <1>1, <3>1 DEF TypeOK, BusyTxn
  <2>2. CASE Assess(s)
    <3>1. PICK v \in Verdict :
            txn' = [txn EXCEPT ![s] =
                      [t EXCEPT !.pc = "assessed", !.new = Judged(t.new, v)]]
      BY <2>2 DEF Assess
    <3>2. QED
      BY <1>1, <3>1 DEF TypeOK, BusyTxn
  <2>3. QED
    BY <2>1, <2>2
<1>4. \A r \in Slot : txn[r].pc # "idle" => txn[r].claim \in Claim
  BY BusyType DEF TypeOK, BusyTxn
<1>5. QED
  BY <1>1, <1>2, <1>3, <1>4 DEF Private, Recorded, BusyTxn

\* Every step is private, or one of the three that write a claim row.
LEMMA RecordKinds ==
  ASSUME TypeOK, [Next]_vars
  PROVE  \/ Private
         \/ \E u \in User, c \in Claim : CreateClaim(u, c)
         \/ \E s \in Slot : CommitSubmit(s) \/ CommitDecision(s)
<1>1. ASSUME NEW u \in User, NEW c \in Claim, NEW s \in Slot,
             \/ \E i \in Image : LoadForUpload(s, u, c, i)
             \/ LoadForSubmit(s, u, c)
             \/ \E to \in Target, amount \in Amount \union {None},
                   reason \in BOOLEAN :
                  LoadForDecision(s, u, c, to, amount, reason)
      PROVE  Private
  BY <1>1, LoadIsPrivate
<1>2. ASSUME NEW s \in Slot, StartAnalysis(s) \/ Assess(s)
      PROVE  Private
  BY <1>2, PipelineIsPrivate
<1>3. ASSUME NEW s \in Slot, CommitUpload(s)
      PROVE  Private
  BY <1>3, UploadIsPrivate
<1>4. ASSUME NEW s \in Slot, RejectSubmit(s) \/ Rollback(s)
      PROVE  Private
  <2>1. Release(s) /\ UNCHANGED <<claims, history, analyses, audit>>
    BY <1>4 DEF RejectSubmit, Rollback, tables
  <2>2. QED
    BY <2>1, ReleaseIsPrivate DEF Recorded
<1>5. CASE UNCHANGED vars
  <2>1. \A r \in Slot : txn[r].pc # "idle" => txn[r].claim \in Claim
    BY BusyType DEF TypeOK, BusyTxn
  <2>2. QED
    BY <1>5, <2>1 DEF vars, Private, Recorded
<1>6. QED
  BY <1>1, <1>2, <1>3, <1>4, <1>5 DEF Next, Progress

-----------------------------------------------------------------------------
\* The record invariant, step by step.

\* Private steps keep it: what a session loads is the committed row.
LEMMA RecordPrivate ==
  ASSUME TypeOK, RecordInv, Private
  PROVE  RecordInv'
<1>1. /\ ScoreIsLastVerdict' /\ SubmittedMeansAnalysed'
      /\ HistoryIsLegal' /\ StatusIsLastHistoryRow'
  BY DEF Private, RecordInv, ScoreIsLastVerdict, SubmittedMeansAnalysed,
     HistoryIsLegal, StatusIsLastHistoryRow, NobodyOverrides
<1>2. HistoryMatchesAudit'
  BY DEF Private, Recorded, RecordInv, HistoryMatchesAudit
<1>3. CopiesAreOlder'
  BY DEF Private, RecordInv, CopiesAreOlder, NoRow
<1>4. QED
  BY <1>1, <1>2, <1>3 DEF RecordInv

\* What a row appended to the history of one claim does to all histories.
LEMMA AppendFacts ==
  ASSUME TypeOK, NEW c \in Claim, NEW rows \in Seq(HistoryRow),
         history' = [history EXCEPT ![c] = history[c] \o rows]
  PROVE  /\ \A d \in Claim \ {c} : history'[d] = history[d]
         /\ history'[c] = history[c] \o rows
         /\ Len(history[c]) \in Nat /\ Len(rows) \in Nat
         /\ Len(history'[c]) = Len(history[c]) + Len(rows)
         /\ \A k \in 1..Len(history[c]) : history'[c][k] = history[c][k]
         /\ \A k \in 1..Len(rows) : history'[c][Len(history[c]) + k] = rows[k]
         /\ (Len(rows) # 0) => (history'[c] # <<>>)
<1>1. /\ \A d \in Claim \ {c} : history'[d] = history[d]
      /\ history'[c] = history[c] \o rows
      /\ history[c] \in Seq(HistoryRow)
  BY DEF TypeOK
<1> DEFINE h == history[c]
           g == history'[c]
<1>2. /\ Len(h) \in Nat /\ Len(rows) \in Nat
      /\ Len(h \o rows) = Len(h) + Len(rows)
      /\ \A k \in 1..Len(h) : (h \o rows)[k] = h[k]
      /\ \A k \in 1..Len(rows) : (h \o rows)[Len(h) + k] = rows[k]
  <2> HIDE DEF h
  <2>1. h \in Seq(HistoryRow)
    BY <1>1 DEF h
  <2>2. QED
    BY <2>1
<1>3. (Len(rows) # 0) => (g # <<>>)
  BY <1>1, <1>2
<1>4. QED
  BY <1>1, <1>2, <1>3

\* The same for one row.
LEMMA AppendOneFacts ==
  ASSUME TypeOK, NEW c \in Claim, NEW row \in HistoryRow,
         history' = [history EXCEPT ![c] = Append(history[c], row)]
  PROVE  /\ \A d \in Claim \ {c} : history'[d] = history[d]
         /\ Len(history[c]) \in Nat
         /\ Len(history'[c]) = Len(history[c]) + 1
         /\ \A k \in 1..Len(history[c]) : history'[c][k] = history[c][k]
         /\ history'[c][Len(history[c]) + 1] = row
         /\ history'[c] # <<>>
<1>1. /\ \A d \in Claim \ {c} : history'[d] = history[d]
      /\ history'[c] = Append(history[c], row)
      /\ history[c] \in Seq(HistoryRow)
  BY DEF TypeOK
<1> DEFINE h == history[c]
           g == history'[c]
<1>2. /\ Len(h) \in Nat
      /\ Len(Append(h, row)) = Len(h) + 1
      /\ \A k \in 1..Len(h) : Append(h, row)[k] = h[k]
      /\ Append(h, row)[Len(h) + 1] = row
  <2> HIDE DEF h
  <2>1. h \in Seq(HistoryRow)
    BY <1>1 DEF h
  <2>2. QED
    BY <2>1
<1>3. g # <<>>
  BY <1>1, <1>2
<1>4. QED
  BY <1>1, <1>2, <1>3

\* What write_audit does to the number of history rows a claim should have.
LEMMA LogFacts ==
  ASSUME TypeOK, NEW c \in Claim, NEW a \in AuditAction, Log(c, a)
  PROVE  /\ \A d \in Claim : Recorded(d) \in Nat
         /\ \A d \in Claim \ {c} : Recorded(d)' = Recorded(d)
         /\ (a = "submit") => (Recorded(c)' = Recorded(c) + 3)
         /\ (a \in {"create", "status_change"}) => (Recorded(c)' = Recorded(c) + 1)
<1>1. \A d \in Claim : audit[d] \in [AuditAction -> Nat]
  BY DEF TypeOK
<1>2. \A d \in Claim : \A b \in AuditAction : audit[d][b] \in Nat
  BY <1>1
<1>3. /\ \A d \in Claim \ {c} : audit'[d] = audit[d]
      /\ audit'[c] = [audit[c] EXCEPT ![a] = audit[c][a] + 1]
  BY DEF Log, TypeOK
<1>4. /\ \A b \in AuditAction \ {a} : audit'[c][b] = audit[c][b]
      /\ audit'[c][a] = audit[c][a] + 1
  BY <1>1, <1>3
<1>5. \A d \in Claim : Recorded(d) \in Nat
  BY <1>2 DEF Recorded, AuditAction
<1>6. \A d \in Claim \ {c} : Recorded(d)' = Recorded(d)
  BY <1>3 DEF Recorded
<1>7. ASSUME a = "submit" PROVE Recorded(c)' = Recorded(c) + 3
  BY <1>2, <1>4, <1>7 DEF Recorded, AuditAction
<1>8. ASSUME a = "create" PROVE Recorded(c)' = Recorded(c) + 1
  BY <1>2, <1>4, <1>8 DEF Recorded, AuditAction
<1>9. ASSUME a = "status_change" PROVE Recorded(c)' = Recorded(c) + 1
  BY <1>2, <1>4, <1>9 DEF Recorded, AuditAction
<1>10. QED
  BY <1>5, <1>6, <1>7, <1>8, <1>9

\* create_claim: the first row of a history, and a draft that was not there.
LEMMA RecordCreate ==
  ASSUME TypeOK, RecordInv, NEW u \in User, NEW c \in Claim, CreateClaim(u, c)
  PROVE  RecordInv'
<1> DEFINE row == [from |-> None, to |-> "draft", by |-> u]
<1>1. /\ claims[c] \in Row
      /\ claims'[c] = [claims[c] EXCEPT !.status = "draft"]
      /\ \A d \in Claim \ {c} : claims'[d] = claims[d]
      /\ UNCHANGED <<analyses, txn>>
  BY DEF CreateClaim, TypeOK
<1>2. /\ claims'[c].status = "draft"
      /\ claims'[c].score = claims[c].score
      /\ claims'[c].submitted = claims[c].submitted
  BY <1>1 DEF Row
<1>3. history[c] = <<>>
  BY DEF CreateClaim, RecordInv, CopiesAreOlder
<1>4. row \in HistoryRow
  BY DEF HistoryRow, Status
<1>5. /\ history'[c] = <<row>>
      /\ \A d \in Claim \ {c} : history'[d] = history[d]
  BY <1>3 DEF CreateClaim, TypeOK
<1>6. /\ Len(history[c]) = 0 /\ Len(history'[c]) = 1 /\ history'[c][1] = row
      /\ history'[c] # <<>>
  BY <1>3, <1>5
<1>7. /\ Recorded(c)' = Recorded(c) + 1
      /\ \A d \in Claim \ {c} : Recorded(d)' = Recorded(d)
  BY LogFacts DEF CreateClaim, AuditAction
<1>8. ScoreIsLastVerdict' /\ SubmittedMeansAnalysed'
  BY <1>1, <1>2 DEF RecordInv, ScoreIsLastVerdict, SubmittedMeansAnalysed
<1>9. HistoryMatchesAudit'
  <2>1. \A d \in Claim : Len(history[d]) = Recorded(d)
    BY DEF RecordInv, HistoryMatchesAudit, Recorded
  <2>2. \A d \in Claim : Len(history'[d]) = Recorded(d)'
    <3>1. Len(history'[c]) = Recorded(c)'
      BY <1>6, <1>7, <2>1
    <3>2. \A d \in Claim \ {c} : Len(history'[d]) = Recorded(d)'
      BY <1>5, <1>7, <2>1
    <3>3. QED
      BY <3>1, <3>2
  <2>3. QED
    BY <2>2 DEF HistoryMatchesAudit, Recorded
<1>10. HistoryIsLegal'
  BY <1>5, <1>6 DEF RecordInv, HistoryIsLegal
<1>11. StatusIsLastHistoryRow'
  <2> SUFFICES ASSUME NobodyOverrides, NEW d \in Claim
               PROVE  claims'[d].status =
                        IF history'[d] = <<>> THEN None
                        ELSE history'[d][Len(history'[d])].to
    BY DEF StatusIsLastHistoryRow, NobodyOverrides
  <2>1. CASE d = c
    BY <1>2, <1>6, <2>1
  <2>2. CASE d # c
    BY <1>1, <1>5, <2>2 DEF RecordInv, StatusIsLastHistoryRow
  <2>3. QED
    BY <2>1, <2>2
<1>12. CopiesAreOlder'
  <2>1. claims'[c].status # None
    BY <1>2 DEF None
  <2>2. ASSUME NEW r \in Slot, txn[r].pc # "idle"
        PROVE  /\ claims'[txn[r].claim].status # None
               /\ txn[r].base.submitted => claims'[txn[r].claim].submitted
    <3>1. txn[r].claim \in Claim
      BY <2>2, BusyType DEF TypeOK, BusyTxn
    <3>2. /\ claims[txn[r].claim].status # None
          /\ txn[r].base.submitted => claims[txn[r].claim].submitted
      BY <2>2 DEF RecordInv, CopiesAreOlder
    <3>3. QED
      BY <1>1, <1>2, <2>1, <3>1, <3>2
  <2>3. ASSUME NEW d \in Claim, claims'[d].status = None
        PROVE  history'[d] = <<>>
    BY <1>1, <1>5, <2>1, <2>3 DEF RecordInv, CopiesAreOlder
  <2>4. QED
    BY <1>1, <2>2, <2>3 DEF CopiesAreOlder
<1>13. QED
  BY <1>8, <1>9, <1>10, <1>11, <1>12 DEF RecordInv

\* update_status: one legal row, and columns the decision is not about stay.
LEMMA RecordDecision ==
  ASSUME TypeOK, SessionsOK, RecordInv, NEW s \in Slot, CommitDecision(s)
  PROVE  RecordInv'
<1> DEFINE t == txn[s]
           row == [from |-> t.base.status, to |-> t.new.status, by |-> t.user]
<1>0. PICK c \in Claim : c = txn[s].claim
  BY BusyType DEF CommitDecision, TypeOK, BusyTxn
<1>1. /\ t \in BusyTxn /\ c = t.claim /\ claims[c] \in Row
      /\ t.pc = "decide" /\ t.pc # "idle"
  BY <1>0, BusyType DEF CommitDecision, TypeOK
<1>2. /\ {t.base.status, t.new.status} \subseteq Status
      /\ t.new.score = t.base.score
      /\ t.new.submitted = t.base.submitted
      /\ \/ t.new.status \in ValidTransitions[t.base.status]
         \/ RoleOf[t.user] \in Overriders
  BY <1>1 DEF SessionsOK, SessionOK
<1>3. /\ claims'[c] = Merge(claims[c], t.base, t.new)
      /\ \A d \in Claim \ {c} : claims'[d] = claims[d]
      /\ analyses' = analyses
      /\ \A r \in Slot \ {s} : txn'[r] = txn[r]
      /\ txn'[s].pc = "idle"
  BY <1>1 DEF CommitDecision, Release, IdleTxn, TypeOK
<1>4. /\ claims'[c].score = claims[c].score
      /\ claims'[c].submitted = claims[c].submitted
      /\ claims'[c].status = IF t.new.status = t.base.status
                             THEN claims[c].status ELSE t.new.status
  BY <1>2, <1>3 DEF Merge, Column
<1>5. claims[c].status # None /\ claims'[c].status # None
  BY <1>1, <1>2, <1>4 DEF RecordInv, CopiesAreOlder, Status, None
<1>6. row \in HistoryRow /\ t.base.status # None
  BY <1>1, <1>2 DEF HistoryRow, BusyTxn, Status, None
<1>7. /\ history' = [history EXCEPT ![c] = Append(history[c], row)]
      /\ Log(c, "status_change")
  BY <1>1 DEF CommitDecision
<1> DEFINE n == Len(history[c])
<1>8. /\ \A d \in Claim \ {c} : history'[d] = history[d]
      /\ n \in Nat /\ Len(history'[c]) = n + 1
      /\ \A k \in 1..n : history'[c][k] = history[c][k]
      /\ history'[c][n + 1] = row
      /\ history'[c] # <<>>
  <2> HIDE DEF row
  <2>1. QED
    BY <1>6, <1>7, AppendOneFacts
<1>9. /\ Recorded(c)' = Recorded(c) + 1
      /\ \A d \in Claim \ {c} : Recorded(d)' = Recorded(d)
  BY <1>7, LogFacts DEF AuditAction
<1> HIDE DEF row, n
<1>10. ScoreIsLastVerdict' /\ SubmittedMeansAnalysed'
  BY <1>3, <1>4 DEF RecordInv, ScoreIsLastVerdict, SubmittedMeansAnalysed
<1>11. HistoryMatchesAudit'
  <2>1. \A d \in Claim : Len(history[d]) = Recorded(d)
    BY DEF RecordInv, HistoryMatchesAudit, Recorded
  <2>2. Len(history'[c]) = Recorded(c)'
    BY <1>1, <1>8, <1>9, <2>1 DEF n
  <2>3. \A d \in Claim : Len(history'[d]) = Recorded(d)'
    BY <1>8, <1>9, <2>1, <2>2
  <2>4. QED
    BY <2>3 DEF HistoryMatchesAudit, Recorded
<1>12. HistoryIsLegal'
  <2> SUFFICES ASSUME NEW d \in Claim, NEW k \in 1..Len(history'[d])
               PROVE  \/ /\ history'[d][k].from = None
                         /\ history'[d][k].to = "draft" /\ k = 1
                      \/ /\ history'[d][k].from # None
                         /\ history'[d][k].to \in ValidTransitions[history'[d][k].from]
                      \/ RoleOf[history'[d][k].by] \in Overriders
    BY DEF HistoryIsLegal
  <2>1. CASE d = c /\ k = n + 1
    BY <1>2, <1>6, <1>8, <2>1 DEF row
  <2>2. CASE ~(d = c /\ k = n + 1)
    <3>1. k \in 1..Len(history[d]) /\ history'[d][k] = history[d][k]
      BY <1>8, <2>2 DEF n
    <3>2. QED
      BY <3>1 DEF RecordInv, HistoryIsLegal
  <2>3. QED
    BY <2>1, <2>2
<1>13. StatusIsLastHistoryRow'
  <2> SUFFICES ASSUME NobodyOverrides, NEW d \in Claim
               PROVE  claims'[d].status =
                        IF history'[d] = <<>> THEN None
                        ELSE history'[d][Len(history'[d])].to
    BY DEF StatusIsLastHistoryRow, NobodyOverrides
  <2>1. CASE d = c
    <3>1. t.new.status # t.base.status
      BY <1>1, <1>2, TableFacts DEF NobodyOverrides, BusyTxn
    <3>2. QED
      BY <1>4, <1>8, <2>1, <3>1 DEF row
  <2>2. CASE d # c
    BY <1>3, <1>8, <2>2 DEF RecordInv, StatusIsLastHistoryRow
  <2>3. QED
    BY <2>1, <2>2
<1>14. CopiesAreOlder'
  <2>1. ASSUME NEW r \in Slot, txn'[r].pc # "idle"
        PROVE  /\ claims'[txn'[r].claim].status # None
               /\ txn'[r].base.submitted => claims'[txn'[r].claim].submitted
    <3>1. txn'[r] = txn[r] /\ txn[r].pc # "idle" /\ txn[r].claim \in Claim
      BY <1>3, <2>1, BusyType DEF TypeOK, BusyTxn
    <3>2. /\ claims[txn[r].claim].status # None
          /\ txn[r].base.submitted => claims[txn[r].claim].submitted
      BY <3>1 DEF RecordInv, CopiesAreOlder
    <3>3. QED
      BY <1>3, <1>4, <1>5, <3>1, <3>2
  <2>2. ASSUME NEW d \in Claim, claims'[d].status = None
        PROVE  history'[d] = <<>>
    BY <1>3, <1>5, <1>8, <2>2 DEF RecordInv, CopiesAreOlder
  <2>3. QED
    BY <2>1, <2>2 DEF CopiesAreOlder
<1>15. QED
  BY <1>10, <1>11, <1>12, <1>13, <1>14 DEF RecordInv

\* submit: three legal rows, and score and submission mark of a new analysis,
\* whatever copy of the row the session started from.
LEMMA RecordSubmit ==
  ASSUME TypeOK, SessionsOK, RecordInv, NEW s \in Slot, CommitSubmit(s)
  PROVE  RecordInv'
<1> DEFINE t == txn[s]
           Step(x, y) == [from |-> x, to |-> y, by |-> t.user]
           rows == <<Step(t.base.status, "submitted"),
                     Step("submitted", "ai_processing"),
                     Step("ai_processing", t.new.status)>>
           made == [images |-> t.images, verdict |-> t.new.score]
<1>0. PICK c \in Claim : c = txn[s].claim
  BY BusyType DEF CommitSubmit, TypeOK, BusyTxn
<1>1. /\ t \in BusyTxn /\ t \in Txn /\ c = t.claim /\ claims[c] \in Row
      /\ t.new \in Row /\ t.base \in Row /\ t.user \in User
      /\ t.pc = "assessed" /\ t.pc # "idle"
  BY <1>0, BusyType DEF CommitSubmit, TypeOK, BusyTxn
<1>2. /\ t.base.status = "draft"
      /\ t.new.submitted
      /\ t.new.score \in Verdict
      /\ t.new.status = ReviewStatus(t.new.score)
      /\ t.new.status \in {"fraud_review", "surveyor_review"}
  BY <1>1, ReviewStatusType DEF SessionsOK, SessionOK
<1>3. /\ claims'[c] = SubmittedRow(claims[c], t)
      /\ \A d \in Claim \ {c} : claims'[d] = claims[d]
      /\ \A r \in Slot \ {s} : txn'[r] = txn[r]
      /\ txn'[s].pc = "idle"
  BY <1>1 DEF CommitSubmit, Release, IdleTxn, TypeOK
<1>4. /\ claims'[c].score = t.new.score
      /\ claims'[c].submitted
      /\ claims'[c].status = t.new.status
  <2>1. claims'[c].score = t.new.score
    BY <1>1, <1>3, SubmittedRowType
  <2>2. t.base.submitted => claims[c].submitted
    BY <1>1 DEF RecordInv, CopiesAreOlder
  <2>3. /\ Merge(claims[c], t.base, t.new).submitted
        /\ Merge(claims[c], t.base, t.new).status = t.new.status
    BY <1>1, <1>2, <2>2 DEF Merge, Column, Row
  <2>4. Merge(claims[c], t.base, t.new) \in Row
    BY <1>1, MergeType
  <2>5. QED
    BY <1>3, <2>1, <2>3, <2>4 DEF SubmittedRow, Row
<1>5. claims'[c].status # None
  BY <1>2, <1>4 DEF None
<1>6. /\ history' = [history EXCEPT ![c] = history[c] \o rows]
      /\ analyses' = [analyses EXCEPT ![c] = Append(analyses[c], made)]
      /\ Log(c, "submit")
  BY <1>1 DEF CommitSubmit
<1>7. /\ rows \in Seq(HistoryRow) /\ Len(rows) = 3
      /\ rows[1] = Step("draft", "submitted")
      /\ rows[2] = Step("submitted", "ai_processing")
      /\ rows[3] = Step("ai_processing", t.new.status)
  BY <1>1, <1>2 DEF HistoryRow, Status
<1> DEFINE n == Len(history[c])
<1>8. /\ \A d \in Claim \ {c} : history'[d] = history[d]
      /\ n \in Nat /\ Len(history'[c]) = n + 3
      /\ \A k \in 1..n : history'[c][k] = history[c][k]
      /\ history'[c][n + 1] = rows[1]
      /\ history'[c][n + 2] = rows[2]
      /\ history'[c][n + 3] = rows[3]
      /\ history'[c] # <<>>
  <2>1. rows \in Seq(HistoryRow) /\ Len(rows) = 3 /\ 1..3 = {1, 2, 3}
    BY <1>7
  <2> HIDE DEF rows
  <2>2. /\ \A d \in Claim \ {c} : history'[d] = history[d]
        /\ n \in Nat /\ Len(history'[c]) = n + Len(rows)
        /\ \A k \in 1..n : history'[c][k] = history[c][k]
        /\ \A k \in 1..Len(rows) : history'[c][n + k] = rows[k]
        /\ (Len(rows) # 0) => (history'[c] # <<>>)
    BY <1>6, <2>1, AppendFacts
  <2> HIDE DEF n
  <2>3. QED
    BY <2>1, <2>2
<1>9. /\ analyses'[c] # <<>>
      /\ analyses'[c][Len(analyses'[c])] = made
      /\ \A d \in Claim \ {c} : analyses'[d] = analyses[d]
  <2>1. analyses[c] \in Seq(Analysis) /\ made \in Analysis
    BY <1>1, <1>2 DEF TypeOK, Analysis, BusyTxn
  <2>2. /\ analyses'[c] = Append(analyses[c], made)
        /\ \A d \in Claim \ {c} : analyses'[d] = analyses[d]
    BY <1>6 DEF TypeOK
  <2> HIDE DEF made
  <2>3. /\ Append(analyses[c], made) # <<>>
        /\ Append(analyses[c], made)[Len(Append(analyses[c], made))] = made
    BY <2>1
  <2>4. QED
    BY <2>2, <2>3
<1>10. /\ Recorded(c)' = Recorded(c) + 3
       /\ \A d \in Claim \ {c} : Recorded(d)' = Recorded(d)
  BY <1>6, LogFacts DEF AuditAction
<1>11. ScoreIsLastVerdict' /\ SubmittedMeansAnalysed'
  <2>1. made.verdict = t.new.score
    OBVIOUS
  <2>2. \A d \in Claim :
          claims'[d].score = IF analyses'[d] = <<>> THEN None
                             ELSE analyses'[d][Len(analyses'[d])].verdict
    <3>1. ASSUME NEW d \in Claim \ {c}
          PROVE  claims'[d].score = IF analyses'[d] = <<>> THEN None
                                    ELSE analyses'[d][Len(analyses'[d])].verdict
      BY <1>3, <1>9 DEF RecordInv, ScoreIsLastVerdict
    <3>2. QED
      BY <1>4, <1>9, <2>1, <3>1
  <2>3. \A d \in Claim : claims'[d].submitted <=> analyses'[d] # <<>>
    BY <1>3, <1>4, <1>9 DEF RecordInv, SubmittedMeansAnalysed
  <2>4. QED
    BY <2>2, <2>3 DEF ScoreIsLastVerdict, SubmittedMeansAnalysed
<1>12. HistoryMatchesAudit'
  <2>1. \A d \in Claim : Len(history[d]) = Recorded(d)
    BY DEF RecordInv, HistoryMatchesAudit, Recorded
  <2>2. Len(history'[c]) = Recorded(c)'
    BY <1>8, <1>10, <2>1
  <2>3. \A d \in Claim : Len(history'[d]) = Recorded(d)'
    BY <1>8, <1>10, <2>1, <2>2
  <2>4. QED
    BY <2>3 DEF HistoryMatchesAudit, Recorded
<1>13. HistoryIsLegal'
  <2> SUFFICES ASSUME NEW d \in Claim, NEW k \in 1..Len(history'[d])
               PROVE  \/ /\ history'[d][k].from = None
                         /\ history'[d][k].to = "draft" /\ k = 1
                      \/ /\ history'[d][k].from # None
                         /\ history'[d][k].to \in ValidTransitions[history'[d][k].from]
                      \/ RoleOf[history'[d][k].by] \in Overriders
    BY DEF HistoryIsLegal
  <2>1. CASE d = c /\ k \in {n + 1, n + 2, n + 3}
    <3>1. history'[d][k] \in {rows[1], rows[2], rows[3]}
      BY <1>8, <2>1
    <3>2. "draft" # None /\ "submitted" # None /\ "ai_processing" # None
      BY DEF None
    <3>3. \A r \in {rows[1], rows[2], rows[3]} :
            r.from # None /\ r.to \in ValidTransitions[r.from]
      BY <1>2, <1>7, <3>2, TableFacts
    <3>4. QED
      BY <3>1, <3>3
  <2>2. CASE ~(d = c /\ k \in {n + 1, n + 2, n + 3})
    <3>1. k \in 1..Len(history[d]) /\ history'[d][k] = history[d][k]
      <4>1. CASE d = c
        BY <1>8, <2>2, <4>1
      <4>2. CASE d # c
        BY <1>8, <4>2
      <4>3. QED
        BY <4>1, <4>2
    <3>2. QED
      BY <3>1 DEF RecordInv, HistoryIsLegal
  <2>3. QED
    BY <2>1, <2>2
<1>14. StatusIsLastHistoryRow'
  <2> SUFFICES ASSUME NobodyOverrides, NEW d \in Claim
               PROVE  claims'[d].status =
                        IF history'[d] = <<>> THEN None
                        ELSE history'[d][Len(history'[d])].to
    BY DEF StatusIsLastHistoryRow, NobodyOverrides
  <2>1. CASE d = c
    BY <1>4, <1>7, <1>8, <2>1
  <2>2. CASE d # c
    BY <1>3, <1>8, <2>2 DEF RecordInv, StatusIsLastHistoryRow
  <2>3. QED
    BY <2>1, <2>2
<1>15. CopiesAreOlder'
  <2>1. ASSUME NEW r \in Slot, txn'[r].pc # "idle"
        PROVE  /\ claims'[txn'[r].claim].status # None
               /\ txn'[r].base.submitted => claims'[txn'[r].claim].submitted
    <3>1. txn'[r] = txn[r] /\ txn[r].pc # "idle" /\ txn[r].claim \in Claim
      BY <1>3, <2>1, BusyType DEF TypeOK, BusyTxn
    <3>2. /\ claims[txn[r].claim].status # None
          /\ txn[r].base.submitted => claims[txn[r].claim].submitted
      BY <3>1 DEF RecordInv, CopiesAreOlder
    <3>3. QED
      BY <1>3, <1>4, <1>5, <3>1, <3>2
  <2>2. ASSUME NEW d \in Claim, claims'[d].status = None
        PROVE  history'[d] = <<>>
    BY <1>3, <1>5, <1>8, <2>2 DEF RecordInv, CopiesAreOlder
  <2>3. QED
    BY <2>1, <2>2 DEF CopiesAreOlder
<1>16. QED
  BY <1>11, <1>12, <1>13, <1>14, <1>15 DEF RecordInv

-----------------------------------------------------------------------------
\* The theorems.

\* An empty database keeps its records straight.
LEMMA RecordInit == Init => RecordInv
<1> SUFFICES ASSUME Init PROVE RecordInv
  OBVIOUS
<1>1. \A c \in Claim : /\ claims[c] = NoRow /\ analyses[c] = <<>>
                       /\ history[c] = <<>> /\ Len(history[c]) = 0
                       /\ \A a \in AuditAction : audit[c][a] = 0
  BY DEF Init
<1>2. \A s \in Slot : txn[s].pc = "idle"
  BY DEF Init, IdleTxn
<1>3. ScoreIsLastVerdict /\ SubmittedMeansAnalysed /\ StatusIsLastHistoryRow
  BY <1>1 DEF ScoreIsLastVerdict, SubmittedMeansAnalysed, StatusIsLastHistoryRow,
     NoRow
<1>4. HistoryMatchesAudit /\ HistoryIsLegal
  BY <1>1 DEF HistoryMatchesAudit, HistoryIsLegal, AuditAction
<1>5. CopiesAreOlder
  BY <1>1, <1>2 DEF CopiesAreOlder
<1>6. QED
  BY <1>3, <1>4, <1>5 DEF RecordInv

\* Every step keeps the record invariant.
LEMMA RecordStep == Typed /\ RecordInv /\ [Next]_vars => RecordInv'
<1> SUFFICES ASSUME TypeOK, SessionsOK, RecordInv, [Next]_vars
             PROVE  RecordInv'
  BY DEF Typed
<1>1. CASE Private
  BY <1>1, RecordPrivate
<1>2. ASSUME NEW u \in User, NEW c \in Claim, CreateClaim(u, c)
      PROVE  RecordInv'
  BY <1>2, RecordCreate
<1>3. ASSUME NEW s \in Slot, CommitSubmit(s)
      PROVE  RecordInv'
  BY <1>3, RecordSubmit
<1>4. ASSUME NEW s \in Slot, CommitDecision(s)
      PROVE  RecordInv'
  BY <1>4, RecordDecision
<1>5. QED
  BY <1>1, <1>2, <1>3, <1>4, RecordKinds

\* The fraud score on a claim is the verdict of its newest assessment, whatever
\* stale copies of the row are written back (run_ai_pipeline's reset and flush).
THEOREM ScoreIsNewest == Spec => []ScoreIsLastVerdict
<1>1. RecordInv => ScoreIsLastVerdict
  BY DEF RecordInv
<1>2. QED
  BY <1>1, TypedInit, TypedStep, RecordInit, RecordStep, PTL DEF Spec

\* submitted_at is set exactly on the claims the pipeline has analysed (submit).
THEOREM SubmissionsAreAnalysed == Spec => []SubmittedMeansAnalysed
<1>1. RecordInv => SubmittedMeansAnalysed
  BY DEF RecordInv
<1>2. QED
  BY <1>1, TypedInit, TypedStep, RecordInit, RecordStep, PTL DEF Spec

\* Status history and audit log agree in length in every committed state
\* (_transition and write_audit share the request's transaction).
THEOREM AuditIsComplete == Spec => []HistoryMatchesAudit
<1>1. RecordInv => HistoryMatchesAudit
  BY DEF RecordInv
<1>2. QED
  BY <1>1, TypedInit, TypedStep, RecordInit, RecordStep, PTL DEF Spec

\* Every history row is legal by itself, in every interleaving (update_status
\* and submit check the copy the row's from_status is taken from).
THEOREM HistoryStaysLegal == Spec => []HistoryIsLegal
<1>1. RecordInv => HistoryIsLegal
  BY DEF RecordInv
<1>2. QED
  BY <1>1, TypedInit, TypedStep, RecordInit, RecordStep, PTL DEF Spec

\* While nobody overrides, the newest history row names the claim's status
\* (_transition writes both).
THEOREM HistoryNamesStatus == Spec => []StatusIsLastHistoryRow
<1>1. RecordInv => StatusIsLastHistoryRow
  BY DEF RecordInv
<1>2. QED
  BY <1>1, TypedInit, TypedStep, RecordInit, RecordStep, PTL DEF Spec

-----------------------------------------------------------------------------
\* The columns of a decision.

\* A session wants to change such a column for the decision it belongs to only.
OwnColumns(t) ==
  /\ t.new.amount # t.base.amount => t.pc = "decide" /\ t.new.status = "approved"
  /\ t.new.reason # t.base.reason => t.pc = "decide" /\ t.new.status = "rejected"
  /\ t.new.surveyor # t.base.surveyor =>
       t.pc = "decide" /\ t.new.status = "surveyor_review"
  /\ t.new.closed # t.base.closed => t.pc = "decide" /\ t.new.status = "closed"

SessionsOwn == \A s \in Slot : OwnColumns(txn[s])

\* What update_status asks for.
LEMMA DecidedOwns ==
  ASSUME NEW r \in Row, NEW u \in User, NEW to \in Status,
         NEW amount \in Amount \union {None}, NEW reason \in BOOLEAN,
         NEW new, new = Decided(r, u, to, amount, reason)
  PROVE  /\ new.status = to
         /\ new.amount # r.amount => to = "approved"
         /\ new.reason # r.reason => to = "rejected"
         /\ new.surveyor # r.surveyor => to = "surveyor_review"
         /\ new.closed # r.closed => to = "closed"
  BY DEF Decided, Row

LEMMA OwnLoad ==
  ASSUME TypeOK, SessionsOwn, NEW s \in Slot, NEW u \in User, NEW c \in Claim,
         \/ \E i \in Image : LoadForUpload(s, u, c, i)
         \/ LoadForSubmit(s, u, c)
         \/ \E to \in Target, amount \in Amount \union {None}, reason \in BOOLEAN :
              LoadForDecision(s, u, c, to, amount, reason)
  PROVE  SessionsOwn'
<1>1. SUFFICES OwnColumns(txn'[s]) /\ \A r \in Slot \ {s} : txn'[r] = txn[r]
  BY DEF SessionsOwn
<1>2. \A r \in Slot \ {s} : txn'[r] = txn[r]
  BY DEF LoadForUpload, LoadForSubmit, LoadForDecision, TypeOK
<1>3. CASE \E i \in Image : LoadForUpload(s, u, c, i)
  BY <1>2, <1>3 DEF LoadForUpload, OwnColumns, TypeOK
<1>4. CASE LoadForSubmit(s, u, c)
  BY <1>2, <1>4 DEF LoadForSubmit, OwnColumns, TypeOK
<1>5. ASSUME NEW to \in Target, NEW amount \in Amount \union {None},
             NEW reason \in BOOLEAN, LoadForDecision(s, u, c, to, amount, reason)
      PROVE  OwnColumns(txn'[s])
  <2>1. PICK new : new = Decided(claims[c], u, to, amount, reason)
    OBVIOUS
  <2>2. txn'[s] = [pc |-> "decide", user |-> u, claim |-> c, base |-> claims[c],
                   new |-> new, images |-> {}]
    BY <1>5, <2>1 DEF LoadForDecision, TypeOK
  <2>3. claims[c] \in Row /\ to \in Status
    BY ConstantsAssumption DEF TypeOK
  <2> QED
    BY <2>1, <2>2, <2>3, DecidedOwns DEF OwnColumns
<1>6. QED
  BY <1>2, <1>3, <1>4, <1>5

\* The pipeline writes status, score and submitted_at only.
LEMMA OwnPipeline ==
  ASSUME TypeOK, SessionsOwn, NEW s \in Slot, StartAnalysis(s) \/ Assess(s)
  PROVE  SessionsOwn'
<1>1. PICK t \in BusyTxn : t = txn[s] /\ t.pc \in {"submit", "analyse"}
  BY BusyType DEF StartAnalysis, Assess, TypeOK
<1>2. \E r \in Row :
        /\ r.amount = t.new.amount /\ r.reason = t.new.reason
        /\ r.surveyor = t.new.surveyor /\ r.closed = t.new.closed
        /\ txn'[s].new = r /\ txn'[s].base = t.base
        /\ \A x \in Slot \ {s} : txn'[x] = txn[x]
  <2>1. CASE StartAnalysis(s)
    <3>1. PICK r : r = InProcessing(t.new)
      OBVIOUS
    <3>2. txn' = [txn EXCEPT ![s] =
                    [t EXCEPT !.pc = "analyse", !.new = r, !.images = images[t.claim]]]
      BY <1>1, <2>1, <3>1 DEF StartAnalysis
    <3>3. /\ r \in Row /\ r.amount = t.new.amount /\ r.reason = t.new.reason
          /\ r.surveyor = t.new.surveyor /\ r.closed = t.new.closed
      BY <1>1, <3>1 DEF InProcessing, BusyTxn, Row, Status
    <3> QED
      BY <1>1, <3>2, <3>3 DEF TypeOK, BusyTxn
  <2>2. CASE Assess(s)
    <3>1. PICK v \in Verdict :
            txn' = [txn EXCEPT ![s] =
                      [t EXCEPT !.pc = "assessed", !.new = Judged(t.new, v)]]
      BY <1>1, <2>2 DEF Assess
    <3>2. PICK r : r = Judged(t.new, v)
      OBVIOUS
    <3>3. /\ r \in Row /\ r.amount = t.new.amount /\ r.reason = t.new.reason
          /\ r.surveyor = t.new.surveyor /\ r.closed = t.new.closed
      BY <1>1, <3>2, ReviewStatusType DEF Judged, BusyTxn, Row, Status
    <3> QED
      BY <1>1, <3>1, <3>2, <3>3 DEF TypeOK, BusyTxn
  <2> QED
    BY <2>1, <2>2
<1>3. OwnColumns(t)
  BY <1>1 DEF SessionsOwn
<1> QED
  BY <1>1, <1>2, <1>3 DEF SessionsOwn, OwnColumns

LEMMA OwnStep == TypeOK /\ SessionsOwn /\ [Next]_vars => SessionsOwn'
<1> SUFFICES ASSUME TypeOK, SessionsOwn, [Next]_vars
             PROVE  SessionsOwn'
  OBVIOUS
<1>1. ASSUME NEW s \in Slot, Release(s)
      PROVE  SessionsOwn'
  BY <1>1 DEF Release, SessionsOwn, OwnColumns, IdleTxn, TypeOK
<1>2. CASE UNCHANGED txn
  BY <1>2 DEF SessionsOwn
<1> QED
  BY <1>1, <1>2, OwnLoad, OwnPipeline
  DEF Next, vars, Progress, CreateClaim, CommitUpload, RejectSubmit, CommitSubmit,
      CommitDecision, Rollback

\* What an UPDATE of columns a session leaves alone does to them.
LEMMA MergeKeeps ==
  ASSUME NEW r \in Row, NEW b \in Row, NEW n \in Row, NEW m, m = Merge(r, b, n)
  PROVE  /\ n.amount = b.amount => m.amount = r.amount
         /\ n.reason = b.reason => m.reason = r.reason
         /\ n.surveyor = b.surveyor => m.surveyor = r.surveyor
         /\ n.closed = b.closed => m.closed = r.closed
  BY DEF Merge, Column

LEMMA ColumnsStep ==
  TypeOK /\ SessionsOK /\ SessionsOwn /\ [Next]_vars
    => [\A c \in Claim :
          LET row     == claims[c]
              after   == claims'[c]
              decided == history'[c][Len(history'[c])].to
          IN /\ after.amount # row.amount => decided = "approved"
             /\ after.reason # row.reason => decided = "rejected"
             /\ after.surveyor # row.surveyor => decided = "surveyor_review"
             /\ after.closed # row.closed => decided = "closed"]_vars
<1> DEFINE Kept(c) == /\ claims'[c].amount = claims[c].amount
                      /\ claims'[c].reason = claims[c].reason
                      /\ claims'[c].surveyor = claims[c].surveyor
                      /\ claims'[c].closed = claims[c].closed
           Told(c) == LET decided == history'[c][Len(history'[c])].to IN
             /\ claims'[c].amount # claims[c].amount => decided = "approved"
             /\ claims'[c].reason # claims[c].reason => decided = "rejected"
             /\ claims'[c].surveyor # claims[c].surveyor => decided = "surveyor_review"
             /\ claims'[c].closed # claims[c].closed => decided = "closed"
<1> SUFFICES ASSUME TypeOK, SessionsOK, SessionsOwn, [Next]_vars, NEW c \in Claim
             PROVE  Kept(c) \/ Told(c)
  OBVIOUS
<1>1. CASE Private
  BY <1>1 DEF Private
<1>2. ASSUME NEW u \in User, NEW d \in Claim, CreateClaim(u, d)
      PROVE  Kept(c)
  BY <1>2 DEF CreateClaim, TypeOK, Row
<1>3. ASSUME NEW s \in Slot, CommitSubmit(s)
      PROVE  Kept(c)
  <2>1. PICK t \in BusyTxn : t = txn[s] /\ t.pc = "assessed"
    BY <1>3, BusyType DEF CommitSubmit, TypeOK
  <2>2. /\ t.claim \in Claim /\ t.base \in Row /\ t.new \in Row
        /\ claims[t.claim] \in Row
    BY <2>1 DEF BusyTxn, TypeOK
  <2>3. /\ t.new.amount = t.base.amount /\ t.new.reason = t.base.reason
        /\ t.new.surveyor = t.base.surveyor /\ t.new.closed = t.base.closed
    BY <2>1 DEF SessionsOwn, OwnColumns
  <2>4. PICK m : m = Merge(claims[t.claim], t.base, t.new)
    OBVIOUS
  <2>5. m \in Row
    BY <2>2, <2>4, MergeType
  <2>6. PICK r : r = SubmittedRow(claims[t.claim], t)
    OBVIOUS
  <2>7. /\ r.amount = m.amount /\ r.reason = m.reason
        /\ r.surveyor = m.surveyor /\ r.closed = m.closed
    BY <2>4, <2>5, <2>6 DEF SubmittedRow, Row
  <2>8. claims' = [claims EXCEPT ![t.claim] = r]
    BY <1>3, <2>1, <2>6 DEF CommitSubmit
  <2> QED
    BY <2>2, <2>3, <2>4, <2>7, <2>8, MergeKeeps DEF TypeOK
<1>4. ASSUME NEW s \in Slot, CommitDecision(s)
      PROVE  Kept(c) \/ Told(c)
  <2>1. PICK t \in BusyTxn : t = txn[s] /\ t.pc = "decide"
    BY <1>4, BusyType DEF CommitDecision, TypeOK
  <2>2. /\ t.claim \in Claim /\ t.base \in Row /\ t.new \in Row
        /\ claims[t.claim] \in Row /\ history[t.claim] \in Seq(HistoryRow)
    BY <2>1 DEF BusyTxn, TypeOK
  <2>3. OwnColumns(t)
    BY <2>1 DEF SessionsOwn
  <2>4. PICK m : m = Merge(claims[t.claim], t.base, t.new)
    OBVIOUS
  <2>5. claims' = [claims EXCEPT ![t.claim] = m]
    BY <1>4, <2>1, <2>4 DEF CommitDecision
  <2>6. history'[t.claim] = Append(history[t.claim],
                                   [from |-> t.base.status, to |-> t.new.status,
                                    by |-> t.user])
    BY <1>4, <2>1, <2>2 DEF CommitDecision, TypeOK
  <2>7. history'[t.claim][Len(history'[t.claim])].to = t.new.status
    BY <2>2, <2>6
  <2>8. CASE c = t.claim
    BY <2>2, <2>3, <2>4, <2>5, <2>7, <2>8, MergeKeeps DEF OwnColumns, TypeOK
  <2>9. CASE c # t.claim
    BY <2>2, <2>5, <2>9 DEF TypeOK
  <2> QED
    BY <2>8, <2>9
<1> QED
  BY <1>1, <1>2, <1>3, <1>4, RecordKinds

\* Whatever stale copies are written back, an amount, a reason, a surveyor or
\* the time of closing changes with its own decision only (update_status).
THEOREM DecisionsOwnTheirColumns == Spec => DecisionsKeepTheirColumns
<1>1. Typed => TypeOK /\ SessionsOK
  BY DEF Typed
<1>2. Init => SessionsOwn
  BY DEF Init, SessionsOwn, OwnColumns, IdleTxn
<1> QED
  BY <1>1, <1>2, TypedInit, TypedStep, OwnStep, ColumnsStep, PTL
  DEF Spec, DecisionsKeepTheirColumns

=============================================================================
