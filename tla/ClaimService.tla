---------------------------- MODULE ClaimService ----------------------------
(***************************************************************************)
(* The claim service as it runs: HTTP requests of several users, each one  *)
(* a database session of its own, interleaved at the points where a        *)
(* handler awaits the database.                                            *)
(*                                                                         *)
(* A handler first SELECTs the claim row and from then on works on its own *)
(* copy of it; no SELECT locks the row and no row carries a version.  The  *)
(* first UPDATE of the row takes its lock, which is held until the session *)
(* commits; a second writer waits for it and then writes what ITS copy     *)
(* says, and only the columns that differ from what it loaded.  get_db     *)
(* commits after the handler returns and rolls back on every exception.    *)
(***************************************************************************)
EXTENDS ClaimWorkflow, Naturals, Sequences

CONSTANTS Claim,        \* claim identifiers
          Image,        \* image rows; one value per upload attempt
          User,
          Slot,         \* database sessions that may be open at the same time
          Amount,       \* approved amounts
          RoleOf,       \* user -> role
          OwnerOf,      \* claim -> the customer who owns the insured vehicle
          Digest,       \* image -> the hash of its content
          Target,       \* bound: the statuses staff ask for
          MaxRequests   \* bound: requests accepted in one behaviour

ASSUME ConstantsAssumption ==
  /\ RoleOf \in [User -> Role]
  /\ OwnerOf \in [Claim -> User]
  /\ DOMAIN Digest = Image
  /\ None \notin User \union Amount \union Claim
  /\ Target \subseteq Status
  /\ MaxRequests \in Nat

VARIABLES
  claims,     \* table claims: claim -> committed row
  images,     \* table claim_images: claim -> committed rows
  history,    \* table claim_status_history: claim -> rows in commit order
  analyses,   \* tables fraud_assessments, cost_estimates, damage_detections
  audit,      \* table audit_logs: claim -> number of rows per action
  files,      \* images whose file is in the upload directory
  txn,        \* slot -> the request it is serving
  requests    \* requests accepted so far

vars == <<claims, images, history, analyses, audit, files, txn, requests>>
tables == <<claims, images, history, analyses, audit>>

-----------------------------------------------------------------------------
\* Rows.

\* The columns of claims a handler reads or writes.  submitted_at, closed_at
\* and rejection_reason are reduced to whether they are set.
Row == [status    : Status \union {None},
        score     : Verdict \union {None},
        amount    : Amount \union {None},
        reason    : BOOLEAN,
        surveyor  : User \union {None},
        submitted : BOOLEAN,
        closed    : BOOLEAN]

NoRow == [status |-> None, score |-> None, amount |-> None, reason |-> FALSE,
          surveyor |-> None, submitted |-> FALSE, closed |-> FALSE]

HistoryRow == [from : Status \union {None}, to : Status, by : User]

\* What one committed run of the AI pipeline leaves behind: one assessment,
\* one cost estimate, and one detection for each image in the set.
Analysis == [images : SUBSET Image, verdict : Verdict]

AuditAction == {"create", "image_upload", "submit", "status_change"}

Phase == {"idle", "submit", "analyse", "assessed", "upload", "decide"}

\* A request being served: how far it got, for whom, on which claim, the row
\* as it loaded it (base), the row as it wants it (new), the images it is
\* adding or analysing.
BusyTxn == [pc     : Phase \ {"idle"},
            user   : User,
            claim  : Claim,
            base   : Row,
            new    : Row,
            images : SUBSET Image]

IdleTxn == [pc |-> "idle", user |-> None, claim |-> None,
            base |-> NoRow, new |-> NoRow, images |-> {}]

Txn == BusyTxn \union {IdleTxn}

\* Mutants of Column: a column someone else changed meanwhile is silently
\* skipped; every column of the copy is written back.
ColumnIfUnchanged(stored, base, new) ==
  IF new = base \/ stored # base THEN stored ELSE new

WholeRow(stored, base, new) == new

\* The UPDATE a session emits: the columns that differ from what it loaded.
Column(stored, base, new) == IF new = base THEN stored ELSE new

Merge(row, base, new) ==
  [status    |-> Column(row.status, base.status, new.status),
   score     |-> Column(row.score, base.score, new.score),
   amount    |-> Column(row.amount, base.amount, new.amount),
   reason    |-> Column(row.reason, base.reason, new.reason),
   surveyor  |-> Column(row.surveyor, base.surveyor, new.surveyor),
   submitted |-> Column(row.submitted, base.submitted, new.submitted),
   closed    |-> Column(row.closed, base.closed, new.closed)]

\* Mutants of SubmittedRow: fraud_score not reset before it is set; the last
\* transition left to the worker, whose task does nothing.
WithoutScoreReset(row, t) == Merge(row, t.base, t.new)
LeftToWorker(row, t) == [Merge(row, t.base, t.new) EXCEPT !.status = "submitted"]

\* The row submit commits.  The score column is written even when the verdict
\* equals the loaded one: it was set to None and flushed in between.
SubmittedRow(row, t) ==
  [Merge(row, t.base, t.new) EXCEPT !.score = t.new.score]

-----------------------------------------------------------------------------
\* Initial state: an empty database, an empty upload directory.

Init ==
  /\ claims = [c \in Claim |-> NoRow]
  /\ images = [c \in Claim |-> {}]
  /\ history = [c \in Claim |-> <<>>]
  /\ analyses = [c \in Claim |-> <<>>]
  /\ audit = [c \in Claim |-> [a \in AuditAction |-> 0]]
  /\ files = {}
  /\ txn = [s \in Slot |-> IdleTxn]
  /\ requests = 0

-----------------------------------------------------------------------------
\* Helpers of the handlers.

\* A request arrives at an idle session.
Accept ==
  /\ requests < MaxRequests
  /\ requests' = requests + 1

\* _authorize_read and _authorize_write: a customer works on own claims only.
MayWorkOn(u, c) == RoleOf[u] = "customer" => OwnerOf[c] = u

\* Mutants of Locked: the row is locked by the last UPDATE only; every reader
\* locks the row, and nobody queues.
LockedLate(c) ==
  \E s \in Slot : txn[s].claim = c /\ txn[s].pc = "assessed"

LockedByReaders(c) ==
  \E s \in Slot : txn[s].claim = c /\ txn[s].pc # "idle"

\* The row lock: held from a session's first UPDATE to its end.
Holds(s) == txn[s].pc \in {"analyse", "assessed"}

Locked(c) == \E s \in Slot : txn[s].claim = c /\ Holds(s)

\* Mutant of SharesImage: only claims that were analysed are searched.
SharesAnalysedImage(c, pics) ==
  \E d \in Claim \ {c} : \E i \in pics, k \in 1..Len(analyses[d]) :
    \E j \in analyses[d][k].images : Digest[i] = Digest[j]

\* FraudEngine's query: does another claim hold an image with the same hash?
SharesImage(c, pics) ==
  \E d \in Claim \ {c} : \E i \in pics, j \in images[d] : Digest[i] = Digest[j]

\* Mutant of Log: the audit row of a submission is written after the response,
\* in no transaction.
LogButSubmit(c, action) ==
  audit' = IF action = "submit" THEN audit ELSE [audit EXCEPT ![c][action] = @ + 1]

\* write_audit: in the request's own transaction.
Log(c, action) == audit' = [audit EXCEPT ![c][action] = @ + 1]

\* Mutant of Fresh: the storage key is derived from the content.
NamedByContent(i) == TRUE

\* store_file names every file by a new uuid.
Fresh(i) == i \notin files

\* The session is closed: committed or rolled back, its locks are gone.
Release(s) == txn' = [txn EXCEPT ![s] = IdleTxn]

-----------------------------------------------------------------------------
\* create_claim: one INSERT, its history row and its audit row.

CreateClaim(u, c) ==
  /\ Accept
  /\ claims[c].status = None
  /\ RoleOf[u] \in ClaimCreators
  /\ MayWorkOn(u, c)
  /\ claims' = [claims EXCEPT ![c].status = "draft"]
  /\ history' = [history EXCEPT
       ![c] = Append(@, [from |-> None, to |-> "draft", by |-> u])]
  /\ Log(c, "create")
  /\ UNCHANGED <<images, analyses, files, txn>>

-----------------------------------------------------------------------------
\* add_image: check the loaded row, store the file, then insert the row.  The
\* file is on disk before the transaction commits, and stays if it does not.

LoadForUpload(s, u, c, i) ==
  /\ Accept
  /\ txn[s].pc = "idle"
  /\ claims[c].status \in Uploadable
  /\ MayWorkOn(u, c)
  /\ Fresh(i)
  /\ files' = files \union {i}
  /\ txn' = [txn EXCEPT ![s] =
       [pc |-> "upload", user |-> u, claim |-> c,
        base |-> NoRow, new |-> NoRow, images |-> {i}]]
  /\ UNCHANGED tables

CommitUpload(s) ==
  /\ txn[s].pc = "upload"
  /\ LET c == txn[s].claim IN
       /\ images' = [images EXCEPT ![c] = @ \union txn[s].images]
       /\ Log(c, "image_upload")
  /\ Release(s)
  /\ UNCHANGED <<claims, history, analyses, files, requests>>

-----------------------------------------------------------------------------
\* submit and run_ai_pipeline.

LoadForSubmit(s, u, c) ==
  /\ Accept
  /\ txn[s].pc = "idle"
  /\ RoleOf[u] \in ClaimCreators
  /\ MayWorkOn(u, c)
  /\ claims[c].status = "draft"
  /\ txn' = [txn EXCEPT ![s] =
       [pc |-> "submit", user |-> u, claim |-> c,
        base |-> claims[c], new |-> claims[c], images |-> {}]]
  /\ UNCHANGED <<tables, files>>

\* "Upload at least one image before submitting".
RejectSubmit(s) ==
  /\ txn[s].pc = "submit"
  /\ images[txn[s].claim] = {}
  /\ Release(s)
  /\ UNCHANGED <<tables, files, requests>>

\* The row after the second transition, and after the third.
InProcessing(row) ==
  [row EXCEPT !.status = "ai_processing", !.score = None, !.submitted = TRUE]

Judged(row, v) == [row EXCEPT !.status = ReviewStatus(v), !.score = v]

\* The two transitions to ai_processing take the row lock; then the images
\* are read again.
StartAnalysis(s) ==
  /\ txn[s].pc = "submit"
  /\ LET t == txn[s] IN
       /\ images[t.claim] # {}
       /\ ~Locked(t.claim)
       /\ txn' = [txn EXCEPT ![s] =
            [t EXCEPT !.pc = "analyse",
                      !.new = InProcessing(t.new),
                      !.images = images[t.claim]]]
  /\ UNCHANGED <<tables, files, requests>>

\* An image another claim also holds weighs 40 + 30, which is critical.  The
\* other signals may raise the score or not.
Assess(s) ==
  /\ txn[s].pc = "analyse"
  /\ LET t == txn[s] IN
       \E v \in Verdict :
         /\ SharesImage(t.claim, t.images) => v = "flagged"
         /\ txn' = [txn EXCEPT ![s] =
              [t EXCEPT !.pc = "assessed", !.new = Judged(t.new, v)]]
  /\ UNCHANGED <<tables, files, requests>>

\* The third transition, the audit row, and get_db's commit.
CommitSubmit(s) ==
  /\ txn[s].pc = "assessed"
  /\ LET t == txn[s]
         c == t.claim
         from == t.base.status
         Step(x, y) == [from |-> x, to |-> y, by |-> t.user]
     IN /\ claims' = [claims EXCEPT ![c] = SubmittedRow(@, t)]
        /\ history' = [history EXCEPT
             ![c] = @ \o <<Step(from, "submitted"),
                           Step("submitted", "ai_processing"),
                           Step("ai_processing", t.new.status)>>]
        /\ analyses' = [analyses EXCEPT
             ![c] = Append(@, [images |-> t.images, verdict |-> t.new.score])]
        /\ Log(c, "submit")
  /\ Release(s)
  /\ UNCHANGED <<images, files, requests>>

-----------------------------------------------------------------------------
\* update_status.

\* Mutant of Decided: every move to "submitted" sets submitted_at.
DecidedStamping(row, u, to, amount, reason) ==
  [row EXCEPT !.status = to, !.submitted = @ \/ to = "submitted"]

\* The row as update_status wants it, _transition included.
Decided(row, u, to, amount, reason) ==
  [row EXCEPT
     !.status   = to,
     !.amount   = IF to = "approved" /\ amount # None THEN amount ELSE @,
     !.reason   = IF to = "rejected" THEN reason ELSE @,
     !.surveyor = IF to = "surveyor_review" /\ RoleOf[u] = "surveyor"
                  THEN u ELSE @,
     !.closed   = @ \/ to = "closed"]

LoadForDecision(s, u, c, to, amount, reason) ==
  /\ Accept
  /\ txn[s].pc = "idle"
  /\ claims[c].status # None
  /\ RoleOf[u] # "customer"
  /\ to \in ValidTransitions[claims[c].status] \/ RoleOf[u] \in Overriders
  /\ txn' = [txn EXCEPT ![s] =
       [pc |-> "decide", user |-> u, claim |-> c, base |-> claims[c],
        new |-> Decided(claims[c], u, to, amount, reason), images |-> {}]]
  /\ UNCHANGED <<tables, files>>

\* With no column changed there is no UPDATE and no lock to wait for; closing
\* a claim always writes closed_at.  surveyor_notes is left out.
CommitDecision(s) ==
  /\ txn[s].pc = "decide"
  /\ LET t == txn[s]
         c == t.claim
     IN /\ Locked(c) => t.new = t.base /\ t.new.status # "closed"
        /\ claims' = [claims EXCEPT ![c] = Merge(@, t.base, t.new)]
        /\ history' = [history EXCEPT
             ![c] = Append(@, [from |-> t.base.status, to |-> t.new.status,
                               by |-> t.user])]
        /\ Log(c, "status_change")
  /\ Release(s)
  /\ UNCHANGED <<images, analyses, files, requests>>

-----------------------------------------------------------------------------
\* An exception, a lost connection or a dead worker: everything the session
\* wrote to the database is gone, a stored file is not.
Rollback(s) ==
  /\ txn[s].pc # "idle"
  /\ Release(s)
  /\ UNCHANGED <<tables, files, requests>>

\* What a session does with a request it has accepted.
Progress(s) ==
  \/ CommitUpload(s)
  \/ RejectSubmit(s)
  \/ StartAnalysis(s)
  \/ Assess(s)
  \/ CommitSubmit(s)
  \/ CommitDecision(s)

Next ==
  \/ \E u \in User, c \in Claim :
       \/ CreateClaim(u, c)
       \/ \E s \in Slot :
            \/ LoadForSubmit(s, u, c)
            \/ \E i \in Image : LoadForUpload(s, u, c, i)
            \/ \E to \in Target, amount \in Amount \union {None},
                  reason \in BOOLEAN :
                 LoadForDecision(s, u, c, to, amount, reason)
  \/ \E s \in Slot : Progress(s) \/ Rollback(s)

Spec == Init /\ [][Next]_vars

\* A session that can go on does: the event loop resumes every handler whose
\* awaited statement has finished, and PostgreSQL queues row-lock waiters.
FairSpec == Spec /\ \A s \in Slot : SF_vars(Progress(s))

-----------------------------------------------------------------------------
\* Properties.

TypeOK ==
  /\ claims \in [Claim -> Row]
  /\ images \in [Claim -> SUBSET Image]
  /\ history \in [Claim -> Seq(HistoryRow)]
  /\ analyses \in [Claim -> Seq(Analysis)]
  /\ audit \in [Claim -> [AuditAction -> Nat]]
  /\ files \in SUBSET Image
  /\ txn \in [Slot -> Txn]
  /\ requests \in Nat

NobodyOverrides == \A u \in User : RoleOf[u] \notin Overriders

\* Every analysis covers all the images an earlier analysis of the same claim
\* covered, and none is empty or of images the claim does not have: the
\* second SELECT of images (run_ai_pipeline) happens under the row lock.
AnalysesGrow ==
  \A c \in Claim : \A k \in 1..Len(analyses[c]) :
    LET a == analyses[c][k] IN
      /\ a.images # {}
      /\ a.images \subseteq images[c]
      /\ \A j \in 1..(k - 1) : analyses[c][j].images \subseteq a.images

\* claims.fraud_score is the score of the newest assessment, whatever stale
\* copies of the row other sessions write back (run_ai_pipeline sets it to
\* None and flushes before it sets it again).
ScoreIsLastVerdict ==
  \A c \in Claim :
    claims[c].score = IF analyses[c] = <<>>
                      THEN None
                      ELSE analyses[c][Len(analyses[c])].verdict

SamePictureIn(a, b) == \E i \in a.images, j \in b.images : Digest[i] = Digest[j]

\* Of two claims that were analysed with a picture in common, at least one was
\* flagged, even when both were being analysed at the same time
\* (FraudEngine._duplicate_image_signals).
SharedPictureFlagged ==
  \A c, d \in Claim : c # d =>
    \A k \in 1..Len(analyses[c]), l \in 1..Len(analyses[d]) :
      SamePictureIn(analyses[c][k], analyses[d][l])
      => \/ analyses[c][k].verdict = "flagged"
         \/ analyses[d][l].verdict = "flagged"

\* submitted_at is set exactly on the claims the pipeline has analysed; a
\* claim that staff pushed to "submitted" by hand does not get it.
SubmittedMeansAnalysed ==
  \A c \in Claim : claims[c].submitted <=> analyses[c] # <<>>

\* The status history and the audit log tell the same story: one history row
\* for a creation, three for a submission, one for a status change.
HistoryMatchesAudit ==
  \A c \in Claim :
    Len(history[c]) = audit[c]["create"] + 3 * audit[c]["submit"]
                      + audit[c]["status_change"]

\* Every history row is a creation, a row of the transition table, or the act
\* of a user who may override; races do not put others there.
HistoryIsLegal ==
  \A c \in Claim : \A k \in 1..Len(history[c]) :
    LET h == history[c][k] IN
      \/ h.from = None /\ h.to = "draft" /\ k = 1
      \/ h.from # None /\ h.to \in ValidTransitions[h.from]
      \/ RoleOf[h.by] \in Overriders

\* Every image row belongs to one claim and its file was stored before it.
ImagesAreStored ==
  /\ \A c \in Claim : images[c] \subseteq files
  /\ \A c, d \in Claim : c # d => images[c] \intersect images[d] = {}

\* An image being uploaded has its file, belongs to no claim yet and to no
\* other upload: what makes ImagesAreStored inductive.
UploadsAreFresh ==
  \A s \in Slot : txn[s].pc = "upload" =>
    /\ txn[s].images \subseteq files
    /\ \A d \in Claim : txn[s].images \intersect images[d] = {}
    /\ \A r \in Slot \ {s} : txn[r].pc = "upload" =>
         txn[s].images \intersect txn[r].images = {}

\* While nobody overrides, a claim's status is the to_status of the history row
\* committed last, stale writers included: whoever writes the status last also
\* writes its history row last (_transition).
StatusIsLastHistoryRow ==
  NobodyOverrides =>
    \A c \in Claim :
      claims[c].status = IF history[c] = <<>>
                         THEN None
                         ELSE history[c][Len(history[c])].to

\* An approved amount, a reason, a surveyor and the time of closing change only
\* together with a history row for the decision they belong to: a decision made
\* on a stale copy never takes back or brings back what another one recorded
\* (update_status).
DecisionsKeepTheirColumns ==
  [][\A c \in Claim :
       LET row     == claims[c]
           after   == claims'[c]
           decided == history'[c][Len(history'[c])].to
       IN /\ after.amount # row.amount => decided = "approved"
          /\ after.reason # row.reason => decided = "rejected"
          /\ after.surveyor # row.surveyor => decided = "surveyor_review"
          /\ after.closed # row.closed => decided = "closed"]_vars

\* What a session loaded is of a claim that exists, and of a time before its
\* submission at the latest; a claim without history does not exist yet.
CopiesAreOlder ==
  /\ \A s \in Slot : txn[s].pc # "idle" =>
       /\ claims[txn[s].claim].status # None
       /\ txn[s].base.submitted => claims[txn[s].claim].submitted
  /\ \A c \in Claim : claims[c].status = None => history[c] = <<>>

\* The inductive invariant about rows, history and audit log.
RecordInv ==
  /\ ScoreIsLastVerdict
  /\ SubmittedMeansAnalysed
  /\ HistoryMatchesAudit
  /\ HistoryIsLegal
  /\ StatusIsLastHistoryRow
  /\ CopiesAreOlder

\* At most one session at a time is past the row lock of a claim: what the
\* lock is modelled to give, and what the proofs start from.
RowLockIsExclusive ==
  \A s, t \in Slot :
    s # t /\ Holds(s) /\ Holds(t) => txn[s].claim # txn[t].claim

\* A session past the lock analyses images of its claim, and all those that
\* were analysed before.
HeldAnalysesCover ==
  \A s \in Slot : Holds(s) =>
    LET c == txn[s].claim IN
      /\ txn[s].images \subseteq images[c]
      /\ \A k \in 1..Len(analyses[c]) :
           analyses[c][k].images \subseteq txn[s].images

\* The verdicts on a claim, those about to be committed included.
Judgements(c) ==
  {analyses[c][k] : k \in 1..Len(analyses[c])}
  \union {[images |-> txn[s].images, verdict |-> txn[s].new.score] :
            s \in {r \in Slot : txn[r].pc = "assessed" /\ txn[r].claim = c}}

\* SharedPictureFlagged already holds of verdicts that are not committed.
JudgementsFlagged ==
  \A c, d \in Claim : c # d =>
    \A a \in Judgements(c), b \in Judgements(d) :
      SamePictureIn(a, b) => a.verdict = "flagged" \/ b.verdict = "flagged"

\* The inductive invariant behind AnalysesGrow and SharedPictureFlagged: what
\* every session between its first UPDATE and its commit preserves.
AnalysisInv ==
  /\ RowLockIsExclusive
  /\ AnalysesGrow
  /\ HeldAnalysesCover
  /\ JudgementsFlagged

\* Every request that was accepted comes to an end, those waiting for a row
\* lock included.
RequestsFinish ==
  \A s \in Slot : txn[s].pc # "idle" ~> txn[s].pc = "idle"

-----------------------------------------------------------------------------
\* The promise, and what the requests of a single session make of it.

Lifecycle ==
  INSTANCE ClaimLifecycle WITH
    Overriding <- ~NobodyOverrides,
    status     <- [c \in Claim |-> claims[c].status],
    verdict    <- [c \in Claim |-> claims[c].score],
    analysed   <- [c \in Claim |->
                    IF analyses[c] = <<>>
                    THEN {}
                    ELSE analyses[c][Len(analyses[c])].images]

\* Requests served one after the other implement the lifecycle: between them,
\* submit with its pipeline, add_image and update_status take effect at once
\* and along VALID_TRANSITIONS.
ImplementsLifecycle == Lifecycle!Spec

\* Served one after the other, and with nobody overriding, a claim that was
\* analysed has exactly the images it was judged on (add_image against submit).
AnalysisCoversImages == Lifecycle!AnalysisCoversImages

\* Served one after the other, the history rows of a claim form a chain: every
\* row starts from the status the row before it ended in (_transition).
HistoryIsChain ==
  \A c \in Claim : \A k \in 1..(Len(history[c]) - 1) :
    history[c][k].to = history[c][k + 1].from

-----------------------------------------------------------------------------
\* What the code and its documents say and two open sessions do not keep.

\* "Cannot upload images after processing starts" (add_image).
NoImageAfterProcessing ==
  [][\A c \in Claim :
       images'[c] # images[c] => claims[c].status \in Uploadable]_vars

\* The transition list of the workflow guide: while nobody overrides, a status
\* moves along it; a submission makes its three moves in one transaction.
StatusFollowsTable ==
  [][\A c \in Claim :
       LET from == claims[c].status
           to   == claims'[c].status
       IN \/ from = to
          \/ from = None /\ to = "draft"
          \/ from = "draft" /\ to \in ValidTransitions["ai_processing"]
          \/ from # None /\ to \in ValidTransitions[from]]_vars

\* "Validation: at least one image required" (the submit step of the guide).
SubmittedHasImage ==
  \A c \in Claim : claims[c].status \notin {None, "draft"} => images[c] # {}

=============================================================================
