------------------------ MODULE ClaimService_proofs ------------------------
(***************************************************************************)
(* Proofs about ClaimService, for every set of claims, images, users and   *)
(* sessions.                                                               *)
(***************************************************************************)
EXTENDS ClaimService, TLAPS

-----------------------------------------------------------------------------
\* What a handler has established for its own copy when it reaches a phase, and
\* still relies on when it writes.
SessionOK(t) ==
  /\ t.pc \in {"submit", "analyse", "assessed"} => t.base.status = "draft"
  /\ t.pc \in {"analyse", "assessed"} => t.images # {} /\ t.new.submitted
  /\ t.pc = "assessed" => /\ t.new.score \in Verdict
                          /\ t.new.status = ReviewStatus(t.new.score)
  /\ t.pc = "decide" =>
       /\ {t.base.status, t.new.status} \subseteq Status
       /\ t.new.score = t.base.score
       /\ t.new.submitted = t.base.submitted
       /\ \/ t.new.status \in ValidTransitions[t.base.status]
          \/ RoleOf[t.user] \in Overriders

SessionsOK == \A s \in Slot : SessionOK(txn[s])

-----------------------------------------------------------------------------
\* Types.

\* An UPDATE that merges three rows gives a row (Session.flush).
LEMMA MergeType ==
  ASSUME NEW r \in Row, NEW b \in Row, NEW n \in Row
  PROVE  Merge(r, b, n) \in Row
BY DEF Merge, Column, Row

\* The empty row and the idle session are of their types (initial state).
LEMMA BlankTypes == NoRow \in Row /\ IdleTxn \in Txn
BY DEF NoRow, Row, Txn

\* A session that is not idle serves a known user and a known claim; an idle
\* one is blank.
LEMMA BusyType ==
  ASSUME NEW t \in Txn
  PROVE  /\ t.pc \in Phase
         /\ t.pc # "idle" => t \in BusyTxn
         /\ t.pc = "idle" => t = IdleTxn
         /\ t.base \in Row /\ t.new \in Row /\ t.images \in SUBSET Image
BY BlankTypes DEF Txn, BusyTxn, IdleTxn, Phase

\* The row update_status asks for is a row.
LEMMA DecidedType ==
  ASSUME NEW r \in Row, NEW u \in User, NEW to \in Status,
         NEW amount \in Amount \union {None}, NEW reason \in BOOLEAN
  PROVE  Decided(r, u, to, amount, reason) \in Row
BY DEF Decided, Row

\* The pipeline leaves a claim in one of the two review statuses.
LEMMA ReviewStatusType ==
  ASSUME NEW v \in Verdict
  PROVE  ReviewStatus(v) \in {"fraud_review", "surveyor_review"}
BY DEF ReviewStatus, Verdict

\* The row submit commits is a row, and its score is the verdict.
LEMMA SubmittedRowType ==
  ASSUME NEW r \in Row, NEW t \in Txn
  PROVE  /\ SubmittedRow(r, t) \in Row
         /\ SubmittedRow(r, t).score = t.new.score
<1>1. t.base \in Row /\ t.new \in Row
  BY BusyType
<1>2. Merge(r, t.base, t.new) \in Row
  BY <1>1, MergeType
<1>3. QED
  BY <1>1, <1>2 DEF SubmittedRow, Row

\* Writing an audit row keeps the log well typed (write_audit).
LEMMA LogType ==
  ASSUME TypeOK, NEW c \in Claim, NEW a \in AuditAction, Log(c, a)
  PROVE  audit' \in [Claim -> [AuditAction -> Nat]]
BY DEF TypeOK, Log

\* Closing a session keeps the sessions well typed (get_db).
LEMMA ReleaseType ==
  ASSUME TypeOK, NEW s \in Slot, Release(s)
  PROVE  txn' \in [Slot -> Txn]
BY BlankTypes DEF TypeOK, Release

\* Initially every variable has its type.
LEMMA TypeInit == Init => TypeOK
<1> SUFFICES ASSUME Init PROVE TypeOK
  OBVIOUS
<1>1. claims \in [Claim -> Row] /\ txn \in [Slot -> Txn]
  BY BlankTypes DEF Init
<1>2. history \in [Claim -> Seq(HistoryRow)] /\ analyses \in [Claim -> Seq(Analysis)]
  BY DEF Init
<1>3. QED
  BY <1>1, <1>2 DEF Init, TypeOK

\* create_claim keeps the types.
LEMMA TypeCreate ==
  ASSUME TypeOK, NEW u \in User, NEW c \in Claim, CreateClaim(u, c)
  PROVE  TypeOK'
<1>1. audit' \in [Claim -> [AuditAction -> Nat]]
  BY LogType DEF CreateClaim, AuditAction
<1>2. claims' \in [Claim -> Row]
  <2>1. claims[c] \in Row
    BY DEF TypeOK
  <2>2. [claims[c] EXCEPT !.status = "draft"] \in Row
    BY <2>1 DEF Row, Status
  <2>3. claims' = [claims EXCEPT ![c] = [claims[c] EXCEPT !.status = "draft"]]
    BY DEF CreateClaim, TypeOK
  <2>4. QED
    BY <2>2, <2>3 DEF TypeOK
<1>3. history' \in [Claim -> Seq(HistoryRow)]
  <2>1. [from |-> None, to |-> "draft", by |-> u] \in HistoryRow
    BY DEF HistoryRow, Status
  <2>2. QED
    BY <2>1 DEF CreateClaim, TypeOK
<1>4. QED
  BY <1>1, <1>2, <1>3 DEF CreateClaim, TypeOK, Accept

\* The three loads keep the types: a session starts to serve a request.
LEMMA TypeLoadForUpload ==
  ASSUME TypeOK, NEW s \in Slot, NEW u \in User, NEW c \in Claim,
         NEW i \in Image, LoadForUpload(s, u, c, i)
  PROVE  TypeOK'
<1>1. [pc |-> "upload", user |-> u, claim |-> c,
       base |-> NoRow, new |-> NoRow, images |-> {i}] \in Txn
  BY BlankTypes DEF Txn, BusyTxn, Phase
<1>2. txn' \in [Slot -> Txn]
  BY <1>1 DEF LoadForUpload, TypeOK
<1>3. QED
  BY <1>2 DEF LoadForUpload, TypeOK, Accept, tables

LEMMA TypeLoadForSubmit ==
  ASSUME TypeOK, NEW s \in Slot, NEW u \in User, NEW c \in Claim,
         LoadForSubmit(s, u, c)
  PROVE  TypeOK'
<1>1. [pc |-> "submit", user |-> u, claim |-> c,
       base |-> claims[c], new |-> claims[c], images |-> {}] \in Txn
  BY DEF Txn, BusyTxn, Phase, TypeOK
<1>2. txn' \in [Slot -> Txn]
  BY <1>1 DEF LoadForSubmit, TypeOK
<1>3. QED
  BY <1>2 DEF LoadForSubmit, TypeOK, Accept, tables

LEMMA TypeLoadForDecision ==
  ASSUME TypeOK, NEW s \in Slot, NEW u \in User, NEW c \in Claim,
         NEW to \in Target, NEW amount \in Amount \union {None},
         NEW reason \in BOOLEAN,
         LoadForDecision(s, u, c, to, amount, reason)
  PROVE  TypeOK'
<1>1. Decided(claims[c], u, to, amount, reason) \in Row
  BY DecidedType, ConstantsAssumption DEF TypeOK
<1>2. [pc |-> "decide", user |-> u, claim |-> c, base |-> claims[c],
       new |-> Decided(claims[c], u, to, amount, reason), images |-> {}] \in Txn
  BY <1>1 DEF Txn, BusyTxn, Phase, TypeOK
<1>3. txn' \in [Slot -> Txn]
  BY <1>2 DEF LoadForDecision, TypeOK
<1>4. QED
  BY <1>3 DEF LoadForDecision, TypeOK, Accept, tables

\* The steps of a session keep the types.
LEMMA TypeCommitUpload ==
  ASSUME TypeOK, NEW s \in Slot, CommitUpload(s)
  PROVE  TypeOK'
<1> DEFINE c == txn[s].claim
<1>1. c \in Claim /\ txn[s].images \in SUBSET Image
  BY BusyType DEF CommitUpload, TypeOK, BusyTxn
<1>2. audit' \in [Claim -> [AuditAction -> Nat]]
  BY <1>1, LogType DEF CommitUpload, AuditAction
<1>3. images' \in [Claim -> SUBSET Image]
  BY <1>1 DEF CommitUpload, TypeOK
<1>4. txn' \in [Slot -> Txn]
  BY ReleaseType DEF CommitUpload
<1>5. QED
  BY <1>2, <1>3, <1>4 DEF CommitUpload, TypeOK

LEMMA TypeStartAnalysis ==
  ASSUME TypeOK, NEW s \in Slot, StartAnalysis(s)
  PROVE  TypeOK'
<1> DEFINE t == txn[s]
<1>1. t \in BusyTxn
  BY BusyType DEF StartAnalysis, TypeOK
<1>2. InProcessing(t.new) \in Row
  BY <1>1 DEF BusyTxn, InProcessing, Row, Status
<1>3. images[t.claim] \in SUBSET Image
  BY <1>1 DEF TypeOK, BusyTxn
<1>4. [t EXCEPT !.pc = "analyse", !.new = InProcessing(t.new),
                !.images = images[t.claim]] \in Txn
  BY <1>1, <1>2, <1>3 DEF Txn, BusyTxn, Phase
<1>5. txn' \in [Slot -> Txn]
  BY <1>4 DEF StartAnalysis, TypeOK
<1>6. QED
  BY <1>5 DEF StartAnalysis, TypeOK, tables

LEMMA TypeAssess ==
  ASSUME TypeOK, NEW s \in Slot, Assess(s)
  PROVE  TypeOK'
<1> DEFINE t == txn[s]
<1>1. t \in BusyTxn
  BY BusyType DEF Assess, TypeOK
<1>2. PICK v \in Verdict :
        txn' = [txn EXCEPT ![s] =
                  [t EXCEPT !.pc = "assessed", !.new = Judged(t.new, v)]]
  BY DEF Assess
<1>3. Judged(t.new, v) \in Row
  BY <1>1, ReviewStatusType DEF BusyTxn, Judged, Row, Status
<1>4. [t EXCEPT !.pc = "assessed", !.new = Judged(t.new, v)] \in Txn
  BY <1>1, <1>3 DEF Txn, BusyTxn, Phase
<1>5. txn' \in [Slot -> Txn]
  BY <1>2, <1>4 DEF TypeOK
<1>6. QED
  BY <1>5 DEF Assess, TypeOK, tables

LEMMA TypeCommitSubmit ==
  ASSUME TypeOK, SessionsOK, NEW s \in Slot, CommitSubmit(s)
  PROVE  TypeOK'
<1> DEFINE t == txn[s]
           c == txn[s].claim
           Step(x, y) == [from |-> x, to |-> y, by |-> t.user]
           rows == <<Step(t.base.status, "submitted"),
                     Step("submitted", "ai_processing"),
                     Step("ai_processing", t.new.status)>>
<1>1. t \in BusyTxn /\ t \in Txn /\ c \in Claim
  BY BusyType DEF CommitSubmit, TypeOK, BusyTxn
<1>2. claims' \in [Claim -> Row]
  BY <1>1, SubmittedRowType DEF CommitSubmit, TypeOK
<1>3. t.new.status \in Status /\ t.new.score \in Verdict
  BY ReviewStatusType DEF SessionsOK, SessionOK, CommitSubmit, Status
<1>4. history' \in [Claim -> Seq(HistoryRow)]
  <2>1. t.base.status \in Status \union {None} /\ t.user \in User
    BY <1>1 DEF BusyTxn, Row
  <2>2. rows \in Seq(HistoryRow)
    BY <1>3, <2>1 DEF HistoryRow, Status
  <2>3. history[c] \o rows \in Seq(HistoryRow)
    BY <1>1, <2>2 DEF TypeOK
  <2>4. history' = [history EXCEPT ![c] = history[c] \o rows]
    BY DEF CommitSubmit
  <2>5. QED
    BY <2>3, <2>4 DEF TypeOK
<1>5. analyses' \in [Claim -> Seq(Analysis)]
  <2>1. [images |-> t.images, verdict |-> t.new.score] \in Analysis
    BY <1>1, <1>3 DEF Analysis, BusyTxn
  <2>2. QED
    BY <1>1, <2>1 DEF CommitSubmit, TypeOK
<1>6. audit' \in [Claim -> [AuditAction -> Nat]]
  BY <1>1, LogType DEF CommitSubmit, AuditAction
<1>7. txn' \in [Slot -> Txn]
  BY ReleaseType DEF CommitSubmit
<1>8. QED
  BY <1>2, <1>4, <1>5, <1>6, <1>7 DEF CommitSubmit, TypeOK

LEMMA TypeCommitDecision ==
  ASSUME TypeOK, SessionsOK, NEW s \in Slot, CommitDecision(s)
  PROVE  TypeOK'
<1> DEFINE t == txn[s]
           c == txn[s].claim
           row == [from |-> t.base.status, to |-> t.new.status, by |-> t.user]
<1>1. t \in BusyTxn /\ c \in Claim
  BY BusyType DEF CommitDecision, TypeOK, BusyTxn
<1>2. claims' \in [Claim -> Row]
  <2>1. Merge(claims[c], t.base, t.new) \in Row
    BY <1>1, MergeType DEF TypeOK, BusyTxn
  <2>2. QED
    BY <2>1 DEF CommitDecision, TypeOK
<1>3. history' \in [Claim -> Seq(HistoryRow)]
  <2>1. row \in HistoryRow
    BY <1>1 DEF SessionsOK, SessionOK, CommitDecision, HistoryRow, BusyTxn
  <2>2. QED
    BY <1>1, <2>1 DEF CommitDecision, TypeOK
<1>4. audit' \in [Claim -> [AuditAction -> Nat]]
  BY <1>1, LogType DEF CommitDecision, AuditAction
<1>5. txn' \in [Slot -> Txn]
  BY ReleaseType DEF CommitDecision
<1>6. QED
  BY <1>2, <1>3, <1>4, <1>5 DEF CommitDecision, TypeOK

\* Refusing a submission and rolling back only close the session.
LEMMA TypeClose ==
  ASSUME TypeOK, NEW s \in Slot, RejectSubmit(s) \/ Rollback(s)
  PROVE  TypeOK'
<1>1. txn' \in [Slot -> Txn]
  BY ReleaseType DEF RejectSubmit, Rollback
<1>2. QED
  BY <1>1 DEF RejectSubmit, Rollback, TypeOK, tables

-----------------------------------------------------------------------------
\* What a session knows of its own copy.

LEMMA SessionsLoad ==
  ASSUME TypeOK, SessionsOK, NEW s \in Slot, NEW u \in User, NEW c \in Claim,
         \/ \E i \in Image : LoadForUpload(s, u, c, i)
         \/ LoadForSubmit(s, u, c)
         \/ \E to \in Target, amount \in Amount \union {None}, reason \in BOOLEAN :
              LoadForDecision(s, u, c, to, amount, reason)
  PROVE  SessionsOK'
<1>1. SUFFICES SessionOK(txn'[s]) /\ \A r \in Slot \ {s} : txn'[r] = txn[r]
  BY DEF SessionsOK
<1>2. \A r \in Slot \ {s} : txn'[r] = txn[r]
  BY DEF LoadForUpload, LoadForSubmit, LoadForDecision, TypeOK
<1>3. CASE \E i \in Image : LoadForUpload(s, u, c, i)
  BY <1>2, <1>3 DEF LoadForUpload, SessionOK, TypeOK
<1>4. CASE LoadForSubmit(s, u, c)
  BY <1>2, <1>4 DEF LoadForSubmit, SessionOK, TypeOK
<1>5. ASSUME NEW to \in Target, NEW amount \in Amount \union {None},
             NEW reason \in BOOLEAN, LoadForDecision(s, u, c, to, amount, reason)
      PROVE  SessionOK(txn'[s])
  <2> DEFINE new == Decided(claims[c], u, to, amount, reason)
  <2>1. claims[c] \in Row /\ claims[c].status \in Status /\ to \in Status
    BY <1>5, ConstantsAssumption DEF LoadForDecision, TypeOK, Row
  <2>2. /\ new.status = to
        /\ new.score = claims[c].score
        /\ new.submitted = claims[c].submitted
    BY <2>1 DEF Decided, Row
  <2>3. txn'[s] = [pc |-> "decide", user |-> u, claim |-> c, base |-> claims[c],
                   new |-> new, images |-> {}]
    BY <1>5 DEF LoadForDecision, TypeOK
  <2>4. to \in ValidTransitions[claims[c].status] \/ RoleOf[u] \in Overriders
    BY <1>5 DEF LoadForDecision
  <2> HIDE DEF new
  <2>5. QED
    BY <2>1, <2>2, <2>3, <2>4 DEF SessionOK
<1>6. QED
  BY <1>2, <1>3, <1>4, <1>5

\* Taking the row lock: the copy still is the draft that was loaded.
LEMMA SessionsStart ==
  ASSUME TypeOK, SessionsOK, NEW s \in Slot, StartAnalysis(s)
  PROVE  SessionsOK'
<1> DEFINE t == txn[s]
           started == [t EXCEPT !.pc = "analyse", !.new = InProcessing(t.new),
                                !.images = images[t.claim]]
<1>1. t \in BusyTxn /\ t.new \in Row /\ t.base.status = "draft"
  BY BusyType DEF StartAnalysis, TypeOK, SessionsOK, SessionOK, BusyTxn
<1>2. InProcessing(t.new).submitted
  BY <1>1 DEF InProcessing, Row
<1>3. /\ started.pc = "analyse"
      /\ started.base.status = "draft"
      /\ started.images # {}
      /\ started.new.submitted
  BY <1>1, <1>2 DEF StartAnalysis, BusyTxn
<1>4. SessionOK(started)
  BY <1>3 DEF SessionOK
<1>5. txn' = [txn EXCEPT ![s] = started]
  BY DEF StartAnalysis
<1>6. QED
  BY <1>4, <1>5 DEF SessionsOK, TypeOK

\* Assessing: score and status are set together.
LEMMA SessionsAssess ==
  ASSUME TypeOK, SessionsOK, NEW s \in Slot, Assess(s)
  PROVE  SessionsOK'
<1> DEFINE t == txn[s]
           judged(v) == [t EXCEPT !.pc = "assessed", !.new = Judged(t.new, v)]
<1>1. PICK v \in Verdict : txn' = [txn EXCEPT ![s] = judged(v)]
  BY DEF Assess
<1>2. t \in BusyTxn /\ t.new \in Row
  BY BusyType DEF Assess, TypeOK, BusyTxn
<1>3. t.base.status = "draft" /\ t.images # {} /\ t.new.submitted
  BY DEF Assess, SessionsOK, SessionOK
<1>4. /\ Judged(t.new, v).score = v
      /\ Judged(t.new, v).status = ReviewStatus(v)
      /\ Judged(t.new, v).submitted = t.new.submitted
  BY <1>2 DEF Judged, Row
<1>5. /\ judged(v).pc = "assessed"
      /\ judged(v).base = t.base
      /\ judged(v).images = t.images
      /\ judged(v).new = Judged(t.new, v)
  BY <1>2 DEF BusyTxn
<1>6. SessionOK(judged(v))
  BY <1>3, <1>4, <1>5 DEF SessionOK
<1> HIDE DEF judged
<1>7. QED
  BY <1>1, <1>6 DEF SessionsOK, TypeOK

\* A closed session promises nothing.
LEMMA SessionsRelease ==
  ASSUME TypeOK, SessionsOK, NEW s \in Slot, Release(s)
  PROVE  SessionsOK'
BY DEF Release, SessionsOK, SessionOK, IdleTxn, TypeOK

-----------------------------------------------------------------------------
\* Type correctness, together with what the sessions know.

Typed == TypeOK /\ SessionsOK

LEMMA TypedInit == Init => Typed
BY TypeInit DEF Init, Typed, SessionsOK, SessionOK, IdleTxn

\* Every step of the system keeps the types and the sessions' knowledge.
LEMMA TypedStep == Typed /\ [Next]_vars => Typed'
<1> SUFFICES ASSUME TypeOK, SessionsOK, [Next]_vars
             PROVE  TypeOK' /\ SessionsOK'
  BY DEF Typed
<1>1. ASSUME NEW u \in User, NEW c \in Claim, CreateClaim(u, c)
      PROVE  TypeOK' /\ SessionsOK'
  BY <1>1, TypeCreate DEF CreateClaim, SessionsOK
<1>2. ASSUME NEW u \in User, NEW c \in Claim, NEW s \in Slot,
             LoadForSubmit(s, u, c)
      PROVE  TypeOK' /\ SessionsOK'
  BY <1>2, TypeLoadForSubmit, SessionsLoad
<1>3. ASSUME NEW u \in User, NEW c \in Claim, NEW s \in Slot,
             NEW i \in Image, LoadForUpload(s, u, c, i)
      PROVE  TypeOK' /\ SessionsOK'
  BY <1>3, TypeLoadForUpload, SessionsLoad
<1>4. ASSUME NEW u \in User, NEW c \in Claim, NEW s \in Slot,
             NEW to \in Target, NEW amount \in Amount \union {None},
             NEW reason \in BOOLEAN,
             LoadForDecision(s, u, c, to, amount, reason)
      PROVE  TypeOK' /\ SessionsOK'
  BY <1>4, TypeLoadForDecision, SessionsLoad
<1>5. ASSUME NEW s \in Slot, Progress(s) \/ Rollback(s)
      PROVE  TypeOK' /\ SessionsOK'
  <2>1. CASE CommitUpload(s)
    BY <2>1, TypeCommitUpload, SessionsRelease DEF CommitUpload
  <2>2. CASE RejectSubmit(s)
    BY <2>2, TypeClose, SessionsRelease DEF RejectSubmit
  <2>3. CASE StartAnalysis(s)
    BY <2>3, TypeStartAnalysis, SessionsStart
  <2>4. CASE Assess(s)
    BY <2>4, TypeAssess, SessionsAssess
  <2>5. CASE CommitSubmit(s)
    BY <2>5, TypeCommitSubmit, SessionsRelease DEF CommitSubmit
  <2>6. CASE CommitDecision(s)
    BY <2>6, TypeCommitDecision, SessionsRelease DEF CommitDecision
  <2>7. CASE Rollback(s)
    BY <2>7, TypeClose, SessionsRelease DEF Rollback
  <2>8. QED
    BY <1>5, <2>1, <2>2, <2>3, <2>4, <2>5, <2>6, <2>7 DEF Progress
<1>6. CASE UNCHANGED vars
  BY <1>6 DEF vars, TypeOK, SessionsOK
<1>7. QED
  BY <1>1, <1>2, <1>3, <1>4, <1>5, <1>6 DEF Next

\* Every reachable state is well typed (all handlers).
THEOREM TypeCorrect == Spec => []TypeOK
<1>1. Typed => TypeOK
  BY DEF Typed
<1>2. QED
  BY <1>1, TypedInit, TypedStep, PTL DEF Spec

-----------------------------------------------------------------------------
\* Analyses under the row lock.

\* A step that adds no image and no analysis, and takes no row lock.
Quiet ==
  /\ images' = images
  /\ analyses' = analyses
  /\ \A r \in Slot : Holds(r)' => Holds(r) /\ txn'[r] = txn[r]

\* Closing a session that adds nothing is quiet (get_db's finally).
LEMMA ReleaseIsQuiet ==
  ASSUME TypeOK, NEW s \in Slot, Release(s), UNCHANGED <<images, analyses>>
  PROVE  Quiet
BY DEF Quiet, Release, Holds, IdleTxn, TypeOK

\* Loading a claim takes no lock (get_claim).
LEMMA LoadIsQuiet ==
  ASSUME TypeOK, NEW s \in Slot, NEW u \in User, NEW c \in Claim,
         \/ \E i \in Image : LoadForUpload(s, u, c, i)
         \/ LoadForSubmit(s, u, c)
         \/ \E to \in Target, amount \in Amount \union {None}, reason \in BOOLEAN :
              LoadForDecision(s, u, c, to, amount, reason)
  PROVE  Quiet
<1>1. UNCHANGED <<images, analyses>>
  BY DEF LoadForUpload, LoadForSubmit, LoadForDecision, tables
<1>2. ~Holds(s)' /\ \A r \in Slot \ {s} : txn'[r] = txn[r]
  <2>1. CASE \E i \in Image : LoadForUpload(s, u, c, i)
    BY <2>1 DEF LoadForUpload, TypeOK, Holds
  <2>2. CASE LoadForSubmit(s, u, c)
    BY <2>2 DEF LoadForSubmit, TypeOK, Holds
  <2>3. CASE \E to \in Target, amount \in Amount \union {None}, reason \in BOOLEAN :
               LoadForDecision(s, u, c, to, amount, reason)
    BY <2>3 DEF LoadForDecision, TypeOK, Holds
  <2>4. QED
    BY <2>1, <2>2, <2>3
<1>3. QED
  BY <1>1, <1>2 DEF Quiet, Holds

\* Every step is quiet, or one of the four that matter to the analyses.
LEMMA StepKinds ==
  ASSUME TypeOK, [Next]_vars
  PROVE  \/ Quiet
         \/ \E s \in Slot : \/ CommitUpload(s) \/ StartAnalysis(s)
                             \/ Assess(s) \/ CommitSubmit(s)
<1>1. ASSUME NEW u \in User, NEW c \in Claim, CreateClaim(u, c)
      PROVE  Quiet
  BY <1>1 DEF CreateClaim, Quiet, Holds
<1>2. ASSUME NEW u \in User, NEW c \in Claim, NEW s \in Slot,
             LoadForSubmit(s, u, c)
      PROVE  Quiet
  BY <1>2, LoadIsQuiet
<1>3. ASSUME NEW u \in User, NEW c \in Claim, NEW s \in Slot,
             NEW i \in Image, LoadForUpload(s, u, c, i)
      PROVE  Quiet
  BY <1>3, LoadIsQuiet
<1>4. ASSUME NEW u \in User, NEW c \in Claim, NEW s \in Slot,
             NEW to \in Target, NEW amount \in Amount \union {None},
             NEW reason \in BOOLEAN,
             LoadForDecision(s, u, c, to, amount, reason)
      PROVE  Quiet
  BY <1>4, LoadIsQuiet
<1>5. ASSUME NEW s \in Slot,
             RejectSubmit(s) \/ CommitDecision(s) \/ Rollback(s)
      PROVE  Quiet
  <2>1. Release(s) /\ UNCHANGED <<images, analyses>>
    BY <1>5 DEF RejectSubmit, CommitDecision, Rollback, tables
  <2>2. QED
    BY <2>1, ReleaseIsQuiet
<1>6. CASE UNCHANGED vars
  BY <1>6 DEF vars, Quiet, Holds
<1>7. QED
  BY <1>1, <1>2, <1>3, <1>4, <1>5, <1>6 DEF Next, Progress

\* Quiet steps keep the analysis invariant.
LEMMA AnalysisQuiet ==
  ASSUME AnalysisInv, Quiet
  PROVE  AnalysisInv'
<1>1. RowLockIsExclusive'
  BY DEF AnalysisInv, RowLockIsExclusive, Quiet, Holds
<1>2. AnalysesGrow'
  BY DEF AnalysisInv, AnalysesGrow, Quiet
<1>3. HeldAnalysesCover'
  BY DEF AnalysisInv, HeldAnalysesCover, Quiet, Holds
<1>4. \A c \in Claim : Judgements(c)' \subseteq Judgements(c)
  BY DEF Judgements, Quiet, Holds
<1>5. JudgementsFlagged'
  BY <1>4 DEF AnalysisInv, JudgementsFlagged, SamePictureIn
<1>6. QED
  BY <1>1, <1>2, <1>3, <1>5 DEF AnalysisInv

\* A new image only widens what an analysis must be contained in (add_image).
LEMMA AnalysisUpload ==
  ASSUME TypeOK, AnalysisInv, NEW s \in Slot, CommitUpload(s)
  PROVE  AnalysisInv'
<1>1. /\ analyses' = analyses
      /\ \A c \in Claim : images[c] \subseteq images'[c]
  BY DEF CommitUpload, TypeOK
<1>2. \A r \in Slot : Holds(r)' => Holds(r) /\ txn'[r] = txn[r]
  BY DEF CommitUpload, Release, Holds, IdleTxn, TypeOK
<1>3. RowLockIsExclusive'
  BY <1>2 DEF AnalysisInv, RowLockIsExclusive, Holds
<1>4. AnalysesGrow'
  BY <1>1 DEF AnalysisInv, AnalysesGrow
<1>5. HeldAnalysesCover'
  <2>1. \A r \in Slot : Holds(r) => txn[r].claim \in Claim
    BY BusyType DEF TypeOK, Holds, BusyTxn
  <2>2. QED
    BY <1>1, <1>2, <2>1 DEF AnalysisInv, HeldAnalysesCover, Holds
<1>6. \A c \in Claim : Judgements(c)' \subseteq Judgements(c)
  BY <1>1, <1>2 DEF Judgements, Holds
<1>7. JudgementsFlagged'
  BY <1>6 DEF AnalysisInv, JudgementsFlagged, SamePictureIn
<1>8. QED
  BY <1>3, <1>4, <1>5, <1>7 DEF AnalysisInv

\* The images read under a newly taken lock contain every earlier analysis
\* (run_ai_pipeline's SELECT).
LEMMA AnalysisStart ==
  ASSUME TypeOK, SessionsOK, AnalysisInv, NEW s \in Slot, StartAnalysis(s)
  PROVE  AnalysisInv'
<1> DEFINE t == txn[s]
           c == txn[s].claim
<1>1. t \in BusyTxn /\ c \in Claim
  BY BusyType DEF StartAnalysis, TypeOK, BusyTxn
<1>2. /\ analyses' = analyses
      /\ images' = images
      /\ \A r \in Slot \ {s} : txn'[r] = txn[r]
  BY DEF StartAnalysis, TypeOK, tables
<1>3. /\ txn'[s].pc = "analyse"
      /\ txn'[s].claim = c
      /\ txn'[s].images = images[c]
  <2>1. txn'[s] = [t EXCEPT !.pc = "analyse", !.new = InProcessing(t.new),
                            !.images = images[t.claim]]
    BY DEF StartAnalysis, TypeOK
  <2>2. QED
    BY <1>1, <2>1 DEF BusyTxn
<1>4. \A r \in Slot : Holds(r) => txn[r].claim # c
  BY DEF StartAnalysis, Locked
<1>5. RowLockIsExclusive'
  BY <1>2, <1>3, <1>4 DEF AnalysisInv, RowLockIsExclusive, Holds
<1>6. AnalysesGrow'
  BY <1>2 DEF AnalysisInv, AnalysesGrow
<1>7. HeldAnalysesCover'
  <2>1. \A k \in 1..Len(analyses[c]) : analyses[c][k].images \subseteq images[c]
    BY <1>1 DEF AnalysisInv, AnalysesGrow
  <2>2. QED
    BY <1>2, <1>3, <2>1 DEF AnalysisInv, HeldAnalysesCover, Holds
<1>8. \A d \in Claim : Judgements(d)' \subseteq Judgements(d)
  BY <1>2, <1>3 DEF Judgements
<1>9. JudgementsFlagged'
  BY <1>8 DEF AnalysisInv, JudgementsFlagged, SamePictureIn
<1>10. QED
  BY <1>5, <1>6, <1>7, <1>9 DEF AnalysisInv

\* Every judgement is about images its claim has.
LEMMA JudgedImages ==
  ASSUME AnalysisInv, NEW c \in Claim, NEW a \in Judgements(c)
  PROVE  a.images \subseteq images[c]
<1>1. CASE \E k \in 1..Len(analyses[c]) : a = analyses[c][k]
  BY <1>1 DEF AnalysisInv, AnalysesGrow
<1>2. CASE \E s \in Slot : /\ txn[s].pc = "assessed" /\ txn[s].claim = c
                          /\ a = [images |-> txn[s].images,
                                  verdict |-> txn[s].new.score]
  BY <1>2 DEF AnalysisInv, HeldAnalysesCover, Holds
<1>3. QED
  BY <1>1, <1>2 DEF Judgements

\* The verdict is reached against all images of all other claims, hence
\* against all images anything else was judged on (FraudEngine.assess).
LEMMA AnalysisAssess ==
  ASSUME TypeOK, SessionsOK, AnalysisInv, NEW s \in Slot, Assess(s)
  PROVE  AnalysisInv'
<1> DEFINE t == txn[s]
           c == txn[s].claim
<1>1. t \in BusyTxn /\ c \in Claim /\ t.new \in Row
  BY BusyType DEF Assess, TypeOK, BusyTxn
<1>2. /\ analyses' = analyses
      /\ images' = images
      /\ \A r \in Slot \ {s} : txn'[r] = txn[r]
  BY DEF Assess, TypeOK, tables
<1>3. PICK v \in Verdict :
        /\ SharesImage(c, t.images) => v = "flagged"
        /\ txn'[s] = [t EXCEPT !.pc = "assessed", !.new = Judged(t.new, v)]
  BY DEF Assess, TypeOK
<1>4. /\ txn'[s].pc = "assessed"
      /\ txn'[s].claim = c
      /\ txn'[s].images = t.images
      /\ txn'[s].new.score = v
  BY <1>1, <1>3 DEF BusyTxn, Judged, Row
<1>5. Holds(s)
  BY DEF Assess, Holds
<1>6. RowLockIsExclusive'
  BY <1>2, <1>4, <1>5 DEF AnalysisInv, RowLockIsExclusive, Holds
<1>7. AnalysesGrow'
  BY <1>2 DEF AnalysisInv, AnalysesGrow
<1>8. HeldAnalysesCover'
  BY <1>2, <1>4, <1>5 DEF AnalysisInv, HeldAnalysesCover, Holds
<1> DEFINE judgement == [images |-> t.images, verdict |-> v]
<1>9. \A d \in Claim : Judgements(d)' \subseteq
                         Judgements(d) \union IF d = c THEN {judgement} ELSE {}
  BY <1>2, <1>4 DEF Judgements
<1>10. ASSUME NEW d \in Claim \ {c}, NEW b \in Judgements(d),
              \E i \in t.images, j \in b.images : Digest[i] = Digest[j]
       PROVE  v = "flagged"
  <2>1. b.images \subseteq images[d]
    BY JudgedImages
  <2>2. SharesImage(c, t.images)
    BY <1>10, <2>1 DEF SharesImage
  <2>3. QED
    BY <1>3, <2>2
<1>11. JudgementsFlagged'
  <2> SUFFICES ASSUME NEW d \in Claim, NEW e \in Claim, d # e,
                      NEW a \in Judgements(d)', NEW b \in Judgements(e)',
                      SamePictureIn(a, b)
               PROVE  a.verdict = "flagged" \/ b.verdict = "flagged"
    BY DEF JudgementsFlagged, SamePictureIn
  <2>1. CASE a \in Judgements(d) /\ b \in Judgements(e)
    BY <2>1 DEF AnalysisInv, JudgementsFlagged
  <2>2. CASE a = judgement /\ d = c
    <3>1. b \in Judgements(e)
      BY <1>9, <2>2
    <3>2. QED
      BY <1>10, <2>2, <3>1 DEF SamePictureIn
  <2>3. CASE b = judgement /\ e = c
    <3>1. a \in Judgements(d)
      BY <1>9, <2>3
    <3>2. QED
      BY <1>10, <2>3, <3>1 DEF SamePictureIn
  <2>4. QED
    BY <1>9, <2>1, <2>2, <2>3
<1>12. QED
  BY <1>6, <1>7, <1>8, <1>11 DEF AnalysisInv

\* The committed analysis covers all that were committed before, and the
\* verdicts stay what they were (submit's commit).
LEMMA AnalysisCommit ==
  ASSUME TypeOK, SessionsOK, AnalysisInv, NEW s \in Slot, CommitSubmit(s)
  PROVE  AnalysisInv'
<1> DEFINE t == txn[s]
           c == txn[s].claim
           row == [images |-> t.images, verdict |-> t.new.score]
<1>1. t \in BusyTxn /\ c \in Claim /\ t.images # {} /\ Holds(s)
  BY BusyType DEF CommitSubmit, TypeOK, SessionsOK, SessionOK, BusyTxn, Holds
<1>2. /\ images' = images
      /\ analyses' = [analyses EXCEPT ![c] = Append(analyses[c], row)]
      /\ \A r \in Slot \ {s} : txn'[r] = txn[r]
      /\ txn'[s] = IdleTxn
  BY DEF CommitSubmit, Release, TypeOK
<1>3. /\ analyses[c] \in Seq(Analysis)
      /\ row \in Analysis
  BY <1>1 DEF TypeOK, CommitSubmit, SessionsOK, SessionOK, Analysis, BusyTxn
<1>4. /\ Len(analyses'[c]) = Len(analyses[c]) + 1
      /\ \A k \in 1..Len(analyses[c]) : analyses'[c][k] = analyses[c][k]
      /\ analyses'[c][Len(analyses[c]) + 1] = row
      /\ \A d \in Claim \ {c} : analyses'[d] = analyses[d]
      /\ Len(analyses[c]) \in Nat
  BY <1>1, <1>2, <1>3 DEF TypeOK
<1>5. \A r \in Slot : Holds(r)' =>
        Holds(r) /\ txn'[r] = txn[r] /\ txn[r].claim # c
  BY <1>1, <1>2 DEF AnalysisInv, RowLockIsExclusive, Holds, IdleTxn
<1>6. RowLockIsExclusive'
  BY <1>5 DEF AnalysisInv, RowLockIsExclusive, Holds
<1>7. AnalysesGrow'
  <2> SUFFICES ASSUME NEW d \in Claim, NEW k \in 1..Len(analyses'[d])
               PROVE  /\ analyses'[d][k].images # {}
                      /\ analyses'[d][k].images \subseteq images[d]
                      /\ \A j \in 1..(k - 1) :
                           analyses'[d][j].images \subseteq analyses'[d][k].images
    BY <1>2 DEF AnalysesGrow
  <2>1. CASE d # c
    BY <1>4, <2>1 DEF AnalysisInv, AnalysesGrow
  <2>2. CASE d = c /\ k \in 1..Len(analyses[c])
    <3>1. \A j \in 1..(k - 1) : j \in 1..Len(analyses[c])
      BY <1>4, <2>2
    <3>2. QED
      BY <1>4, <2>2, <3>1 DEF AnalysisInv, AnalysesGrow
  <2>3. CASE d = c /\ k = Len(analyses[c]) + 1
    <3>1. \A j \in 1..(k - 1) : j \in 1..Len(analyses[c])
      BY <1>4, <2>3
    <3>2. /\ t.images \subseteq images[c]
          /\ \A j \in 1..Len(analyses[c]) : analyses[c][j].images \subseteq t.images
      BY <1>1 DEF AnalysisInv, HeldAnalysesCover
    <3>3. analyses'[d][k].images = t.images
      BY <1>4, <2>3
    <3>4. \A j \in 1..(k - 1) : analyses'[d][j].images \subseteq t.images
      BY <1>4, <2>3, <3>1, <3>2
    <3>5. QED
      BY <1>1, <2>3, <3>2, <3>3, <3>4
  <2>4. QED
    BY <1>4, <2>1, <2>2, <2>3
<1>8. HeldAnalysesCover'
  <2> SUFFICES ASSUME NEW r \in Slot, Holds(r)'
               PROVE  /\ txn'[r].images \subseteq images'[txn'[r].claim]
                      /\ \A k \in 1..Len(analyses'[txn'[r].claim]) :
                           analyses'[txn'[r].claim][k].images \subseteq txn'[r].images
    BY DEF HeldAnalysesCover
  <2>1. Holds(r) /\ txn'[r] = txn[r] /\ txn[r].claim # c
    BY <1>5
  <2>2. txn[r].claim \in Claim
    BY <2>1, BusyType DEF TypeOK, Holds, BusyTxn
  <2>3. analyses'[txn[r].claim] = analyses[txn[r].claim]
    BY <1>4, <2>1, <2>2
  <2>4. /\ txn[r].images \subseteq images[txn[r].claim]
        /\ \A k \in 1..Len(analyses[txn[r].claim]) :
             analyses[txn[r].claim][k].images \subseteq txn[r].images
    BY <2>1 DEF AnalysisInv, HeldAnalysesCover
  <2>5. QED
    BY <1>2, <2>1, <2>3, <2>4
<1>9. \A d \in Claim : Judgements(d)' \subseteq Judgements(d)
  <2> SUFFICES ASSUME NEW d \in Claim, NEW a \in Judgements(d)'
               PROVE  a \in Judgements(d)
    OBVIOUS
  <2>1. CASE \E k \in 1..Len(analyses'[d]) : a = analyses'[d][k]
    <3>1. PICK k \in 1..Len(analyses'[d]) : a = analyses'[d][k]
      BY <2>1
    <3>2. CASE d = c /\ k = Len(analyses[c]) + 1
      BY <1>4, <3>1, <3>2 DEF Judgements, CommitSubmit
    <3>3. CASE ~(d = c /\ k = Len(analyses[c]) + 1)
      <4>1. k \in 1..Len(analyses[d]) /\ a = analyses[d][k]
        BY <1>4, <3>1, <3>3
      <4>2. QED
        BY <4>1 DEF Judgements
    <3>4. QED
      BY <3>2, <3>3
  <2>2. CASE \E r \in Slot : /\ txn'[r].pc = "assessed" /\ txn'[r].claim = d
                            /\ a = [images |-> txn'[r].images,
                                    verdict |-> txn'[r].new.score]
    BY <1>5, <2>2 DEF Judgements, Holds
  <2>3. QED
    BY <2>1, <2>2 DEF Judgements
<1>10. JudgementsFlagged'
  BY <1>9 DEF AnalysisInv, JudgementsFlagged, SamePictureIn
<1>11. QED
  BY <1>6, <1>7, <1>8, <1>10 DEF AnalysisInv

\* Initially there is nothing to compare.
LEMMA AnalysisInit == Init => AnalysisInv
<1> SUFFICES ASSUME Init PROVE AnalysisInv
  OBVIOUS
<1>1. \A s \in Slot : txn[s].pc = "idle"
  BY DEF Init, IdleTxn
<1>2. \A c \in Claim : analyses[c] = <<>> /\ Len(analyses[c]) = 0
  BY DEF Init
<1>3. \A c \in Claim : Judgements(c) = {}
  BY <1>1, <1>2 DEF Judgements
<1>4. QED
  BY <1>1, <1>2, <1>3 DEF AnalysisInv, RowLockIsExclusive, AnalysesGrow,
     HeldAnalysesCover, JudgementsFlagged, Holds

\* Every step keeps the analysis invariant.
LEMMA AnalysisStep == Typed /\ AnalysisInv /\ [Next]_vars => AnalysisInv'
<1> SUFFICES ASSUME TypeOK, SessionsOK, AnalysisInv, [Next]_vars
             PROVE  AnalysisInv'
  BY DEF Typed
<1>1. CASE Quiet
  BY <1>1, AnalysisQuiet
<1>2. ASSUME NEW s \in Slot, CommitUpload(s)
      PROVE  AnalysisInv'
  BY <1>2, AnalysisUpload
<1>3. ASSUME NEW s \in Slot, StartAnalysis(s)
      PROVE  AnalysisInv'
  BY <1>3, AnalysisStart
<1>4. ASSUME NEW s \in Slot, Assess(s)
      PROVE  AnalysisInv'
  BY <1>4, AnalysisAssess
<1>5. ASSUME NEW s \in Slot, CommitSubmit(s)
      PROVE  AnalysisInv'
  BY <1>5, AnalysisCommit
<1>6. QED
  BY <1>1, <1>2, <1>3, <1>4, <1>5, StepKinds

\* The row lock of a claim excludes, a session past it holds every image that
\* was analysed before, and verdicts not committed yet already respect the
\* duplicate rule, in every interleaving of submissions (run_ai_pipeline).
THEOREM AnalysisIsGuarded == Spec => []AnalysisInv
<1>1. QED
  BY TypedInit, TypedStep, AnalysisInit, AnalysisStep, PTL DEF Spec

\* Analyses of a claim never shrink, however submissions, uploads and decisions
\* interleave (run_ai_pipeline reads the images under the row lock).
THEOREM AnalysesNeverShrink == Spec => []AnalysesGrow
<1>1. AnalysisInv => AnalysesGrow
  BY DEF AnalysisInv
<1>2. QED
  BY <1>1, AnalysisIsGuarded, PTL

\* A picture on two analysed claims has at least one of them flagged, also when
\* both are analysed at once (FraudEngine._duplicate_image_signals).
THEOREM DuplicatesAreFlagged == Spec => []SharedPictureFlagged
<1>1. AnalysisInv => SharedPictureFlagged
  BY DEF AnalysisInv, JudgementsFlagged, SharedPictureFlagged, Judgements
<1>2. QED
  BY <1>1, AnalysisIsGuarded, PTL

-----------------------------------------------------------------------------
\* Files.  An image row always has its file, whatever uploads, rollbacks and
\* analyses overlap: the file is stored first and never removed.

StorageInv == ImagesAreStored /\ UploadsAreFresh

\* The session that takes the step is past its upload, or had none; everything
\* else that concerns uploads is as before.
NoUploadBy(s) ==
  /\ UNCHANGED <<images, files>>
  /\ txn'[s].pc # "upload"
  /\ \A r \in Slot \ {s} : txn'[r] = txn[r]

\* Every step that is neither the beginning nor the end of an upload.
LEMMA StorageSteps ==
  ASSUME TypeOK, [Next]_vars
  PROVE  \/ UNCHANGED <<images, files, txn>>
         \/ \E s \in Slot : NoUploadBy(s)
         \/ \E s \in Slot : CommitUpload(s)
         \/ \E s \in Slot, u \in User, c \in Claim, i \in Image :
              LoadForUpload(s, u, c, i)
<1>0. txn \in [Slot -> Txn] /\ IdleTxn.pc # "upload"
  BY DEF TypeOK, IdleTxn
<1>1. CASE UNCHANGED vars \/ \E u \in User, c \in Claim : CreateClaim(u, c)
  BY <1>1 DEF vars, CreateClaim
<1>2. ASSUME NEW s \in Slot,
             RejectSubmit(s) \/ CommitSubmit(s) \/ CommitDecision(s) \/ Rollback(s)
      PROVE  NoUploadBy(s)
  BY <1>0, <1>2
  DEF NoUploadBy, RejectSubmit, CommitSubmit, CommitDecision, Rollback, Release, tables
<1>3. ASSUME NEW s \in Slot, NEW u \in User, NEW c \in Claim,
             \/ LoadForSubmit(s, u, c)
             \/ \E to \in Target, amount \in Amount \union {None}, reason \in BOOLEAN :
                  LoadForDecision(s, u, c, to, amount, reason)
      PROVE  NoUploadBy(s)
  BY <1>0, <1>3 DEF NoUploadBy, LoadForSubmit, LoadForDecision, tables
<1>4. ASSUME NEW s \in Slot, StartAnalysis(s)
      PROVE  NoUploadBy(s)
  <2>1. txn[s] \in BusyTxn
    BY <1>4, BusyType DEF StartAnalysis, TypeOK
  <2>2. QED
    BY <1>0, <1>4, <2>1 DEF NoUploadBy, StartAnalysis, tables, BusyTxn
<1>5. ASSUME NEW s \in Slot, Assess(s)
      PROVE  NoUploadBy(s)
  <2>1. txn[s] \in BusyTxn
    BY <1>5, BusyType DEF Assess, TypeOK
  <2>2. QED
    BY <1>0, <1>5, <2>1 DEF NoUploadBy, Assess, tables, BusyTxn
<1>6. QED
  BY <1>1, <1>2, <1>3, <1>4, <1>5 DEF Next, Progress

LEMMA StorageInit == Init => StorageInv
  BY DEF Init, StorageInv, ImagesAreStored, UploadsAreFresh, IdleTxn

\* Sessions that only read or decide leave images and files alone.
LEMMA StorageQuiet ==
  ASSUME StorageInv, NEW s \in Slot, NoUploadBy(s)
  PROVE  StorageInv'
  BY DEF StorageInv, ImagesAreStored, UploadsAreFresh, NoUploadBy

\* A new upload stores a file that no image has (store_file).
LEMMA StorageLoad ==
  ASSUME TypeOK, StorageInv, NEW s \in Slot, NEW u \in User, NEW c \in Claim,
         NEW i \in Image, LoadForUpload(s, u, c, i)
  PROVE  StorageInv'
<1>1. /\ i \notin files /\ files' = files \union {i} /\ images' = images
      /\ txn'[s].pc = "upload" /\ txn'[s].images = {i} /\ txn[s].pc # "upload"
      /\ \A r \in Slot \ {s} : txn'[r] = txn[r]
  BY DEF LoadForUpload, Fresh, tables, TypeOK
<1>2. \A d \in Claim : i \notin images[d]
  BY <1>1 DEF StorageInv, ImagesAreStored
<1>3. \A r \in Slot : txn[r].pc = "upload" => i \notin txn[r].images
  BY <1>1 DEF StorageInv, UploadsAreFresh
<1>4. ImagesAreStored'
  BY <1>1 DEF StorageInv, ImagesAreStored
<1>5. UploadsAreFresh'
  BY <1>1, <1>2, <1>3 DEF StorageInv, UploadsAreFresh
<1>6. QED
  BY <1>4, <1>5 DEF StorageInv

\* The row is inserted with its file in place (add_image).
LEMMA StorageCommit ==
  ASSUME TypeOK, StorageInv, NEW s \in Slot, CommitUpload(s)
  PROVE  StorageInv'
<1>1. PICK c \in Claim, pics \in SUBSET Image :
        c = txn[s].claim /\ pics = txn[s].images
  <2>1. txn[s] \in BusyTxn
    BY BusyType DEF CommitUpload, TypeOK
  <2>2. QED
    BY <2>1 DEF BusyTxn
<1>2. /\ images' = [images EXCEPT ![c] = @ \union pics] /\ files' = files
      /\ txn[s].pc = "upload" /\ txn'[s].pc # "upload"
      /\ \A r \in Slot \ {s} : txn'[r] = txn[r]
  BY <1>1 DEF CommitUpload, Release, IdleTxn, TypeOK
<1>3. /\ images'[c] = images[c] \union pics
      /\ \A d \in Claim \ {c} : images'[d] = images[d]
  BY <1>2 DEF TypeOK
<1>4. /\ pics \subseteq files
      /\ \A d \in Claim : pics \intersect images[d] = {}
      /\ \A r \in Slot \ {s} : txn[r].pc = "upload" =>
           pics \intersect txn[r].images = {}
  BY <1>1, <1>2 DEF StorageInv, UploadsAreFresh
<1>5. ImagesAreStored'
  BY <1>2, <1>3, <1>4 DEF StorageInv, ImagesAreStored
<1>6. UploadsAreFresh'
  BY <1>2, <1>3, <1>4 DEF StorageInv, UploadsAreFresh
<1>7. QED
  BY <1>5, <1>6 DEF StorageInv

LEMMA StorageStep == Typed /\ StorageInv /\ [Next]_vars => StorageInv'
<1> SUFFICES ASSUME Typed, StorageInv, [Next]_vars PROVE StorageInv'
  OBVIOUS
<1>1. TypeOK
  BY DEF Typed
<1>2. CASE UNCHANGED <<images, files, txn>>
  BY <1>2 DEF StorageInv, ImagesAreStored, UploadsAreFresh
<1>3. QED
  BY <1>1, <1>2, StorageSteps, StorageQuiet, StorageLoad, StorageCommit

\* Every image row belongs to one claim and has its file, also when uploads
\* overlap, roll back and are retried (add_image, store_file).
THEOREM FilesComeFirst == Spec => []ImagesAreStored
<1>1. Spec => []StorageInv
  BY TypedInit, TypedStep, StorageInit, StorageStep, PTL DEF Spec
<1>2. StorageInv => ImagesAreStored
  BY DEF StorageInv
<1>3. QED
  BY <1>1, <1>2, PTL

=============================================================================
