----------------------- MODULE ClaimRefinement_proofs -----------------------
(***************************************************************************)
(* Proof that the claim service, when it serves one request at a time,     *)
(* implements ClaimLifecycle for all claims, images, users and any number  *)
(* of requests: between the first SELECT and the commit nothing it read    *)
(* can have changed.                                                       *)
(***************************************************************************)
EXTENDS ClaimHistory_proofs

OneSession == \A r, s \in Slot : r = s

\* The phases in which a session holds a copy of its claim.
Copying == {"submit", "analyse", "assessed", "decide"}

\* The copy of the only session is the committed row; what it decided on still
\* holds.
CopyIsCurrent(s) ==
  /\ txn[s].pc # "idle" => claims[txn[s].claim].status # None
  /\ txn[s].pc \in Copying => txn[s].base = claims[txn[s].claim]
  /\ txn[s].pc \in {"analyse", "assessed"} => txn[s].images = images[txn[s].claim]
  /\ txn[s].pc = "upload" => /\ claims[txn[s].claim].status \in Uploadable
                             /\ \E i \in Image : txn[s].images = {i}

SerialInv == \A s \in Slot : CopyIsCurrent(s)

\* A session that loads has the committed row, one that ends has nothing.
LEMMA SerialInit == Init => SerialInv
  BY DEF Init, SerialInv, CopyIsCurrent, Copying, IdleTxn

\* Merging a copy that is current gives the row the handler wants.
LEMMA MergeCurrent ==
  ASSUME NEW row \in Row, NEW new \in Row
  PROVE  Merge(row, row, new) = new
  BY DEF Merge, Column, Row

LEMMA SerialStep ==
  ASSUME OneSession
  PROVE  Typed /\ SerialInv /\ [Next]_vars => SerialInv'
<1> SUFFICES ASSUME Typed, SerialInv, [Next]_vars PROVE SerialInv'
  OBVIOUS
<1>0. /\ TypeOK /\ txn \in [Slot -> Txn] /\ claims \in [Claim -> Row]
      /\ IdleTxn.pc = "idle"
  BY DEF Typed, TypeOK, IdleTxn
<1>1. ASSUME NEW u \in User, NEW c \in Claim, CreateClaim(u, c)
      PROVE  SerialInv'
  <2>1. /\ claims[c].status = None /\ UNCHANGED <<images, txn>>
        /\ \A d \in Claim \ {c} : claims'[d] = claims[d]
    BY <1>0, <1>1 DEF CreateClaim
  <2>2. ASSUME NEW s \in Slot, txn[s].pc # "idle"
        PROVE  claims'[txn[s].claim] = claims[txn[s].claim]
    <3>1. txn[s].claim \in Claim /\ claims[txn[s].claim].status # None
      BY <1>0, <2>2, BusyType DEF SerialInv, CopyIsCurrent, BusyTxn
    <3>2. QED
      BY <2>1, <3>1
  <2>3. QED
    BY <2>1, <2>2 DEF SerialInv, CopyIsCurrent, Copying
<1>2. ASSUME NEW s \in Slot, NEW u \in User, NEW c \in Claim,
             \/ LoadForSubmit(s, u, c)
             \/ \E i \in Image : LoadForUpload(s, u, c, i)
             \/ \E to \in Target, amount \in Amount \union {None}, reason \in BOOLEAN :
                  LoadForDecision(s, u, c, to, amount, reason)
      PROVE  SerialInv'
  <2>1. /\ UNCHANGED <<claims, images>>
        /\ \A r \in Slot \ {s} : txn'[r] = txn[r]
    BY <1>0, <1>2 DEF LoadForSubmit, LoadForUpload, LoadForDecision, tables
  <2>2. CopyIsCurrent(s)'
    <3>1. CASE LoadForSubmit(s, u, c)
      <4>1. /\ txn'[s].pc = "submit" /\ txn'[s].claim = c
            /\ txn'[s].base = claims[c] /\ claims[c].status = "draft"
        BY <1>0, <3>1 DEF LoadForSubmit
      <4>2. QED
        BY <2>1, <4>1 DEF CopyIsCurrent, Copying, None
    <3>2. ASSUME NEW i \in Image, LoadForUpload(s, u, c, i)
          PROVE  CopyIsCurrent(s)'
      <4>1. /\ txn'[s].pc = "upload" /\ txn'[s].claim = c
            /\ txn'[s].images = {i} /\ claims[c].status \in Uploadable
        BY <1>0, <3>2 DEF LoadForUpload
      <4>2. QED
        BY <2>1, <4>1 DEF CopyIsCurrent, Copying, Uploadable, None
    <3>3. ASSUME NEW to \in Target, NEW amount \in Amount \union {None},
                 NEW reason \in BOOLEAN,
                 LoadForDecision(s, u, c, to, amount, reason)
          PROVE  CopyIsCurrent(s)'
      <4>1. /\ txn'[s].pc = "decide" /\ txn'[s].claim = c
            /\ txn'[s].base = claims[c] /\ claims[c].status # None
        BY <1>0, <3>3 DEF LoadForDecision
      <4>2. QED
        BY <2>1, <4>1 DEF CopyIsCurrent, Copying
    <3>4. QED
      BY <1>2, <3>1, <3>2, <3>3
  <2>3. QED
    BY <2>1, <2>2 DEF SerialInv, CopyIsCurrent
<1>3. ASSUME NEW s \in Slot, StartAnalysis(s) \/ Assess(s)
      PROVE  SerialInv'
  <2>1. PICK t \in BusyTxn : t = txn[s]
    BY <1>0, <1>3, BusyType DEF StartAnalysis, Assess
  <2>2. /\ UNCHANGED <<claims, images>>
        /\ \A r \in Slot \ {s} : txn'[r] = txn[r]
    BY <1>0, <1>3 DEF StartAnalysis, Assess, tables
  <2>3. /\ txn'[s].pc \in {"analyse", "assessed"} /\ t.pc \in {"submit", "analyse"}
        /\ txn'[s].claim = t.claim /\ txn'[s].base = t.base
        /\ txn'[s].images = images[t.claim]
    <3>1. CASE StartAnalysis(s)
      <4>1. txn' = [txn EXCEPT ![s] =
                      [t EXCEPT !.pc = "analyse", !.new = InProcessing(t.new),
                                !.images = images[t.claim]]]
        BY <2>1, <3>1 DEF StartAnalysis
      <4>2. t.pc = "submit"
        BY <2>1, <3>1 DEF StartAnalysis
      <4>3. QED
        BY <1>0, <4>1, <4>2 DEF BusyTxn
    <3>2. CASE Assess(s)
      <4>1. PICK v \in Verdict :
              txn' = [txn EXCEPT ![s] =
                        [t EXCEPT !.pc = "assessed", !.new = Judged(t.new, v)]]
        BY <2>1, <3>2 DEF Assess
      <4>2. t.pc = "analyse" /\ t.images = images[t.claim]
        BY <2>1, <3>2 DEF Assess, SerialInv, CopyIsCurrent
      <4>3. QED
        BY <1>0, <4>1, <4>2 DEF BusyTxn
    <3>3. QED
      BY <1>3, <3>1, <3>2
  <2>4. /\ t.base = claims[t.claim] /\ claims[t.claim].status # None
    BY <2>1, <2>3 DEF SerialInv, CopyIsCurrent, Copying
  <2>5. CopyIsCurrent(s)'
    BY <2>2, <2>3, <2>4 DEF CopyIsCurrent, Copying
  <2>6. QED
    BY <2>2, <2>5 DEF SerialInv, CopyIsCurrent
<1>4. ASSUME NEW s \in Slot, Release(s)
      PROVE  SerialInv'
  <2>1. \A r \in Slot : txn'[r].pc = "idle"
    BY <1>0, <1>4 DEF OneSession, Release
  <2>2. QED
    BY <2>1 DEF SerialInv, CopyIsCurrent, Copying
<1>5. CASE UNCHANGED vars
  BY <1>5 DEF vars, SerialInv, CopyIsCurrent
<1>6. QED
  BY <1>1, <1>2, <1>3, <1>4, <1>5
  DEF Next, Progress, CommitUpload, RejectSubmit, CommitSubmit, CommitDecision, Rollback

-----------------------------------------------------------------------------
\* The steps of the service as steps of the lifecycle.

\* The images the newest analysis of a claim covers, as the mapping has them.
Covered(c) == IF analyses[c] = <<>> THEN {} ELSE analyses[c][Len(analyses[c])].images

\* Both levels mean the same by the words of ClaimWorkflow.
LEMMA Vocabulary ==
  /\ Lifecycle!None = None
  /\ Lifecycle!Status = Status
  /\ Lifecycle!Verdict = Verdict
  /\ Lifecycle!Uploadable = Uploadable
  /\ Lifecycle!ValidTransitions = ValidTransitions
  /\ \A v \in Verdict : Lifecycle!ReviewStatus(v) = ReviewStatus(v)
  BY DEF Lifecycle!None, None, Lifecycle!Status, Status, Lifecycle!Verdict, Verdict,
     Lifecycle!Uploadable, Uploadable, Lifecycle!ValidTransitions, ValidTransitions,
     Lifecycle!ReviewStatus, ReviewStatus

LEMMA RefineInit == Init => Lifecycle!Init
  BY Vocabulary DEF Init, Lifecycle!Init, NoRow

LEMMA RefineStutter ==
  ASSUME UNCHANGED <<claims, images, analyses>>
  PROVE  UNCHANGED Lifecycle!vars
  BY DEF Lifecycle!vars

\* create_claim.
LEMMA RefineCreate ==
  ASSUME TypeOK, NEW u \in User, NEW c \in Claim, CreateClaim(u, c)
  PROVE  Lifecycle!Create(c)
<1>1. /\ claims \in [Claim -> Row] /\ claims[c].status = None
      /\ claims' = [claims EXCEPT ![c].status = "draft"]
      /\ UNCHANGED <<images, analyses>>
  BY DEF CreateClaim, TypeOK
<1>2. /\ \A d \in Claim : claims'[d].score = claims[d].score
      /\ \A d \in Claim : claims'[d].status =
                             IF d = c THEN "draft" ELSE claims[d].status
  BY <1>1 DEF Row
<1>3. QED
  BY <1>1, <1>2, Vocabulary DEF Lifecycle!Create

\* add_image, at its commit: the draft it was admitted to is still one.
LEMMA RefineUpload ==
  ASSUME TypeOK, SerialInv, StorageInv, NEW s \in Slot, CommitUpload(s)
  PROVE  \E c \in Claim, i \in Image : Lifecycle!AddImage(c, i)
<1>1. txn[s] \in BusyTxn /\ txn[s].pc = "upload"
  BY BusyType DEF CommitUpload, TypeOK
<1>2. PICK c \in Claim, i \in Image : c = txn[s].claim /\ txn[s].images = {i}
  BY <1>1 DEF SerialInv, CopyIsCurrent, BusyTxn
<1>3. /\ claims[c].status \in Uploadable
      /\ \A d \in Claim : i \notin images[d]
  BY <1>1, <1>2 DEF SerialInv, CopyIsCurrent, StorageInv, UploadsAreFresh
<1>4. /\ images' = [images EXCEPT ![c] = @ \union {i}]
      /\ UNCHANGED <<claims, analyses>>
  BY <1>2 DEF CommitUpload
<1>5. Lifecycle!AddImage(c, i)
  BY <1>3, <1>4, Vocabulary DEF Lifecycle!AddImage
<1>6. QED
  BY <1>5

\* submit with its pipeline, at its commit: the three transitions are one.
LEMMA RefineSubmit ==
  ASSUME Typed, SerialInv, NEW s \in Slot, CommitSubmit(s)
  PROVE  \E c \in Claim, v \in Verdict : Lifecycle!Submit(c, v)
<1>1. TypeOK /\ txn[s] \in BusyTxn /\ txn[s].pc = "assessed"
  BY BusyType DEF CommitSubmit, Typed, TypeOK
<1>2. PICK t \in BusyTxn : t = txn[s]
  BY <1>1
<1>3. PICK c \in Claim, v \in Verdict : c = t.claim /\ v = t.new.score
  BY <1>1, <1>2 DEF Typed, SessionsOK, SessionOK, BusyTxn
<1>4. /\ t.base.status = "draft" /\ t.images # {}
      /\ t.new.status = ReviewStatus(v)
      /\ t.base = claims[c] /\ t.images = images[c]
  BY <1>1, <1>2, <1>3
  DEF Typed, SessionsOK, SessionOK, SerialInv, CopyIsCurrent, Copying
<1>5. SubmittedRow(claims[c], t) = [t.new EXCEPT !.score = v]
  <2>1. t.new \in Row /\ claims[c] \in Row
    BY <1>1 DEF BusyTxn, TypeOK
  <2>2. Merge(claims[c], t.base, t.new) = t.new
    BY <1>4, <2>1, MergeCurrent
  <2>3. QED
    BY <1>3, <2>2 DEF SubmittedRow
<1>6. [t.new EXCEPT !.score = v] = t.new
  BY <1>3 DEF BusyTxn, Row
<1>7. claims' = [claims EXCEPT ![c] = t.new] /\ images' = images
  BY <1>2, <1>3, <1>5, <1>6 DEF CommitSubmit
<1>8. /\ \A d \in Claim : claims'[d].status =
                             IF d = c THEN ReviewStatus(v) ELSE claims[d].status
      /\ \A d \in Claim : claims'[d].score =
                             IF d = c THEN v ELSE claims[d].score
  BY <1>1, <1>3, <1>4, <1>7 DEF TypeOK
<1>9. \A d \in Claim : Covered(d)' = IF d = c THEN images[c] ELSE Covered(d)
  <2> DEFINE a == [images |-> t.images, verdict |-> t.new.score]
  <2>1. analyses' = [analyses EXCEPT ![c] = Append(@, a)]
    BY <1>2, <1>3 DEF CommitSubmit
  <2>2. a.images = images[c] /\ a \in Analysis
    BY <1>3, <1>4 DEF BusyTxn, Analysis
  <2>3. analyses \in [Claim -> Seq(Analysis)]
    BY <1>1 DEF TypeOK
  <2> HIDE DEF a
  <2>4. /\ analyses'[c] = Append(analyses[c], a)
        /\ \A d \in Claim \ {c} : analyses'[d] = analyses[d]
    BY <2>1, <2>3
  <2>5. /\ Append(analyses[c], a) # <<>>
        /\ Append(analyses[c], a)[Len(Append(analyses[c], a))] = a
    <3>1. PICK q \in Seq(Analysis) : q = analyses[c]
      BY <2>3
    <3>2. Append(q, a) # <<>> /\ Append(q, a)[Len(Append(q, a))] = a
      BY <2>2
    <3>3. QED
      BY <3>1, <3>2
  <2>6. QED
    BY <2>2, <2>4, <2>5 DEF Covered
<1>10. claims[c].status = "draft" /\ images[c] # {}
  BY <1>4
<1>11. Lifecycle!Submit(c, v)
  BY <1>7, <1>8, <1>9, <1>10, Vocabulary DEF Lifecycle!Submit, Covered
<1>12. QED
  BY <1>11

\* update_status, at its commit: the transition that was checked is the one made.
LEMMA RefineDecision ==
  ASSUME Typed, SerialInv, NEW s \in Slot, CommitDecision(s)
  PROVE  \E c \in Claim, to \in Status : Lifecycle!Move(c, to)
<1>1. TypeOK /\ txn[s] \in BusyTxn /\ txn[s].pc = "decide"
  BY BusyType DEF CommitDecision, Typed, TypeOK
<1>2. PICK t \in BusyTxn : t = txn[s]
  BY <1>1
<1>3. /\ t.base.status \in Status /\ t.new.status \in Status
      /\ t.new.score = t.base.score
      /\ \/ t.new.status \in ValidTransitions[t.base.status]
         \/ RoleOf[t.user] \in Overriders
  BY <1>1, <1>2 DEF Typed, SessionsOK, SessionOK
<1>4. PICK c \in Claim, to \in Status : c = t.claim /\ to = t.new.status
  BY <1>3 DEF BusyTxn
<1>5. t.base = claims[c] /\ claims[c].status # None
  BY <1>1, <1>2, <1>4 DEF SerialInv, CopyIsCurrent, Copying
<1>6. Merge(claims[c], t.base, t.new) = t.new
  <2>1. t.new \in Row /\ claims[c] \in Row
    BY <1>1 DEF BusyTxn, TypeOK
  <2>2. QED
    BY <1>5, <2>1, MergeCurrent
<1>7. /\ claims' = [claims EXCEPT ![c] = t.new]
      /\ UNCHANGED <<images, analyses>>
  BY <1>2, <1>4, <1>6 DEF CommitDecision
<1>8. /\ \A d \in Claim : claims'[d].status =
                             IF d = c THEN to ELSE claims[d].status
      /\ \A d \in Claim : claims'[d].score = claims[d].score
  BY <1>1, <1>3, <1>4, <1>5, <1>7 DEF TypeOK
<1>9. ~NobodyOverrides \/ to \in ValidTransitions[claims[c].status]
  BY <1>3, <1>4, <1>5 DEF NobodyOverrides, BusyTxn
<1>10. Lifecycle!Move(c, to)
  BY <1>5, <1>7, <1>8, <1>9, Vocabulary DEF Lifecycle!Move
<1>11. QED
  BY <1>10

LEMMA RefineStep ==
  ASSUME Typed, SerialInv, StorageInv, [Next]_vars
  PROVE  [Lifecycle!Next]_(Lifecycle!vars)
<1>1. TypeOK
  BY DEF Typed
<1>2. ASSUME NEW s \in Slot, NEW u \in User, NEW c \in Claim,
             \/ LoadForSubmit(s, u, c)
             \/ \E i \in Image : LoadForUpload(s, u, c, i)
             \/ \E to \in Target, amount \in Amount \union {None}, reason \in BOOLEAN :
                  LoadForDecision(s, u, c, to, amount, reason)
      PROVE  UNCHANGED <<claims, images, analyses>>
  BY <1>2 DEF LoadForSubmit, LoadForUpload, LoadForDecision, tables
<1>3. ASSUME NEW s \in Slot,
             RejectSubmit(s) \/ StartAnalysis(s) \/ Assess(s) \/ Rollback(s)
      PROVE  UNCHANGED <<claims, images, analyses>>
  BY <1>3 DEF RejectSubmit, StartAnalysis, Assess, Rollback, tables
<1>4. CASE UNCHANGED vars
  BY <1>4, RefineStutter DEF vars
<1>5. ASSUME NEW u \in User, NEW c \in Claim, CreateClaim(u, c)
      PROVE  Lifecycle!Next
  BY <1>1, <1>5, RefineCreate DEF Lifecycle!Next
<1>6. ASSUME NEW s \in Slot, CommitUpload(s)
      PROVE  Lifecycle!Next
  BY <1>1, <1>6, RefineUpload DEF Lifecycle!Next
<1>7. ASSUME NEW s \in Slot, CommitSubmit(s)
      PROVE  Lifecycle!Next
  BY <1>7, RefineSubmit, Vocabulary DEF Lifecycle!Next
<1>8. ASSUME NEW s \in Slot, CommitDecision(s)
      PROVE  Lifecycle!Next
  BY <1>8, RefineDecision, Vocabulary DEF Lifecycle!Next
<1>9. QED
  BY <1>2, <1>3, <1>4, <1>5, <1>6, <1>7, <1>8, RefineStutter DEF Next, Progress

\* Requests served one after the other implement the lifecycle: submit with its
\* pipeline, add_image and update_status take effect at once and along
\* VALID_TRANSITIONS, for any number of claims, images, users and requests.
THEOREM ServedInTurn == ASSUME OneSession PROVE Spec => ImplementsLifecycle
<1>1. Init => Typed /\ SerialInv /\ StorageInv
  BY TypedInit, SerialInit, StorageInit
<1>2. Typed /\ SerialInv /\ StorageInv /\ [Next]_vars
      => (Typed /\ SerialInv /\ StorageInv)'
  BY TypedStep, SerialStep, StorageStep
<1>3. Typed /\ SerialInv /\ StorageInv /\ [Next]_vars
      => [Lifecycle!Next]_(Lifecycle!vars)
  BY RefineStep
<1>4. QED
  BY <1>1, <1>2, <1>3, RefineInit, PTL
  DEF Spec, ImplementsLifecycle, Lifecycle!Spec

-----------------------------------------------------------------------------
\* What the lifecycle promises of images, read off its steps.

\* The inductive form of AnalysisCoversImages, on the values the lifecycle is
\* about: a claim that may still be given images has no verdict yet.
CoverInv ==
  NobodyOverrides =>
    \A c \in Claim :
      /\ claims[c].status \in Uploadable \union {None} => claims[c].score = None
      /\ claims[c].score # None => Covered(c) = images[c]

\* A step of the lifecycle, claim by claim.
LEMMA LifecycleSteps ==
  ASSUME [Lifecycle!Next]_(Lifecycle!vars), TypeOK, TypeOK', NobodyOverrides,
         NEW d \in Claim
  PROVE  \/ /\ images'[d] = images[d] /\ Covered(d)' = Covered(d)
            /\ claims'[d].score = claims[d].score
            /\ \/ claims'[d].status = claims[d].status
               \/ claims[d].status = None
               \/ claims'[d].status \in ValidTransitions[claims[d].status]
         \/ /\ claims[d].status \in Uploadable
            /\ claims'[d].status = claims[d].status
            /\ claims'[d].score = claims[d].score
         \/ /\ images'[d] = images[d] /\ Covered(d)' = images[d]
            /\ claims'[d].status \in {"fraud_review", "surveyor_review"}
<1>0. images \in [Claim -> SUBSET Image] /\ images' \in [Claim -> SUBSET Image]
  BY DEF TypeOK
<1>1. CASE UNCHANGED Lifecycle!vars
  <2>1. /\ claims'[d].status = claims[d].status /\ claims'[d].score = claims[d].score
        /\ images' = images /\ Covered(d)' = Covered(d)
    BY <1>1 DEF Lifecycle!vars, Covered
  <2>2. QED
    BY <2>1
<1>2. ASSUME NEW c \in Claim, Lifecycle!Create(c)
      PROVE  /\ images'[d] = images[d] /\ Covered(d)' = Covered(d)
             /\ claims'[d].score = claims[d].score
             /\ \/ claims'[d].status = claims[d].status
                \/ claims[d].status = None
  BY <1>2, Vocabulary DEF Lifecycle!Create, Covered
<1>3. ASSUME NEW c \in Claim, NEW i \in Image, Lifecycle!AddImage(c, i)
      PROVE  /\ claims'[d].status = claims[d].status
             /\ claims'[d].score = claims[d].score
             /\ Covered(d)' = Covered(d)
             /\ images'[d] = images[d] \/ claims[d].status \in Uploadable
  BY <1>0, <1>3, Vocabulary DEF Lifecycle!AddImage, Covered
<1>4. ASSUME NEW c \in Claim, NEW v \in Verdict, Lifecycle!Submit(c, v)
      PROVE  /\ images'[d] = images[d]
             /\ IF d = c
                THEN /\ Covered(d)' = images[d]
                     /\ claims'[d].status \in {"fraud_review", "surveyor_review"}
                ELSE /\ Covered(d)' = Covered(d)
                     /\ claims'[d].score = claims[d].score
                     /\ claims'[d].status = claims[d].status
  <2>1. ReviewStatus(v) \in {"fraud_review", "surveyor_review"}
    BY DEF ReviewStatus
  <2>2. QED
    BY <1>4, <2>1, Vocabulary DEF Lifecycle!Submit, Covered
<1>5. ASSUME NEW c \in Claim, NEW to \in Status, Lifecycle!Move(c, to)
      PROVE  /\ images'[d] = images[d] /\ Covered(d)' = Covered(d)
             /\ claims'[d].score = claims[d].score
             /\ \/ claims'[d].status = claims[d].status
                \/ claims'[d].status \in ValidTransitions[claims[d].status]
  BY <1>5, Vocabulary DEF Lifecycle!Move, Covered
<1>6. QED
  BY <1>1, <1>2, <1>3, <1>4, <1>5, Vocabulary DEF Lifecycle!Next

LEMMA CoverStep ==
  [Lifecycle!Next]_(Lifecycle!vars) /\ TypeOK /\ TypeOK' /\ CoverInv => CoverInv'
<1> SUFFICES ASSUME [Lifecycle!Next]_(Lifecycle!vars), TypeOK, TypeOK', CoverInv,
                    NobodyOverrides, NEW d \in Claim
             PROVE  /\ claims'[d].status \in Uploadable \union {None}
                         => claims'[d].score = None
                    /\ claims'[d].score # None => Covered(d)' = images'[d]
  BY DEF CoverInv, NobodyOverrides
<1>1. /\ claims[d].status \in Status \union {None}
      /\ claims[d].status \in Uploadable \union {None} => claims[d].score = None
      /\ claims[d].score # None => Covered(d) = images[d]
  BY DEF CoverInv, TypeOK, Row
\* No transition leads back to a status in which images may be added.
<1>2. \A x \in Status : \A y \in ValidTransitions[x] :
        y \in Uploadable \union {None} => x \in Uploadable
  BY DEF Status, ValidTransitions, Uploadable, None
<1>3. QED
  BY <1>1, <1>2, LifecycleSteps DEF Uploadable, None

\* Served one after the other, and with nobody overriding, the images a claim was
\* judged on are the images it has, for any number of claims and images: nothing
\* is added behind the analysis (add_image against submit).
THEOREM AnalysisSeesAllImages ==
  ASSUME OneSession PROVE Spec => []AnalysisCoversImages
<1>1. Init => CoverInv
  BY DEF Init, CoverInv, NoRow
<1>2. TypeOK => (CoverInv => AnalysisCoversImages)
  BY Vocabulary DEF CoverInv, AnalysisCoversImages, Lifecycle!AnalysisCoversImages, Covered
<1>3. Typed => TypeOK
  BY DEF Typed
<1>4. Typed /\ SerialInv /\ StorageInv /\ [Next]_vars
      => [Lifecycle!Next]_(Lifecycle!vars)
  BY RefineStep
<1>5. QED
  BY <1>1, <1>2, <1>3, <1>4, CoverStep, TypedInit, TypedStep, SerialInit, SerialStep,
     StorageInit, StorageStep, PTL DEF Spec

\* What two sessions break holds for one: no image is added to a claim that is
\* being processed or was decided (add_image's check of the status it loaded).
THEOREM UploadsPrecedeProcessing ==
  ASSUME OneSession PROVE Spec => NoImageAfterProcessing
<1> DEFINE A == \A c \in Claim :
                  images'[c] # images[c] => claims[c].status \in Uploadable
<1>1. Typed /\ SerialInv /\ [Next]_vars => [A]_vars
  <2> SUFFICES ASSUME Typed, SerialInv, [Next]_vars PROVE A
    OBVIOUS
  <2>1. ASSUME NEW s \in Slot, CommitUpload(s)
        PROVE  A
    <3>1. txn[s] \in BusyTxn /\ txn[s].pc = "upload"
      BY <2>1, BusyType DEF CommitUpload, Typed, TypeOK
    <3>2. claims[txn[s].claim].status \in Uploadable
      BY <3>1 DEF SerialInv, CopyIsCurrent
    <3>3. \A c \in Claim \ {txn[s].claim} : images'[c] = images[c]
      BY <2>1 DEF CommitUpload, Typed, TypeOK
    <3>4. QED
      BY <3>2, <3>3
  <2>2. CASE UNCHANGED images
    BY <2>2
  <2>3. ASSUME NEW u \in User, NEW c \in Claim,
               \/ CreateClaim(u, c)
               \/ \E s \in Slot :
                    \/ LoadForSubmit(s, u, c)
                    \/ \E i \in Image : LoadForUpload(s, u, c, i)
                    \/ \E to \in Target, amount \in Amount \union {None},
                          reason \in BOOLEAN :
                         LoadForDecision(s, u, c, to, amount, reason)
        PROVE  UNCHANGED images
    BY <2>3 DEF CreateClaim, LoadForSubmit, LoadForUpload, LoadForDecision, tables
  <2>4. ASSUME NEW s \in Slot,
               \/ RejectSubmit(s) \/ StartAnalysis(s) \/ Assess(s) \/ CommitSubmit(s)
               \/ CommitDecision(s) \/ Rollback(s)
        PROVE  UNCHANGED images
    BY <2>4 DEF RejectSubmit, StartAnalysis, Assess, CommitSubmit, CommitDecision,
       Rollback, tables
  <2>5. QED
    BY <2>1, <2>2, <2>3, <2>4 DEF Next, Progress, vars
<1>2. QED
  BY <1>1, TypedInit, TypedStep, SerialInit, SerialStep, PTL
  DEF Spec, NoImageAfterProcessing

\* And while nobody overrides, one session moves a status along VALID_TRANSITIONS
\* only, a submission making its three moves in one (update_status, submit).
THEOREM StatusMovesAlongTable ==
  ASSUME OneSession, NobodyOverrides PROVE Spec => StatusFollowsTable
<1> DEFINE A == \A c \in Claim :
                  LET from == claims[c].status
                      to   == claims'[c].status
                  IN \/ from = to
                     \/ from = None /\ to = "draft"
                     \/ from = "draft" /\ to \in ValidTransitions["ai_processing"]
                     \/ from # None /\ to \in ValidTransitions[from]
<1>1. [Lifecycle!Next]_(Lifecycle!vars) => A
  <2> SUFFICES ASSUME [Lifecycle!Next]_(Lifecycle!vars), NEW d \in Claim
               PROVE  LET from == claims[d].status
                          to   == claims'[d].status
                      IN \/ from = to
                         \/ from = None /\ to = "draft"
                         \/ from = "draft" /\ to \in ValidTransitions["ai_processing"]
                         \/ from # None /\ to \in ValidTransitions[from]
    OBVIOUS
  <2>1. CASE UNCHANGED Lifecycle!vars
    BY <2>1 DEF Lifecycle!vars
  <2>2. ASSUME NEW c \in Claim, Lifecycle!Create(c)
        PROVE  \/ claims'[d].status = claims[d].status
               \/ claims[d].status = None /\ claims'[d].status = "draft"
    BY <2>2, Vocabulary DEF Lifecycle!Create
  <2>3. ASSUME NEW c \in Claim, NEW i \in Image, Lifecycle!AddImage(c, i)
        PROVE  claims'[d].status = claims[d].status
    BY <2>3 DEF Lifecycle!AddImage
  <2>4. ASSUME NEW c \in Claim, NEW v \in Verdict, Lifecycle!Submit(c, v)
        PROVE  \/ claims'[d].status = claims[d].status
               \/ /\ claims[d].status = "draft"
                  /\ claims'[d].status \in ValidTransitions["ai_processing"]
    <3>1. ReviewStatus(v) \in ValidTransitions["ai_processing"]
      BY TableFacts
    <3>2. claims[c].status = "draft"
      BY <2>4 DEF Lifecycle!Submit
    <3>3. claims'[d].status = IF d = c THEN ReviewStatus(v) ELSE claims[d].status
      BY <2>4, Vocabulary DEF Lifecycle!Submit
    <3>4. QED
      BY <3>1, <3>2, <3>3
  <2>5. ASSUME NEW c \in Claim, NEW to \in Status, Lifecycle!Move(c, to)
        PROVE  \/ claims'[d].status = claims[d].status
               \/ /\ claims[d].status # None
                  /\ claims'[d].status \in ValidTransitions[claims[d].status]
    BY <2>5, Vocabulary DEF Lifecycle!Move
  <2>6. QED
    BY <2>1, <2>2, <2>3, <2>4, <2>5, Vocabulary DEF Lifecycle!Next
<1>2. Typed /\ SerialInv /\ StorageInv /\ [Next]_vars => [A]_vars
  BY <1>1, RefineStep
<1>3. QED
  BY <1>2, TypedInit, TypedStep, SerialInit, SerialStep, StorageInit, StorageStep, PTL
  DEF Spec, StatusFollowsTable

-----------------------------------------------------------------------------
\* The history of a claim.

Last(c) == IF history[c] = <<>> THEN None ELSE history[c][Len(history[c])].to

\* With one session the status follows the history even where staff override,
\* and the rows of the history join.
ChainInv ==
  /\ \A c \in Claim : claims[c].status = Last(c)
  /\ HistoryIsChain

\* Rows that start from the status of the claim, join each other, and end in its
\* new status keep the chain.
LEMMA ChainGrows ==
  ASSUME TypeOK, ChainInv, NEW c \in Claim, NEW rows \in Seq(HistoryRow),
         rows # <<>>,
         history' = [history EXCEPT ![c] = history[c] \o rows],
         rows[1].from = claims[c].status,
         rows[Len(rows)].to = claims'[c].status,
         \A k \in 1..(Len(rows) - 1) : rows[k].to = rows[k + 1].from,
         \A d \in Claim \ {c} : claims'[d].status = claims[d].status
  PROVE  ChainInv'
<1> DEFINE n == Len(history[c])
           m == Len(rows)
<1>1. /\ \A d \in Claim \ {c} : history'[d] = history[d]
      /\ n \in Nat /\ m \in Nat
      /\ Len(history'[c]) = n + m
      /\ \A k \in 1..n : history'[c][k] = history[c][k]
      /\ \A k \in 1..m : history'[c][n + k] = rows[k]
      /\ m # 0 => history'[c] # <<>>
  BY AppendFacts
<1>2. m > 0
  BY <1>1
<1>3. n # 0 => history[c] # <<>> /\ claims[c].status = history[c][n].to
  BY DEF ChainInv, Last
<1> HIDE DEF n, m
<1>4. ASSUME NEW d \in Claim
      PROVE  claims'[d].status = Last(d)'
  <2>1. CASE d = c
    <3>1. history'[c][n + m].to = claims'[c].status
      BY <1>1, <1>2 DEF m
    <3>2. QED
      BY <1>1, <1>2, <2>1, <3>1 DEF Last
  <2>2. CASE d # c
    BY <1>1, <2>2 DEF ChainInv, Last
  <2>3. QED
    BY <2>1, <2>2
<1>5. ASSUME NEW k \in 1..(n + m - 1)
      PROVE  history'[c][k].to = history'[c][k + 1].from
  <2>1. CASE k < n
    <3>1. history[c][k].to = history[c][k + 1].from
      BY <1>1, <2>1 DEF ChainInv, HistoryIsChain, n
    <3>2. k \in 1..n /\ k + 1 \in 1..n
      BY <1>1, <2>1
    <3>3. QED
      BY <1>1, <3>1, <3>2
  <2>2. CASE k = n
    <3>1. n \in 1..n /\ 1 \in 1..m
      BY <1>1, <1>2, <2>2
    <3>2. history'[c][n].to = claims[c].status
      BY <1>1, <1>3, <3>1
    <3>3. history'[c][n + 1].from = claims[c].status
      BY <1>1, <3>1
    <3>4. QED
      BY <2>2, <3>2, <3>3
  <2>3. CASE k > n
    <3>1. PICK j \in 1..(m - 1) : k = n + j
      <4>1. k - n \in 1..(m - 1)
        BY <1>1, <2>3
      <4>2. k = n + (k - n)
        BY <1>1
      <4>3. QED
        BY <4>1, <4>2
    <3>2. j \in 1..m /\ j + 1 \in 1..m /\ k + 1 = n + (j + 1)
      BY <1>1, <3>1
    <3>3. rows[j].to = rows[j + 1].from
      BY <3>1 DEF m
    <3>4. QED
      BY <1>1, <3>1, <3>2, <3>3
  <2>4. QED
    BY <1>1, <2>1, <2>2, <2>3
<1>6. HistoryIsChain'
  <2> SUFFICES ASSUME NEW d \in Claim, NEW k \in 1..(Len(history'[d]) - 1)
               PROVE  history'[d][k].to = history'[d][k + 1].from
    BY DEF HistoryIsChain
  <2>1. CASE d = c
    BY <1>1, <1>5, <2>1
  <2>2. CASE d # c
    BY <1>1, <2>2 DEF ChainInv, HistoryIsChain
  <2>3. QED
    BY <2>1, <2>2
<1>7. QED
  BY <1>4, <1>6 DEF ChainInv

\* The same for one row.
LEMMA ChainGrowsByOne ==
  ASSUME TypeOK, ChainInv, NEW c \in Claim, NEW row \in HistoryRow,
         history' = [history EXCEPT ![c] = Append(history[c], row)],
         row.from = claims[c].status, row.to = claims'[c].status,
         \A d \in Claim \ {c} : claims'[d].status = claims[d].status
  PROVE  ChainInv'
<1> DEFINE rows == <<row>>
<1>1. /\ rows \in Seq(HistoryRow) /\ rows # <<>> /\ Len(rows) = 1
      /\ rows[1] = row
  OBVIOUS
<1>2. Append(history[c], row) = history[c] \o rows
  <2>1. PICK h \in Seq(HistoryRow) : h = history[c]
    BY DEF TypeOK
  <2>2. Append(h, row) = h \o <<row>>
    OBVIOUS
  <2>3. QED
    BY <2>1, <2>2
<1>3. \A k \in 1..(Len(rows) - 1) : rows[k].to = rows[k + 1].from
  BY <1>1
<1> HIDE DEF rows
<1>4. QED
  BY <1>1, <1>2, <1>3, ChainGrows

LEMMA ChainCreate ==
  ASSUME TypeOK, ChainInv, NEW u \in User, NEW c \in Claim, CreateClaim(u, c)
  PROVE  ChainInv'
<1> DEFINE row == [from |-> None, to |-> "draft", by |-> u]
<1>1. row \in HistoryRow /\ row.from = None /\ row.to = "draft"
  BY DEF HistoryRow, Status
<1>2. /\ claims[c].status = None
      /\ history' = [history EXCEPT ![c] = Append(history[c], row)]
  BY DEF CreateClaim
<1>3. /\ claims'[c].status = "draft"
      /\ \A d \in Claim \ {c} : claims'[d].status = claims[d].status
  BY DEF CreateClaim, TypeOK, Row
<1> HIDE DEF row
<1>4. QED
  BY <1>1, <1>2, <1>3, ChainGrowsByOne

LEMMA ChainDecision ==
  ASSUME Typed, SerialInv, ChainInv, NEW s \in Slot, CommitDecision(s)
  PROVE  ChainInv'
<1>1. TypeOK /\ txn[s] \in BusyTxn /\ txn[s].pc = "decide"
  BY BusyType DEF CommitDecision, Typed, TypeOK
<1>2. PICK t \in BusyTxn : t = txn[s]
  BY <1>1
<1>3. /\ t.base.status \in Status /\ t.new.status \in Status
  BY <1>1, <1>2 DEF Typed, SessionsOK, SessionOK
<1>4. PICK c \in Claim : c = t.claim
  BY DEF BusyTxn
<1>5. t.base = claims[c] /\ t.new \in Row /\ claims[c] \in Row /\ t.user \in User
  BY <1>1, <1>2, <1>4 DEF SerialInv, CopyIsCurrent, Copying, BusyTxn, TypeOK
<1>6. Merge(claims[c], t.base, t.new) = t.new
  BY <1>5, MergeCurrent
<1>7. claims' = [claims EXCEPT ![c] = t.new]
  BY <1>2, <1>4, <1>6 DEF CommitDecision
<1> DEFINE row == [from |-> t.base.status, to |-> t.new.status, by |-> t.user]
<1>8. /\ row \in HistoryRow
      /\ row.from = t.base.status /\ row.to = t.new.status
  BY <1>3, <1>5 DEF HistoryRow
<1>9. history' = [history EXCEPT ![c] = Append(history[c], row)]
  BY <1>2, <1>4 DEF CommitDecision
<1> HIDE DEF row
<1>10. /\ claims'[c].status = t.new.status
       /\ \A d \in Claim \ {c} : claims'[d].status = claims[d].status
  BY <1>1, <1>7 DEF TypeOK
<1>11. QED
  BY <1>1, <1>5, <1>8, <1>9, <1>10, ChainGrowsByOne

LEMMA ChainSubmit ==
  ASSUME Typed, SerialInv, ChainInv, NEW s \in Slot, CommitSubmit(s)
  PROVE  ChainInv'
<1>1. TypeOK /\ txn[s] \in BusyTxn /\ txn[s].pc = "assessed"
  BY BusyType DEF CommitSubmit, Typed, TypeOK
<1>2. PICK t \in BusyTxn : t = txn[s]
  BY <1>1
<1>3. PICK c \in Claim : c = t.claim
  BY DEF BusyTxn
<1>4. /\ t.base = claims[c] /\ t.new \in Row /\ claims[c] \in Row /\ t.user \in User
      /\ t.base.status = "draft" /\ t.new.score \in Verdict
      /\ t.new.status = ReviewStatus(t.new.score)
  BY <1>1, <1>2, <1>3
  DEF Typed, SessionsOK, SessionOK, SerialInv, CopyIsCurrent, Copying, BusyTxn, TypeOK
<1>5. t.new.status \in Status
  BY <1>4 DEF ReviewStatus, Status
<1>6. SubmittedRow(claims[c], t).status = t.new.status
  <2>1. Merge(claims[c], t.base, t.new) = t.new
    BY <1>4, MergeCurrent
  <2>2. QED
    BY <1>4, <2>1 DEF SubmittedRow, Row
<1>7. /\ claims'[c].status = t.new.status
      /\ \A d \in Claim \ {c} : claims'[d].status = claims[d].status
  BY <1>1, <1>2, <1>3, <1>6 DEF CommitSubmit, TypeOK
<1> DEFINE Step(x, y) == [from |-> x, to |-> y, by |-> t.user]
           r1 == Step("draft", "submitted")
           r2 == Step("submitted", "ai_processing")
           r3 == Step("ai_processing", t.new.status)
           rows == <<r1, r2, r3>>
<1>8. /\ r1 \in HistoryRow /\ r2 \in HistoryRow /\ r3 \in HistoryRow
      /\ r1.from = "draft" /\ r1.to = r2.from /\ r2.to = r3.from
      /\ r3.to = t.new.status
  BY <1>4, <1>5 DEF HistoryRow, Status
<1>9. history' = [history EXCEPT ![c] = history[c] \o rows]
  BY <1>2, <1>3, <1>4 DEF CommitSubmit
<1> HIDE DEF r1, r2, r3
<1>10. /\ rows \in Seq(HistoryRow) /\ rows # <<>> /\ Len(rows) = 3
       /\ rows[1] = r1 /\ rows[2] = r2 /\ rows[3] = r3
  BY <1>8
<1> HIDE DEF rows
<1>11. \A k \in 1..(Len(rows) - 1) : rows[k].to = rows[k + 1].from
  BY <1>8, <1>10
<1>12. QED
  BY <1>1, <1>4, <1>7, <1>8, <1>9, <1>10, <1>11, ChainGrows

LEMMA ChainStep ==
  Typed /\ SerialInv /\ ChainInv /\ [Next]_vars => ChainInv'
<1> SUFFICES ASSUME Typed, SerialInv, ChainInv, [Next]_vars PROVE ChainInv'
  OBVIOUS
<1>1. CASE UNCHANGED <<claims, history>>
  BY <1>1 DEF ChainInv, Last, HistoryIsChain
<1>2. ASSUME NEW s \in Slot, NEW u \in User, NEW c \in Claim,
             \/ LoadForSubmit(s, u, c)
             \/ \E i \in Image : LoadForUpload(s, u, c, i)
             \/ \E to \in Target, amount \in Amount \union {None}, reason \in BOOLEAN :
                  LoadForDecision(s, u, c, to, amount, reason)
      PROVE  UNCHANGED <<claims, history>>
  BY <1>2 DEF LoadForSubmit, LoadForUpload, LoadForDecision, tables
<1>3. ASSUME NEW s \in Slot,
             \/ CommitUpload(s) \/ RejectSubmit(s) \/ StartAnalysis(s) \/ Assess(s)
             \/ Rollback(s)
      PROVE  UNCHANGED <<claims, history>>
  BY <1>3 DEF CommitUpload, RejectSubmit, StartAnalysis, Assess, Rollback, tables
<1>4. CASE UNCHANGED vars
  BY <1>1, <1>4 DEF vars
<1>5. TypeOK
  BY DEF Typed
<1>6. QED
  BY <1>1, <1>2, <1>3, <1>4, <1>5, ChainCreate, ChainDecision, ChainSubmit
  DEF Next, Progress

\* Served one after the other, each history row of a claim starts from the status
\* the row before it ended in, whoever overrides and for any number of claims
\* (_transition).
THEOREM HistoryJoins == ASSUME OneSession PROVE Spec => []HistoryIsChain
<1>1. Init => ChainInv
  BY DEF Init, ChainInv, Last, HistoryIsChain, NoRow
<1>2. ChainInv => HistoryIsChain
  BY DEF ChainInv
<1>3. QED
  BY <1>1, <1>2, TypedInit, TypedStep, SerialInit, SerialStep, ChainStep, PTL DEF Spec

=============================================================================
