# AutoClaim AI: specifications, model checking and proofs

This directory specifies the parts of AutoClaim AI where concurrent requests, stale
copies and rollbacks decide whether the data stays right: the life of an insurance
claim, and the life of a sign-in session; and around them the engines that judge and price
a claim, the dashboard, and the web client. Everything is translated from the source
under `src/`; line references are to that tree. `PROJECT.json` holds the map from every
definition to the lines it models, the list of hazards, the runs and the theorems.

## 1. The system

AutoClaim AI is a FastAPI application (asyncio, SQLAlchemy 2 over PostgreSQL at READ
COMMITTED, several uvicorn workers) with a React client. It is one process image in
which the services of `docs/architecture/ARCHITECTURE.md` are modules.

| Component | State | Operations | Interacts with | What makes it correct |
|---|---|---|---|---|
| Claim service (`services/claim_service.py`, `api/v1/claims.py`) | tables `claims`, `claim_images`, `claim_status_history`, analysis tables | create, add image, submit (with the AI pipeline), update status, list, get | fraud engine, cost estimator, detector, audit log, file store | the row, the history and the audit log agree; a claim is judged on its images; moves follow `VALID_TRANSITIONS` |
| Fraud engine (`ai/fraud_engine.py`) | none; reads images and claims of others | assess | claim tables | a picture that another claim holds is flagged, also under concurrency; one thing amiss is not enough; repeated claims are noticed |
| Damage detector, severity, cost estimator (`ai/`) | none | pure functions | pipeline | the invoice adds up; what must not depend on the order of photos does not; more photos are cheaper only as a write-off |
| Authentication (`services/auth_service.py`, `core/security.py`, `api/deps.py`) | tables `users`, `refresh_tokens`, `password_resets`, `email_verifications` | register, login, refresh, logout, logout all, reset request and confirm | audit log, every endpoint through `get_current_user` | one live token per session, rotation leaves a consistent chain, revoked stays revoked, a reset link works once |
| User administration (`api/v1/admin.py`) | `users` | create, update (role, active) | authentication | deactivation stops new tokens |
| Audit log (`services/audit.py`) | table `audit_logs` | append, in the caller's transaction | all | a row exactly for what was committed |
| File storage (`utils/files.py`) | the upload directory | store, validate, hash, thumbnail | add image, pipeline | a row never lacks its file; names are fresh |
| Database session (`db/session.py`) | one transaction per request | commit after the endpoint, roll back on any exception | all | all of a request or nothing |
| Analytics, search (`services/analytics_service.py`, `api/v1/search.py`) | none | read-only aggregates, one statement each | claim tables | no claim that keeps to the table is missed; buckets cover each claim once |
| Vehicles and policies, notifications | their tables | insert, list; mark read | claim creation | independent inserts |
| Workers (`workers/`) | none | stubs that log | nothing enqueues them | |
| Web client (`frontend/src`) | the tokens of each tab, their persisted copy, form state | sign-in, refresh interceptor, sign-out, claim form | API | every call ends if the server answers, and the form comes back in any case but one; no tab goes back to a token it knows to be replaced; sign-out clears the tab; a submitted claim is whole |
| Start-up, middleware, schema | configuration, DDL | seed, headers, rate limit | | |

What is hard here. A handler reads a row, decides, and writes long after; every `await` of
the database lets another request in, in the same process or in another worker. No row
has a version and no SELECT locks one, so a second writer waits for the row lock of
the first and then writes what its own old copy says, column by column. A pipeline
holds the row lock for as long as the detector takes. Every exception undoes the
request's writes, those included that were made to record the failure, but not a file
already on disk. Clients retry, give up after 30 seconds except while they renew their tokens,
and work in several tabs.

## 2. Modules

| Module | Role |
|---|---|
| `ClaimWorkflow` | statuses, `VALID_TRANSITIONS`, roles: the words both levels share |
| `ClaimLifecycle` | what the claim service promises; every request atomic |
| `ClaimService` | the claim service as it runs, with interleaved database sessions |
| `MCClaimService` | its instances for TLC |
| `ClaimService_proofs` | types, analyses, duplicates, images and files |
| `ClaimHistory_proofs` | row, history, audit log and the columns of a decision |
| `ClaimRefinement_proofs` | one session at a time implements `ClaimLifecycle`, and what follows of it |
| `SessionStore` | what authentication promises; every request atomic |
| `Sessions` | authentication as it runs |
| `MCSessions` | its instances for TLC |
| `Sessions_proofs` | types, rotation, retirement and number of tokens |
| `SessionRefinement_proofs` | one session at a time implements `SessionStore`, and what follows of it |
| `DamageDetector` | what the detector says of a photo, and the two severity rules; constant-level |
| `CostEstimate` | a claim analysed and priced, photo by photo and damage by damage |
| `FraudScore` | the signals, the score and the level of one claim |
| `RepeatClaims` | the history signal while several submissions run and staff move claims |
| `Dashboard` | the counters, one statement each, while claims move along the table and off it |
| `MonthBuckets` | the six month buckets of the charts against the calendar |
| `Engines_proofs` | estimate, severity and fraud score for any photos and facts |
| `Figures_proofs` | repeated claims, the counters and the month buckets |
| `WebClient` | tabs, tokens and calls; EXTENDS `Sessions`, which serves the calls |
| `NewClaimPage` | the claim form, its requests, and the claims they leave |
| `WebClient_proofs` | the client of both: its tabs, and the claims of its form |
| `MCParts` | instances of `DamageDetector` to `NewClaimPage` for TLC, one of them in each behaviour |

### ClaimService and the code

State: `claims`, `images`, `history`, `analyses`, `audit` are the committed tables (three
analysis tables are one record per committed pipeline run); `files` is the upload
directory; `txn` holds, for each open database session, how far its request got, the
row as it loaded it (`base`) and as it wants it (`new`). `requests` counts accepted
requests and bounds a behaviour.

| Handler | Actions, split where other requests can come in |
|---|---|
| `create_claim` | `CreateClaim` (one INSERT with history and audit row) |
| `add_image` | `LoadForUpload` (check the copy, write the file), `CommitUpload` (row and audit) |
| `submit`, `run_ai_pipeline` | `LoadForSubmit`, then `RejectSubmit` (no image) or `StartAnalysis` (first UPDATE takes the row lock; images are read again), `Assess` (fraud engine reads other claims), `CommitSubmit` (third transition, analyses, audit, commit) |
| `update_status` | `LoadForDecision` (role and transition checked on the copy), `CommitDecision` |
| any exception, lost connection, dead worker | `Rollback` |

`Merge` is SQLAlchemy's UPDATE: of each column only what differs between `base` and `new`
is written. `SubmittedRow` adds the one exception, the score, which the pipeline sets to
None, flushes and sets again. `Holds` and `Locked` are PostgreSQL's row lock.

Abstractions: a score is `clear` or `flagged` (below or from 45, the one distinction the
pipeline makes; a hash match weighs 40 + 30, hence flagged, and the other signals are a
free choice); timestamps and the rejection text are reduced to whether they are set;
`surveyor_notes`, `severity` and the cost columns, which no decision reads, are left
out; hashing and validation of a file are the constant `Digest`; history rows are kept in
commit order. Listing and reading do not change state. Users and their roles, and owners
of vehicles, are constants.

### Sessions and the code

State: `users`, `tokens`, `resets` are the committed tables, `txn` the open requests. A
password is the version number of its hash. A token family, a fresh uuid in the code, is
named by its first token. `since` (the password version a family's sign-in was checked
against) and `refused` are auxiliary.

| Handler | Actions |
|---|---|
| `register_user`, admin `create_user` | `Register` |
| admin `update_user` | `SetActive` |
| `authenticate` | `LoadForLogin`, `CommitLogin`; `RefusePassword`, `AnswerRefused` |
| `refresh_session` | `LoadForRefresh` (the row of the token), `FindOwner` (its user, by a SELECT of its own), `CommitRefresh`; `LoadRevoked` (always rolled back) |
| `logout`, `logout_all` | `Logout`; `StartLogoutAll` (snapshot of the UPDATE), `CommitLogoutAll` |
| `request_password_reset`, `confirm_password_reset` | `RequestReset`; `LoadForReset`, `StartReset` (flush, snapshot), `CommitReset` |
| any exception | `Rollback` |

The lock of a user's row is modelled (`Held`); locks of token rows are not, because two
writers of one token write the same value or, for `replaced_by`, the later one wins.
Expiry is a refusal and changes nothing. Access tokens carry no state. E-mail
verification is written but never read by the code, and is left out.

### The engines and the code

`DamageDetector` starts where OpenCV ends: a photo is what the image analysis measures of
it (the share of edges, the texture, the boxes with brightness, saturation, edges and
shape). From there every branch is the code's: `Localized` (1% to 90% of the frame, the
six best), `PartForRegion`, `ClassifyRegion`, `Damages` with its fall-back, and the two
severity rules, `PhotoSeverity` of the detector and `ClassifySeverity` of the claim. The
two edge counts the code makes of a box are one number; shares are whole per cents.

`CostEstimate` is the pipeline's pricing: `AddPhoto` (`add_image`, also after an
administrator has sent the claim back), `StartEstimate` (the photos read in any order,
because the SELECT at `claim_service.py:227` has no ORDER BY; severity), `PriceDamage`
(one turn of the loop at `cost_estimator.py:55`) and `FinishEstimate`. Money is counted in
units of 5 paise, in which the book and the multipliers are exact. The hours are a sum of
floats in the code, and `round(hours / 6)` at line 127 can tell: the roof, a door and the
windshield, each priced once, with further damage of a mirror come to 15 hours in one order
of summation and to a trifle more in another, 2 or 3 repair days. A bill therefore records
whether its sum is `exact` (every summand a number of halves, which a float adds without error). If it
is, `RoundedSixths` rounds a half to the even number; if not, the sum lies on or either side
of the half, and either number is a possible outcome. Away from the halves the error, far
below the hundredth of an hour by which two different sums differ, plays no part. `latest`
is auxiliary: the total of the latest analysis that read the photos in upload order.

`FraudScore` has one action for each way the evidence of a claim changes: `File` (the
facts of the claim: policy, vehicle, history, place, date), `Upload`, and `OtherUploads`
(another claim gets the same file or one with the same perceptual hash). The signals are
counts by kind, the weights those of `fraud_engine.py`, and `Level` the thresholds. It
refines the free verdict of `ClaimService.Assess`, whose one certainty, that a shared
picture is flagged, is the property `SharedPictureIsReviewed` here.

`RepeatClaims` splits a submission in `LoadDraft` (the check on a copy), `StartSubmit` (the
flush: the row lock is taken whatever the claim has become since), `CountOthers` (the statement
at line 203 sees what is committed) and `FinishSubmit`; `AbortSubmit` is the rollback. Staff
move claims beside it (`Decide`), and any move goes: a rejection or a closing; a draft walked
along the table with `update_status`, which no assessment looks at; an override; the
revival of a claim that was over by a decision made on a stale copy. `unnoticed` is
auxiliary: the claims that have been open ever since an assessment of theirs raised no signal.
Claims that staff open are never assessed and so are not in it, but the next assessment
counts them.

`Dashboard` has one action per statement of `dashboard_stats` up to line 31, each
recording the set of claims it selects instead of its size; `Advance`, a move of a
claim along `VALID_TRANSITIONS` or a submission; and `Stray`, any other move: an
administrator's override, or the UPDATE of a decision on a stale copy (the run
`lost_decision`). `strayed` is auxiliary and names the claims so moved since the dashboard
was opened. `MonthBuckets`
has `datetime`'s calendar as an external function, and the arithmetic of lines 75 to 86,
which lines 89 to 101 repeat for the fraud trend.

### The web client and the code

`WebClient` joins a browser to `Sessions`. `store` is `useAuthStore` in the memory of each
tab, `disk` the copy that `persist` writes, whole, at every change and that a tab reads when
it is loaded. `call` is a call under way: what it is (`api`, `me`, `login`, `signout`),
the access token it went out with, whether it was sent again (`_retry`), the refresh token
it presented, its answer. `told` is auxiliary.

| Code | Actions |
|---|---|
| request interceptor (`client.ts:12-23`), the effect of `App` (`App.tsx:53-59`), sign-in form, `signOut` | `Call` |
| the server | `StartServing`, `GoOnServing`, `FinishServing` (the actions of `Sessions`), `ServeSimple` (`get_current_user`), `ServerFails` |
| response interceptor (`client.ts:25-47`) | `Renew`, `Renewed`, `Fail` |
| what the caller does with the answer | `Succeed`, `SignIn`; `SignsOutOnError` for those that clear the tab on an error |
| lost answer, time-out, error other than 401 | `LoseAnswer`: to the caller they are the same |
| page load | `Reload` |

An access token is named by the refresh token it was issued with, and expires when it is
about to be looked at, which is the only time it matters. Calls take the first free slot,
and tokens are issued in order, since their names mean nothing. With one user, an answer
of `/auth/me` cannot be about somebody else; that case is not modelled.

`NewClaimPage` is `onSubmit`: `Press` (the checks before line 75), `Send` (the next of the
requests of lines 79 to 94), `ServeForm`, `Proceed`, `Refuse` and `TimeOut` (the `catch`
and `finally`), `LeaveClaim`. A request that was given up stays in `late` and may be served
at any later time (`ServeLate`). A request may come back as unauthorised (`Challenge`); the
page then waits for the renewal at `client.ts:34`, and `EndRenewal` is its answer: the
request is sent once more, or refused. That renewal is a bare `axios.post` without a
time-out, so `TimeOut` is disabled while it is under way. What a request does to the claims is one step; that this
is sound for claims of one customer, and that a shared picture is flagged, is what
`ClaimService` shows (`SharedPictureFlagged`). Files are uploaded in any order instead of
the order of the list.

## 3. Runs

| Run | Instance | Shows |
|---|---|---|
| `race` | customer and surveyor, one claim, two images, two sessions, 8 requests, all statuses | types; `SubmittedMeansAnalysed`, `HistoryMatchesAudit`, `HistoryIsLegal`, `StatusIsLastHistoryRow`; `DecisionsKeepTheirColumns`: no stale copy takes back the amount, reason, surveyor or closing time another decision recorded; `RequestsFinish` |
| `shared` | customer and super administrator, two claims with one picture, two sessions, 7 requests; claims go back to draft and are submitted again | `AnalysisInv`, `AnalysesGrow`, `ScoreIsLastVerdict`, `SharedPictureFlagged`, `ImagesAreStored` |
| `serial` | one session, 9 requests | `ImplementsLifecycle`, `AnalysisCoversImages`, `HistoryIsChain` |
| `sessions_race` | one user, four tokens, one reset link, two sessions, 9 requests | `SessionTypeOK`, `RotationInv`, `LiveTokensAreAccounted`, `TokensOnlyRetire` |
| `sessions_serial` | two users, three tokens, two links, one session, 7 requests | `ImplementsSessionStore`, `SessionsAreCurrent`, `ResetIsSingleUse` |
| `parts` | see below | 18 properties of the parts beside the two services |

The run `parts` chooses one part in its initial state and runs it alone; the parts share no
variable, so their state spaces add up, and no property of one is weakened by the others
standing still.

| Part | Instance | Shows |
|---|---|---|
| `CostEstimate` | up to three of seven photos, in every order of reading, analysed after each | `InvoiceAddsUp`: the line items sum to the totals. `LabourIgnoresOrder`: labour does not depend on the order of reading, and repair days only where the hours come to a half (parts and painting do). `ClaimSeverityCoversPhotos`: a claim is not classified below its worst photo, except for what only the detector looks at. `DropsOnlyToWriteOff`: an added photo makes no claim cheaper unless it is written off at no less than the flat sum |
| `FraudScore` | eight photos (two ordinary, five without EXIF data, one with everything amiss), five on a claim, six sets of facts | `SharedPictureIsReviewed`, `OneSignalIsNotEnough`, `StrippedPhotosAreNoFraud` |
| `RepeatClaims` | four claims on one vehicle, two sessions, staff decisions of any kind | `RepeatTypeOK`, `FewGoUnnoticed` |
| `Dashboard` | two claims, four moves, along the table or off it | `NoClaimIsMissed` |
| `MonthBuckets` | twice a day from March of the year after a leap year to the end of the fifth year from there, with a leap year on the way | `BucketsJoin`, `ShownInItsMonth`, outside of March to May |
| `WebClient` | one user, two tabs, two calls, four tokens, one page load | `ReplacedTokensAreDropped`, `SignOutClears`, `CallsEnd` |
| `NewClaimPage` | three photos, one of them unreadable, two presses | `SubmittedIsWhole`, `ResubmissionIsReviewed`, `FormComesBack` |

Six more runs each show one statement of the repository that the code does not keep:

| Run | Statement | What happens |
|---|---|---|
| `late_image` | `claim_service.py:158` "Cannot upload images after processing starts" | an upload admitted to a draft commits after a submission has processed the claim; no analysis covers the image |
| `lost_decision` | `COMPLETE_WORKFLOW.txt:97` "Valid transitions" | two staff members decide on copies of one status; the later UPDATE overwrites the earlier: approved to rejected |
| `no_image` | `COMPLETE_WORKFLOW.txt:221` "at least one image required" | staff move a draft without images to submitted with `update_status` |
| `reset_twice` | `SECURITY.md:18` "Password reset single-use tokens" | two confirmations load one link as unused and both commit |
| `lost_count` | `COMPLETE_WORKFLOW.txt:121` "failed-login counter increases" | the count is made in the transaction that the refusal rolls back |
| `months` | `analytics_service.py:72` "Monthly last 6 months" | thirty days before the first of March is in January: from March to May the charts skip a month and show another twice |

The hazards behind the first two and the fourth are exactly what separates the race from
the serial runs: `AnalysisCoversImages`, `HistoryIsChain`, `SessionsAreCurrent` and
`ResetIsSingleUse` hold when requests are served in turn and are not claimed otherwise.

Bounds. All the interference there is on a row is between two requests, one that loads and
one that commits in between, so two sessions reach it; `MaxRequests` leaves room for a
claim to be created, given an image, submitted, sent back, submitted again and decided
while another session works on it. Two claims are needed for a shared picture, two
images for an analysis that could miss one; four tokens for a sign-in and two refreshes of
one token with a further sign-in. `Target` restricts the statuses staff ask for in `shared`. Symmetry is used
in runs without liveness and without a CHOOSE. In `parts`, two presses of the form are what
a repeated claim needs; two calls in two tabs are what two renewals of one token need; a
part that was already counted needs a second damage of it, and the order two photos; one
of the pairs of photos comes to 15 hours with further damage; the
settlement of a write-off (250000) is above every critical estimate that three photos can
reach, so that in the run no estimate drops at all, which takes about seven photos of
dozens of damages: that case is covered by the theorem `CheaperOnlyWrittenOff`, which has no
bound. Four moves are enough for a claim to be submitted, approved while the pending ones are
counted, and moved back before the approved ones are;
two sessions and four claims are one claim more than may go unnoticed. `CHECK_DEADLOCK FALSE` is there because
users may stop sending requests, and `MaxRequests` makes them. Whether accepted requests
come to an end is what `RequestsFinish` asks.

Fairness. `FairSpec` is strong fairness of `Progress(s)` for every session: the event loop
resumes a handler whose statement has finished, and PostgreSQL queues those who wait for
a row lock, so a session whose next step is possible again and again takes it. Nothing
is assumed about the arrival of requests or about rollbacks.

`WebFairness` is weak fairness, per call, of the server serving what it has received
(`Serve1`: asyncio and PostgreSQL as above) and of the client handling an answer that has
arrived (`Receive`: the browser's event loop). Users need not call, sign in or reload, tokens
need not expire, answers may get lost. `CallsEnd` is then about the interceptor: that the
second 401 of a call is passed on; it says nothing of a server that never answers.
`FormFairness` is weak fairness of the page's own steps and of the time-out of 30 seconds
(`client.ts:8`), which all requests of the form have but the renewal of the tokens
(`client.ts:34`). The server is not assumed to serve anything, nor to answer a renewal, and
so `FormComesBack` has that exception: the form comes back because of the time-out, unless a
renewal is never answered.

## 4. Proofs

The theorems hold for all values of the constants under the assumptions each module names:

- `ConstantsAssumption`, `SessionConstants`: roles and owners are total, `None` is no value
  of a table, `Target` consists of statuses;
- `RepeatConstants`: the sets of claims and of sessions are finite;
- `DetectorReports`: the detector has a list of damages for each photo, with shares of the
  frame in whole per cents (it could be proved but for `SortSeq`, whose definition in the
  module TLC is out of the prover's sight);
- `FraudConstants`: there are finitely many photos, no two have the same SHA-256, and no
  SHA-256 is a perceptual hash (the two columns are never compared with each other);
- `WebConstants`: the model values of the client (`Nil`, the kinds of a call and their
  answers) are distinct, and there is a user and a token;
- `MonthConstants`: a day has at least one tick and the calendar starts no later than six
  months before the first reading, so that a bucket has a month to lie in.

`OneSession` is no assumption of a module but a hypothesis of the theorems on serial
service: `Slot` has at most one element. It is met by the runs `serial` and
`sessions_serial`; `NobodyOverrides` (no user is an administrator) likewise. The bound
`MaxEvidence <= 5` of `StrippedPhotosPass` is the form's `MAX_FILES`: with six photos the
statement is false.

The claim service.

- `TypeCorrect`: `Typed` (types, and `SessionsOK`, an auxiliary of the proof: what the handler
  established of its own copy) is inductive.
- `AnalysesNeverShrink`, `DuplicatesAreFlagged`: neither is inductive. `AnalysisInv` adds
  that the row lock is exclusive, that a session past the lock holds all images analysed
  before (`HeldAnalysesCover`), and that the duplicate rule already holds of verdicts not
  committed (`JudgementsFlagged`): of two sessions the later to assess sees the other's
  committed images, since images are committed before their claim can be submitted.
  `AnalysisIsGuarded` is that it is inductive together with `Typed`.
- `ScoreIsNewest`, `SubmissionsAreAnalysed`, `AuditIsComplete`, `HistoryStaysLegal`,
  `HistoryNamesStatus`: `RecordInv` needs in addition `CopiesAreOlder`, that a copy with a
  submission mark is of a claim that has one, so that no stale writer takes it back.
- `DecisionsOwnTheirColumns`: a session in wait differs from the row it loaded in no column of
  another decision than its own (`SessionsOwn`), so the UPDATE leaves the others as they
  are stored (`MergeKeeps`), however old the copy is.
- `FilesComeFirst`: an upload in progress has its file and shares it with nobody
  (`UploadsAreFresh`).
- `ServedInTurn`: with one session the service implements `ClaimLifecycle`. The invariant
  `SerialInv` says that the session's copy is the committed row and that the images it
  analyses are those of the claim; then `Merge` yields the row the handler wanted, and
  every commit is one step of the lifecycle.
- `AnalysisSeesAllImages`, `UploadsPrecedeProcessing`, `StatusMovesAlongTable`: proved of
  the lifecycle's steps, one by one (`LifecycleSteps`), which by the refinement are those of
  the service. The last two are the statements the runs `late_image` and `lost_decision`
  refute of overlapping requests: the theorems show that overlap is all there is to it.
- `HistoryJoins`: `ChainInv` adds that the newest row ends at the status of the claim;
  three kinds of commit append rows (`ChainCreate`, `ChainDecision`, `ChainSubmit`).

Sessions.

- `SessionTypeCorrect`, `RotationIsConsistent`, `TokensRetire`: `TokenSteps` splits the
  steps into a sign-in, a refresh, and those that insert no token; the row a waiting
  refresh presented is still there (`PresentedIsStored`), because nothing deletes or
  moves a row.
- `LiveTokensAreBounded`: needs no stronger invariant than `RotationInv`, but a count. A
  token of a family is its first, or displaced, or the `next` of one that is revoked; to
  each live one of the last kind belongs one revoked token, and the first token is either
  live or revoked. Cardinalities come from the library's finite-set theorems.
- `SessionsServedInTurn`: with one session `Sessions` implements `SessionStore`: what the
  handler read is still so when it commits (`CopyIsCurrent`), the snapshot of an UPDATE
  is the table (`SerialInv`).
- `ResetEndsSessions`, `LinksAreUsedOnce`: of every commit of the serial service. The second
  is the statement `reset_twice` refutes of overlapping requests.

The engines, the dashboard and the form.

- `FewUnnoticed`: the bound counts claims; a session that has seen no repeat will add one.
  `RepeatInv` bounds the sum of both (`SilentInv`): a session sees no repeat only while at most
  one other claim is open, and the claims a session holds locked are counted with the session.
  What staff do takes claims out of `unnoticed` and never adds one.
- `NoneMissed`: the invariant names, for each statement, the statuses a claim that no
  earlier statement has counted can be in (`Ahead`); the statements run in the direction of
  `VALID_TRANSITIONS`, so no transition leads out of them, and a claim moved off the table is
  in `strayed`.
- `InvoicesAddUp`: one turn of the loop adds to a line what it adds to the total, and nothing
  else changes either; no induction over the damages is needed.
- `LabourNeedsNoOrder`: the loop invariant `LoopInv` says that after k damages the labour
  and the hours are the sum, over the parts seen so far, of a share that depends only on how
  often the part occurred (`LabourShares`, `HourShares`). `SharesStep` is one turn: the share
  of one part changes by what the loop adds, also through the integer division of 40% of
  the labour, which is exact in this price book. The sum is exact just when every part
  occurred once and has a number of half hours.
- `CheaperOnlyWrittenOff`: two analyses in upload order read lists of damages of which one
  begins with the other, and the severity of the longer is no lower. Two runs of the loop
  (`IsRun`) over the shorter list, with a lower and a higher multiplier, are compared damage by
  damage up to a least counterexample, and the longer list only adds to a bill.
- `SeverityCoversPhotos`: `ClaimTakesIn` says that in any order of reading the claim has the
  damages of each of its photos and at least its area (`RowsRead`, over `Flattened`, which
  says that concatenated lists keep every element); `SeverityIsMonotone` compares the rules.
- `OneSignalNeverSuffices`, `SharedPicturesAreReviewed`, `StrippedPhotosPass`: every group of
  signals is a function from kinds to numbers, so that its weight is at most 40 for each
  signal (`GroupBound`) and at least that of any two of its kinds (`GroupOfTwo`).
  A shared picture needs the invariant `HashesTogether`: whoever holds the file also holds
  its perceptual hash. The third needs the number of images to stay within the form's.
- The sums under all of these (`SumType`, `SumSplit`, `SumCongruence`, `SumBound`, `SumUpdate`)
  are those of the community modules, recursive functions over subsets. `SumExists` shows
  that the function exists at all, and the rest follows for the smallest subset on which it
  fails (`LeastSubset`).
- `BucketsAlwaysJoin`, `ShownWhereMade`: the runs read the dashboard twice a day in five
  years; the theorems are for every instant of any number of years and any resolution.
  `MonthLengths` bounds the months, `BucketMonth` says that going back thirty days i times
  leads to the first of the month i months ago, except where February comes between.
  `MarchAlwaysSkips` is the converse: in March the charts always skip February.
- `SubmissionsAreWhole`, `ResubmissionsAreReviewed`: `FormInv` says of every request, the
  late ones included, that it still finds what it was sent for (`Sound`), and of the page
  that the files it need not send any more are on the claim. Claims only grow (`Grows`),
  and a claim in review keeps its photos.

The web client.

- `ClientsAreServed`: every step of a browser with the server is a step of `Sessions` or
  leaves it alone, so `WebSessionsAreConsistent` has its invariants under any client.
- `ReplacedAreDropped`, `ReplacedAreRevoked`: `ClientInv` is needed because a replaced token
  could come back with a late answer, from the copy on disk, or by being issued again.
  Tokens are issued in order, so an answer under way holds a token that nobody has heard
  of (`AnswersAreNew`); what a client mentions was issued (`MentionedAreIssued`); a call
  that waits and the session that serves it agree on what was presented
  (`SlotsCorrespond`), and a true answer is recorded in the table (`AnswersAreTrue`).
- `SignOutsClear`: an action property; of the four ways a call can end each clears the tab
  of a sign-out.

How to read the modules. A step lemma has one step per action and one level below one per
conjunct the action can disturb. Where an argument takes the least counterexample (a
least token, a subset, an instant without a month) it uses `WFMin` of the library on the naturals:
the induction theorems proper take an operator as a parameter, which the provers at hand
cannot instantiate.

Only model-checked:

- the liveness properties `RequestsFinish`, `CallsEnd` and `FormComesBack`: fairness and
  ENABLED are out of the provers' reach;
- what the refuting runs refute.

## 5. Plan

Done: the two services, the engines, the dashboard and the client around them, and the
theorems above. What is left:

- an atomic specification of a customer's submissions that `RepeatClaims` implements with
  one session, like `ClaimLifecycle` and `SessionStore` for the services;
- that a step of the claim form against `ClaimService` is one of `NewClaimPage`, which so
  far rests on the theorems of both sides and not on a refinement.

## 6. Not modelled

- Image analysis (OpenCV, hashing, EXIF parsing, thumbnails) and the validation of an
  upload: functions of bytes; the models start from what they return.
- Vehicles, policies, notifications, search, the listing endpoints: single independent
  statements without a decision on a stale copy.
- The remaining figures of the dashboard: further single statements like the four modelled.
- The Celery workers: stubs that nothing enqueues.
- Start-up, middleware, configuration, DDL and seed data: run once, or stateless. Two workers
  that start on an empty development database may collide in `seed_dev_users`; the one that
  fails is started again.
- The permission table per endpoint beyond what claim handlers check; access-token claims.
- The other pages of the client, which render what the API returns.
