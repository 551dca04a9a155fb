----------------------------- MODULE FraudScore -----------------------------
(***************************************************************************)
(* The score of one claim: the signals the fraud engine raises of its      *)
(* photos, of the pictures other claims hold, and of its history, vehicle, *)
(* policy and place, their weights, and the level.  Photos are uploaded    *)
(* one by one; a picture may turn up on another claim at any time.  Of a   *)
(* hash only matters which hashes are equal, of EXIF data whether there    *)
(* are any and what the engine finds amiss in them.                        *)
(***************************************************************************)
EXTENDS Integers, FiniteSets, FiniteSetsExt, Functions

CONSTANTS Evidence,      \* the photos a customer may upload
          Circumstance,  \* sets of facts about a claim that may hold together
          Copied,        \* the photos other claims may come to hold
          MaxEvidence    \* bound: photos of the claim

\* A photo is its file: no two have the same SHA-256, which is compared with
\* perceptual hashes nowhere (the columns sha256 and phash of an image).
ASSUME FraudConstants ==
  /\ IsFiniteSet(Evidence) /\ Copied \subseteq Evidence /\ MaxEvidence \in Nat
  /\ \A e, d \in Evidence : e.sha # d.phash /\ (e.sha = d.sha => e = d)

VARIABLES
  evidence,    \* how often each photo is among the images of the claim
  facts,       \* what is amiss of the claim, apart from its photos
  elsewhere    \* hashes of the images of other claims

fraudVars == <<evidence, facts, elsewhere>>

-----------------------------------------------------------------------------
\* Weights, by kind; kinds of one signal_type that weigh differently are told
\* apart.

\* Mutant of StrippedWeight: missing EXIF data weigh as much as a missing angle.
StrippedAsAngle == 10

StrippedWeight == 8

Weight ==
  [duplicate_image |-> 25, hash_match |-> 40, similar_image |-> 30,
   stripped_exif |-> StrippedWeight, editor |-> 20, redated |-> 12, old_photo |-> 18,
   many_claims |-> 15, same_vehicle |-> 22,
   no_vehicle |-> 20, other_vehicle |-> 35, inactive_policy |-> 25,
   out_of_cover |-> 40, odd_vin |-> 10,
   null_island |-> 12, compressed |-> 6, large_png |-> 5, one_angle |-> 10]

VehicleFacts == {"no_vehicle", "other_vehicle", "inactive_policy", "out_of_cover", "odd_vin"}
DateFacts == {"out_of_cover"}
HistoryFacts == {"many_claims", "same_vehicle"}

\* Facts about a claim: those that raise a signal, and a missing date.
Fact == VehicleFacts \union HistoryFacts \union {"null_island", "undated"}

-----------------------------------------------------------------------------
\* Signals, as the number raised of each kind.

Uploaded == {e \in Evidence : evidence[e] > 0}
HowMany(Test(_)) == SumFunctionOnSet(evidence, {e \in Uploaded : Test(e)})
Images == HowMany(LAMBDA e : TRUE)
OneIf(b) == IF b THEN 1 ELSE 0

\* _duplicate_image_signals.  The perceptual hash is looked up whether or not
\* the exact one was found; it is never empty (perceptual_hash).
Repeated == Images - Cardinality(Uploaded)

\* Mutant of DuplicateSignals: a picture known by its hash is not compared again.
DuplicateOrSimilar ==
  [duplicate_image |-> Repeated,
   hash_match      |-> HowMany(LAMBDA e : e.sha \in elsewhere),
   similar_image   |-> HowMany(LAMBDA e : /\ e.phash \in elsewhere
                                          /\ e.sha \notin elsewhere)]

DuplicateSignals ==
  [duplicate_image |-> Repeated,
   hash_match      |-> HowMany(LAMBDA e : e.sha \in elsewhere),
   similar_image   |-> HowMany(LAMBDA e : e.phash \in elsewhere)]

\* _exif_signals, _metadata_consistency: without EXIF data neither the editor
\* nor the dates are looked at; without a date of the incident no photo is old.
ExifSignals ==
  [stripped_exif |-> HowMany(LAMBDA e : e.exif = {}),
   editor        |-> HowMany(LAMBDA e : "editor" \in e.exif),
   redated       |-> HowMany(LAMBDA e : "redated" \in e.exif),
   old_photo     |-> IF "undated" \in facts THEN 0
                     ELSE HowMany(LAMBDA e : "old" \in e.exif)]

\* _image_edit_signals, _multi_angle_signals.
EditSignals ==
  [compressed |-> HowMany(LAMBDA e : e.compressed),
   large_png  |-> HowMany(LAMBDA e : e.large)]
AngleSignals == [one_angle |-> OneIf(Images < 2)]

\* _vin_policy_signals: without a vehicle the policy is not looked at.
VinPolicySignals ==
  [k \in VehicleFacts |->
     OneIf(/\ k \in facts
           /\ k # "no_vehicle" => "no_vehicle" \notin facts
           /\ k \in DateFacts => "undated" \notin facts)]

\* _repeat_claim_signals, _gps_timestamp_signals.
HistorySignals == [k \in HistoryFacts |-> OneIf(k \in facts)]
PlaceSignals == [null_island |-> OneIf("null_island" \in facts)]

\* The signals of a group, counted and weighed.
Count(group) == SumFunction(group)
Weigh(group) == SumFunction([k \in DOMAIN group |-> Weight[k] * group[k]])

Raised ==
  Count(DuplicateSignals) + Count(ExifSignals) + Count(HistorySignals)
  + Count(VinPolicySignals) + Count(PlaceSignals) + Count(EditSignals)
  + Count(AngleSignals)
Sum ==
  Weigh(DuplicateSignals) + Weigh(ExifSignals) + Weigh(HistorySignals)
  + Weigh(VinPolicySignals) + Weigh(PlaceSignals) + Weigh(EditSignals)
  + Weigh(AngleSignals)

RiskScore == Min({100, Sum})

\* Mutant of Level: a documented threshold is rounded down.
LevelFrom40(score) ==
  IF score >= 70 THEN "critical"
  ELSE IF score >= 40 THEN "high"
  ELSE IF score >= 20 THEN "medium" ELSE "low"

Level(score) ==
  IF score >= 70 THEN "critical"
  ELSE IF score >= 45 THEN "high"
  ELSE IF score >= 20 THEN "medium" ELSE "low"

\* Whether the pipeline sends the claim to fraud_review.
Reviewed == Level(RiskScore) \in {"high", "critical"}

-----------------------------------------------------------------------------
FraudInit ==
  /\ evidence = [e \in Evidence |-> 0]
  /\ facts = {}
  /\ elsewhere = {}

File(f) ==
  /\ Uploaded = {}
  /\ facts = {}
  /\ f # {}
  /\ facts' = f
  /\ UNCHANGED <<evidence, elsewhere>>

Upload(e) ==
  /\ Images < MaxEvidence
  /\ evidence' = [evidence EXCEPT ![e] = @ + 1]
  /\ UNCHANGED <<facts, elsewhere>>

\* Another claim gets a picture: the same file, or one that looks the same.
OtherUploads(e) ==
  /\ \/ elsewhere' = elsewhere \union {e.sha, e.phash}
     \/ elsewhere' = elsewhere \union {e.phash}
  /\ elsewhere' # elsewhere
  /\ UNCHANGED <<evidence, facts>>

FraudNext ==
  \/ \E f \in Circumstance : File(f)
  \/ \E e \in Evidence : Upload(e)
  \/ \E e \in Copied : OtherUploads(e)

FraudSpec == FraudInit /\ [][FraudNext]_fraudVars

-----------------------------------------------------------------------------
\* Properties.

\* A claim with a picture that another claim holds goes to fraud review, with
\* whatever else and with any number of photos: the two hash signals together
\* reach the level that none of them reaches alone (_duplicate_image_signals,
\* _level).  ClaimService builds on it.
SharedPictureIsReviewed ==
  (\E e \in Uploaded : e.sha \in elsewhere) => Reviewed

\* No single signal sends a claim to fraud review: an honest claim with one
\* thing amiss is a surveyor's matter.
OneSignalIsNotEnough == Uploaded # {} /\ Reviewed => Raised >= 2

\* Photos whose only fault is that a messenger removed their EXIF data do not
\* send a claim to fraud review, up to the five photos of the claim form
\* (MAX_FILES), although each of them adds to the score.
OnlyStripped(e) == e.exif = {} /\ ~e.compressed /\ ~e.large
StrippedPhotosAreNoFraud ==
  /\ facts = {} /\ elsewhere = {} /\ Uploaded # {}
  /\ \A e \in Uploaded : OnlyStripped(e)
  /\ Repeated = 0
  => ~Reviewed

=============================================================================
