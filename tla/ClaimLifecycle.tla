--------------------------- MODULE ClaimLifecycle ---------------------------
(***************************************************************************)
(* What the claim service promises: every request takes effect at once.    *)
(* Images are added only before processing; submitting a draft analyses    *)
(* every image the claim has and sends it to one of the two reviews; staff *)
(* move a claim along the transition table; an administrator, where there  *)
(* is one, may set any status.                                             *)
(***************************************************************************)
EXTENDS ClaimWorkflow

CONSTANTS Claim,            \* claim identifiers
          Image,            \* image identifiers
          Overriding        \* is there a user who may set any status?

VARIABLES status,           \* claim -> its status, None before it is created
          images,           \* claim -> the images uploaded to it
          analysed,         \* claim -> the images its last analysis covered
          verdict           \* claim -> the outcome of its last analysis

vars == <<status, images, analysed, verdict>>

TypeOK ==
  /\ status \in [Claim -> Status \union {None}]
  /\ images \in [Claim -> SUBSET Image]
  /\ analysed \in [Claim -> SUBSET Image]
  /\ verdict \in [Claim -> Verdict \union {None}]

Init ==
  /\ status = [c \in Claim |-> None]
  /\ images = [c \in Claim |-> {}]
  /\ analysed = [c \in Claim |-> {}]
  /\ verdict = [c \in Claim |-> None]

Create(c) ==
  /\ status[c] = None
  /\ status' = [status EXCEPT ![c] = "draft"]
  /\ UNCHANGED <<images, analysed, verdict>>

AddImage(c, i) ==
  /\ status[c] \in Uploadable
  /\ \A d \in Claim : i \notin images[d]
  /\ images' = [images EXCEPT ![c] = @ \union {i}]
  /\ UNCHANGED <<status, analysed, verdict>>

\* Which pictures other claims hold is not visible at this level, so either
\* outcome is possible.
Submit(c, v) ==
  /\ status[c] = "draft"
  /\ images[c] # {}
  /\ status' = [status EXCEPT ![c] = ReviewStatus(v)]
  /\ analysed' = [analysed EXCEPT ![c] = images[c]]
  /\ verdict' = [verdict EXCEPT ![c] = v]
  /\ UNCHANGED images

Move(c, to) ==
  /\ status[c] # None
  /\ Overriding \/ to \in ValidTransitions[status[c]]
  /\ status' = [status EXCEPT ![c] = to]
  /\ UNCHANGED <<images, analysed, verdict>>

Next ==
  \E c \in Claim :
    \/ Create(c)
    \/ \E i \in Image : AddImage(c, i)
    \/ \E v \in Verdict : Submit(c, v)
    \/ \E to \in Status : Move(c, to)

Spec == Init /\ [][Next]_vars

-----------------------------------------------------------------------------
\* While nobody can override a status, the set of images a claim was judged on
\* is the set of images it has: nothing is added behind the analysis
\* (add_image's "Cannot upload images after processing starts").
AnalysisCoversImages ==
  ~Overriding =>
    \A c \in Claim : verdict[c] # None => analysed[c] = images[c]

=============================================================================
