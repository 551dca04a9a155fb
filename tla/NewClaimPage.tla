---------------------------- MODULE NewClaimPage ----------------------------
(***************************************************************************)
(* The form on which a customer files a claim.  Pressing its button makes  *)
(* a draft, uploads the chosen photos one by one and submits the claim,    *)
(* each with a request of its own that may fail, or may time out and still *)
(* be served later.  After an error the form comes back, and pressing it   *)
(* again starts from a new draft.  A request that comes back as            *)
(* unauthorised first waits for a renewal of the tokens, and is then sent  *)
(* once more (the interceptor of client.ts).                               *)
(*                                                                         *)
(* Each request is served in one step, by what it does to the claims of    *)
(* the customer; ClaimService has the steps.  A photo is the picture it    *)
(* shows.  A vehicle is selected, and the files pass the checks the page   *)
(* makes of type and size.                                                 *)
(***************************************************************************)
EXTENDS Naturals, Sequences

CONSTANTS Photo,         \* photos the customer may choose
          Unreadable,    \* those that the server refuses (validate_image_upload)
          MaxAttempts    \* bound: presses of the button in one behaviour

VARIABLES
  form,      \* the page: pc, the chosen files, the draft it has made (0: none
             \* yet) and the files still to be uploaded
  wire,      \* the request the page waits for, with the claim it is about
  answer,    \* its answer: "none" yet, "ok" or "refused"
  renewal,   \* the renewal of the tokens for it: "no", "sent" or "done"
  late,      \* requests the page has given up and the server has not served
  filed,     \* the customer's claims, in the order they were made
  attempts   \* presses of the button so far

formVars == <<form, wire, answer, renewal, late, filed, attempts>>

-----------------------------------------------------------------------------
NoRequest == [op |-> "none"]
CreateDraft ==
  [op |-> "create", claim |-> 0, files |-> form.files, attempt |-> attempts]
SendImage(p) == [op |-> "image", claim |-> form.claim, photo |-> p]
SendSubmit == [op |-> "submit", claim |-> form.claim]

EmptyForm == [pc |-> "form", files |-> {}, claim |-> 0, left |-> {}]

\* A claim, in status draft or in review (fraud_review or surveyor_review);
\* chosen is auxiliary: the files of the form that made it.
Draft(files) == [status |-> "draft", photos |-> {}, chosen |-> files, flagged |-> FALSE]

\* Mutant of PicturesElsewhere: a customer's own photos may repeat.
NotOfThisCustomer(c) == {}

\* What the hash signals compare the photos of claim c with: the images of all
\* other claims, of whatever status (_duplicate_image_signals).
PicturesElsewhere(c) == UNION {filed[d].photos : d \in DOMAIN filed \ {c}}

\* submit, with its pipeline: the claim ends in one of the two reviews, and by
\* SharedPictureFlagged a claim that shares a picture is held as fraud.
Submitted(c) ==
  [filed[c] EXCEPT !.status = "review",
                   !.flagged = filed[c].photos \intersect PicturesElsewhere(c) # {}]

\* Whether the server accepts a request, and what becomes of the claims.
Accepts(r) ==
  CASE r.op = "create" -> TRUE
    [] r.op = "image"  -> /\ filed[r.claim].status = "draft"
                          /\ r.photo \notin Unreadable
    [] OTHER -> filed[r.claim].status = "draft" /\ filed[r.claim].photos # {}

After(r) ==
  CASE r.op = "create" -> Append(filed, Draft(r.files))
    [] r.op = "image"  -> [filed EXCEPT ![r.claim].photos = @ \union {r.photo}]
    [] OTHER -> [filed EXCEPT ![r.claim] = Submitted(r.claim)]

-----------------------------------------------------------------------------
FormInit ==
  /\ form = EmptyForm
  /\ wire = NoRequest
  /\ answer = "none"
  /\ renewal = "no"
  /\ late = {}
  /\ filed = <<>>
  /\ attempts = 0

\* The customer chooses and removes files until the button is pressed; it is
\* disabled while the page works (chooseFiles, removeFile, loading).
Press(files) ==
  /\ form.pc = "form"
  /\ files # {}
  /\ attempts < MaxAttempts
  /\ attempts' = attempts + 1
  /\ form' = [pc |-> "working", files |-> files, claim |-> 0, left |-> files]
  /\ UNCHANGED <<wire, answer, renewal, late, filed>>

\* The next request of onSubmit.
Send ==
  /\ form.pc = "working"
  /\ wire = NoRequest
  /\ wire' \in IF form.claim = 0 THEN {CreateDraft}
               ELSE IF form.left # {} THEN {SendImage(p) : p \in form.left}
               ELSE {SendSubmit}
  /\ UNCHANGED <<form, answer, renewal, late, filed, attempts>>

\* The server serves the request the page waits for, or one it has given up.
ServeForm ==
  /\ wire # NoRequest
  /\ answer = "none"
  /\ renewal # "sent"
  /\ IF Accepts(wire)
     THEN /\ filed' = After(wire)
          /\ answer' = "ok"
          /\ wire' = IF wire.op = "create"
                     THEN [wire EXCEPT !.claim = Len(filed) + 1] ELSE wire
     ELSE /\ answer' = "refused"
          /\ UNCHANGED <<filed, wire>>
  /\ UNCHANGED <<form, renewal, late, attempts>>

ServeLate(r) ==
  /\ r \in late
  /\ late' = late \ {r}
  /\ filed' = IF Accepts(r) THEN After(r) ELSE filed
  /\ UNCHANGED <<form, wire, answer, renewal, attempts>>

\* The access token has expired: the request is not served.  The interceptor
\* renews the tokens, once for a request, if it has a refresh token.
Challenge ==
  /\ wire # NoRequest
  /\ answer = "none"
  /\ renewal # "sent"
  /\ \/ renewal = "no" /\ renewal' = "sent" /\ answer' = answer
     \/ answer' = "refused" /\ renewal' = renewal
  /\ UNCHANGED <<form, wire, late, filed, attempts>>

\* The request is sent again, or the user is logged out and the request fails.
EndRenewal ==
  /\ renewal = "sent"
  /\ renewal' = "done"
  /\ answer' \in {"none", "refused"}
  /\ UNCHANGED <<form, wire, late, filed, attempts>>

Proceed ==
  /\ answer = "ok"
  /\ form' = CASE wire.op = "create" -> [form EXCEPT !.claim = wire.claim]
               [] wire.op = "image"  -> [form EXCEPT !.left = @ \ {wire.photo}]
               [] OTHER -> [form EXCEPT !.pc = "shown"]
  /\ wire' = NoRequest
  /\ answer' = "none"
  /\ renewal' = "no"
  /\ UNCHANGED <<late, filed, attempts>>

\* Mutants of Rejected: a photo that fails is left out; the request is tried
\* again until it succeeds.
SkipPhoto ==
  IF wire.op = "image" THEN [form EXCEPT !.left = @ \ {wire.photo}]
  ELSE [form EXCEPT !.pc = "form", !.claim = 0, !.left = {}]
TryAgain == form

\* catch and finally: a message, and the form as it was filled in.
Rejected == [form EXCEPT !.pc = "form", !.claim = 0, !.left = {}]

Refuse ==
  /\ answer = "refused"
  /\ form' = Rejected
  /\ wire' = NoRequest
  /\ answer' = "none"
  /\ renewal' = "no"
  /\ UNCHANGED <<late, filed, attempts>>

\* The time-out of 30 seconds, a lost connection, or a failure of the server.
\* A request that is not served yet may be served later, or never.  The renewal
\* of the tokens is sent by a client without a time-out.
TimeOut ==
  /\ wire # NoRequest
  /\ answer # "refused"
  /\ renewal # "sent"
  /\ form' = Rejected
  /\ wire' = NoRequest
  /\ answer' = "none"
  /\ renewal' = "no"
  /\ late' = IF answer = "none" THEN late \union {wire} ELSE late
  /\ UNCHANGED <<filed, attempts>>

\* The customer looks at the claim and files another one.
LeaveClaim ==
  /\ form.pc = "shown"
  /\ form' = EmptyForm
  /\ UNCHANGED <<wire, answer, renewal, late, filed, attempts>>

FormNext ==
  \/ \E files \in SUBSET Photo : Press(files)
  \/ Send
  \/ ServeForm
  \/ \E r \in late : ServeLate(r)
  \/ Challenge
  \/ EndRenewal
  \/ Proceed
  \/ Refuse
  \/ TimeOut
  \/ LeaveClaim

\* The page does its part, and every request but a renewal is answered or times
\* out; the server is not assumed to serve anything, or to answer a renewal.
FormFairness ==
  /\ WF_formVars(Send)
  /\ WF_formVars(Proceed \/ Refuse)
  /\ WF_formVars(TimeOut)

FormSpec == FormInit /\ [][FormNext]_formVars /\ FormFairness

-----------------------------------------------------------------------------
\* Properties.

\* A claim that is submitted, also by a request the page had given up, has all
\* the photos of the form that made it and no others, however many attempts
\* overlap (onSubmit).
SubmittedIsWhole ==
  \A c \in DOMAIN filed :
    filed[c].status = "review" => filed[c].photos = filed[c].chosen

\* A form that is pressed again after a submission whose answer was lost does
\* not file the incident twice unseen: of two submitted claims with a photo in
\* common, one at least is held for fraud review.
ResubmissionIsReviewed ==
  \A c, d \in DOMAIN filed :
    /\ c # d
    /\ filed[c].status = "review" /\ filed[d].status = "review"
    /\ filed[c].photos \intersect filed[d].photos # {}
    => filed[c].flagged \/ filed[d].flagged

\* The page never works for ever: it shows the claim, or the form comes back with
\* a message, unless a renewal of the tokens stays without an answer from then on;
\* all else that the page waits for has a time-out (onSubmit, client.ts).
FormComesBack ==
  form.pc = "working" ~> (form.pc # "working" \/ [](renewal = "sent"))

=============================================================================
