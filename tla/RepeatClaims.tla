---------------------------- MODULE RepeatClaims ----------------------------
(***************************************************************************)
(* The history signals of one customer's claims.  The fraud engine counts  *)
(* the customer's other claims as it sees them in the database, while      *)
(* other submissions, whose status changes are not committed yet, run in   *)
(* other sessions, and staff move claims, with and without an assessment   *)
(* and also back.  Of a status only its part in the count is kept: draft,  *)
(* open (submitted to paid) or over (rejected, closed).                    *)
(***************************************************************************)
EXTENDS Naturals, FiniteSets

CONSTANTS Case,      \* claims of one customer on one vehicle
          Worker     \* database sessions in which submissions may run at a time

ASSUME RepeatConstants == IsFiniteSet(Case) /\ IsFiniteSet(Worker)

VARIABLES
  standing,   \* claim -> its committed status
  session,    \* worker -> the submission it runs
  unnoticed   \* auxiliary: the claims that have been open ever since a submission
              \* whose assessment did not raise the signal of a repeated vehicle

repeatVars == <<standing, session, unnoticed>>

Standing == {"draft", "open", "over"}
Idle == [pc |-> "idle"]
Running == [pc : {"loaded", "analysing"}, case : Case]
             \union [pc : {"assessed"}, case : Case, signal : BOOLEAN]

RepeatInit ==
  /\ standing = [c \in Case |-> "draft"]
  /\ session = [w \in Worker |-> Idle]
  /\ unnoticed = {}

\* The claims whose row a submission has locked: its first UPDATE is flushed.
InAnalysis ==
  {c \in Case :
     \E w \in Worker : session[w].pc \in {"analysing", "assessed"} /\ session[w].case = c}

\* The claims _repeat_claim_signals selects.
Others(c) == {d \in Case \ {c} : standing[d] = "open"}

\* Mutant of Repeats: one claim too many is let through.
RepeatsLate(c) == Cardinality(Others(c)) > 2

Repeats(c) == Cardinality(Others(c)) >= 2

-----------------------------------------------------------------------------
\* submit checks the copy it has loaded.
LoadDraft(w, c) ==
  /\ session[w] = Idle
  /\ standing[c] = "draft"
  /\ session' = [session EXCEPT ![w] = [pc |-> "loaded", case |-> c]]
  /\ UNCHANGED <<standing, unnoticed>>

\* The flush waits for the row, and changes it whatever it has become meanwhile.
StartSubmit(w) ==
  /\ session[w].pc = "loaded"
  /\ session[w].case \notin InAnalysis
  /\ session' = [session EXCEPT ![w].pc = "analysing"]
  /\ UNCHANGED <<standing, unnoticed>>

CountOthers(w) ==
  /\ session[w].pc = "analysing"
  /\ LET c == session[w].case IN
       session' = [session EXCEPT ![w] =
                     [pc |-> "assessed", case |-> c, signal |-> Repeats(c)]]
  /\ UNCHANGED <<standing, unnoticed>>

FinishSubmit(w) ==
  /\ session[w].pc = "assessed"
  /\ LET c == session[w].case IN
       /\ standing' = [standing EXCEPT ![c] = "open"]
       /\ unnoticed' = IF session[w].signal THEN unnoticed \ {c} ELSE unnoticed \union {c}
  /\ session' = [session EXCEPT ![w] = Idle]

\* Mutant of AbortSubmit: the session of an aborted submission keeps its claim.
AbortKeepsCase(w) ==
  /\ session[w].pc # "idle"
  /\ session' = [session EXCEPT ![w].pc = "idle"]
  /\ UNCHANGED <<standing, unnoticed>>

AbortSubmit(w) ==
  /\ session[w].pc # "idle"
  /\ session' = [session EXCEPT ![w] = Idle]
  /\ UNCHANGED <<standing, unnoticed>>

\* Staff decide: to reject or close a claim, to open a draft without submitting
\* it, and, by an administrator's override or by a decision on a stale copy that
\* overwrites another, to open a claim that was over or make it a draft again.
\* The UPDATE waits for the row.
Decide(c, to) ==
  /\ to # standing[c]
  /\ c \notin InAnalysis
  /\ standing' = [standing EXCEPT ![c] = to]
  /\ unnoticed' = unnoticed \ {c}
  /\ UNCHANGED session

RepeatNext ==
  \/ \E w \in Worker :
       \/ \E c \in Case : LoadDraft(w, c)
       \/ StartSubmit(w)
       \/ CountOthers(w)
       \/ FinishSubmit(w)
       \/ AbortSubmit(w)
  \/ \E c \in Case, to \in Standing : Decide(c, to)

RepeatSpec == RepeatInit /\ [][RepeatNext]_repeatVars

-----------------------------------------------------------------------------
\* Types.  A session between submissions holds no claim (get_db closes it).
RepeatTypeOK ==
  /\ standing \in [Case -> Standing]
  /\ session \in [Worker -> Running \union {Idle}]
  /\ unnoticed \in SUBSET Case

\* Submissions that run at the same time do not see each other, so more than
\* two claims on one vehicle may get past the signal; but each further one needs
\* a further session, however many claims the customer makes and whatever staff
\* do with them meanwhile.  Claims that staff open without an assessment, or bring
\* back when they were over, are not among those let past, but they count for the
\* next (_repeat_claim_signals).
FewGoUnnoticed == Cardinality(unnoticed) <= 1 + Cardinality(Worker)

=============================================================================
