--------------------------- MODULE Figures_proofs ---------------------------
(***************************************************************************)
(* What the engines and the dashboard count: the claims that go unnoticed  *)
(* by the signal of a repeated vehicle, the claims in the counters of the  *)
(* dashboard, and the months of the charts.                                *)
(***************************************************************************)
EXTENDS RepeatClaims, Dashboard, MonthBuckets, FiniteSetTheorems,
        WellFoundedInduction, TLAPS

LOCAL INSTANCE ClaimWorkflow

-----------------------------------------------------------------------------
\* Repeated claims.  The bound on those that go unnoticed is not inductive by
\* itself: a session that has counted the other claims will leave one more
\* claim unnoticed when it commits, so those sessions count too, in place of the
\* claims they hold.  What makes the sum inductive is that a session finds no
\* repeat only while at most one other claim is open, unnoticed or not.

\* Sessions that are going to commit a claim without the signal, their claims,
\* and the unnoticed claims that are in none of them.
Silent == {w \in Worker : session[w].pc = "assessed" /\ ~session[w].signal}
SilentCases == {session[w].case : w \in Silent}
UnnoticedElsewhere == unnoticed \ SilentCases

UnnoticedAreOpen == \A c \in unnoticed : standing[c] = "open"

SilentInv == Cardinality(UnnoticedElsewhere) + Cardinality(Silent) <= 1 + Cardinality(Worker)

RepeatInv == RepeatTypeOK /\ UnnoticedAreOpen /\ SilentInv

-----------------------------------------------------------------------------
LEMMA SetsAreFinite ==
  ASSUME RepeatTypeOK
  PROVE  /\ IsFiniteSet(unnoticed) /\ Cardinality(unnoticed) \in Nat
         /\ IsFiniteSet(UnnoticedElsewhere) /\ Cardinality(UnnoticedElsewhere) \in Nat
         /\ IsFiniteSet(Silent) /\ Cardinality(Silent) \in Nat
         /\ Cardinality(Silent) <= Cardinality(Worker)
         /\ Cardinality(Worker) \in Nat
<1>1. unnoticed \in SUBSET Case /\ UnnoticedElsewhere \in SUBSET Case /\ Silent \in SUBSET Worker
  BY DEF UnnoticedElsewhere, Silent, RepeatTypeOK
<1>2. IsFiniteSet(unnoticed) /\ IsFiniteSet(UnnoticedElsewhere) /\ IsFiniteSet(Silent)
  BY <1>1, RepeatConstants, FS_Subset
<1> QED BY <1>1, <1>2, RepeatConstants, FS_Subset, FS_CardinalityType

\* A step that makes neither set larger.
LEMMA NoneAdded ==
  ASSUME RepeatInv, UnnoticedElsewhere' \subseteq UnnoticedElsewhere, Silent' \subseteq Silent
  PROVE  SilentInv'
<1>1. /\ IsFiniteSet(UnnoticedElsewhere')
      /\ Cardinality(UnnoticedElsewhere') <= Cardinality(UnnoticedElsewhere)
      /\ IsFiniteSet(Silent') /\ Cardinality(Silent') <= Cardinality(Silent)
  BY SetsAreFinite, FS_Subset DEF RepeatInv
<1>2. Cardinality(UnnoticedElsewhere') \in Nat /\ Cardinality(Silent') \in Nat
  BY <1>1, FS_CardinalityType
<1> QED BY <1>1, <1>2, SetsAreFinite DEF RepeatInv, SilentInv

\* A step in which a silent session gives way to its claim.
LEMMA OneMoved ==
  ASSUME RepeatInv, NEW w \in Silent, NEW c,
         UnnoticedElsewhere' \subseteq UnnoticedElsewhere \union {c}, Silent' = Silent \ {w}
  PROVE  SilentInv'
<1>1. Cardinality(Silent') = Cardinality(Silent) - 1
  BY SetsAreFinite, FS_RemoveElement DEF RepeatInv
<1>2. /\ IsFiniteSet(UnnoticedElsewhere \union {c})
      /\ Cardinality(UnnoticedElsewhere \union {c}) <= Cardinality(UnnoticedElsewhere) + 1
      /\ Cardinality(UnnoticedElsewhere \union {c}) \in Nat
  BY SetsAreFinite, FS_AddElement, FS_CardinalityType DEF RepeatInv
<1>3. /\ Cardinality(UnnoticedElsewhere') \in Nat
      /\ Cardinality(UnnoticedElsewhere') <= Cardinality(UnnoticedElsewhere \union {c})
  BY <1>2, FS_Subset, FS_CardinalityType
<1> QED BY <1>1, <1>2, <1>3, SetsAreFinite DEF RepeatInv, SilentInv

LEMMA RepeatTypeInit == RepeatInit => RepeatTypeOK
  BY DEF RepeatInit, RepeatTypeOK, Standing, Idle

LEMMA RepeatTypeStep == RepeatTypeOK /\ [RepeatNext]_repeatVars => RepeatTypeOK'
<1> SUFFICES ASSUME RepeatTypeOK, [RepeatNext]_repeatVars PROVE RepeatTypeOK'
  OBVIOUS
<1> USE DEF RepeatTypeOK
<1>1. ASSUME NEW w \in Worker, NEW c \in Case, LoadDraft(w, c) PROVE RepeatTypeOK'
  BY <1>1 DEF LoadDraft, Running
<1>2. ASSUME NEW w \in Worker, StartSubmit(w) PROVE RepeatTypeOK'
  <2>1. session[w] = [pc |-> "loaded", case |-> session[w].case] /\ session[w].case \in Case
    BY <1>2 DEF StartSubmit, Running, Idle
  <2>2. session'[w] = [pc |-> "analysing", case |-> session[w].case]
    BY <1>2, <2>1 DEF StartSubmit
  <2> QED BY <1>2, <2>1, <2>2 DEF StartSubmit, Running
<1>3. ASSUME NEW w \in Worker, CountOthers(w) PROVE RepeatTypeOK'
  <2>1. session[w] \in Running /\ session[w].case \in Case
    BY <1>3 DEF CountOthers, Running, Idle
  <2>2. Repeats(session[w].case) \in BOOLEAN
    BY DEF Repeats
  <2> QED BY <1>3, <2>1, <2>2 DEF CountOthers, Running
<1>4. ASSUME NEW w \in Worker, FinishSubmit(w) PROVE RepeatTypeOK'
  <2>1. session[w].case \in Case /\ session[w].signal \in BOOLEAN
    BY <1>4 DEF FinishSubmit, Running, Idle
  <2> QED BY <1>4, <2>1 DEF FinishSubmit, Standing, Idle
<1>5. ASSUME NEW w \in Worker, AbortSubmit(w) PROVE RepeatTypeOK'
  BY <1>5 DEF AbortSubmit, Idle
<1>6. ASSUME NEW c \in Case, NEW to \in Standing, Decide(c, to) PROVE RepeatTypeOK'
  BY <1>6 DEF Decide
<1>7. CASE UNCHANGED repeatVars
  BY <1>7 DEF repeatVars
<1> QED BY <1>1, <1>2, <1>3, <1>4, <1>5, <1>6, <1>7 DEF RepeatNext

-----------------------------------------------------------------------------
\* A claim is unnoticed only while it is open.
LEMMA OpenStep ==
  RepeatTypeOK /\ UnnoticedAreOpen /\ [RepeatNext]_repeatVars => UnnoticedAreOpen'
<1> SUFFICES ASSUME RepeatTypeOK, UnnoticedAreOpen, [RepeatNext]_repeatVars
             PROVE  UnnoticedAreOpen'
  OBVIOUS
<1>1. ASSUME UNCHANGED <<standing, unnoticed>> PROVE UnnoticedAreOpen'
  BY <1>1 DEF UnnoticedAreOpen
<1>2. ASSUME NEW w \in Worker, FinishSubmit(w) PROVE UnnoticedAreOpen'
  <2>1. session[w].case \in Case
    BY <1>2 DEF FinishSubmit, Running, Idle, RepeatTypeOK
  <2> QED BY <1>2, <2>1 DEF FinishSubmit, UnnoticedAreOpen, RepeatTypeOK
<1>3. ASSUME NEW c \in Case, NEW to \in Standing, Decide(c, to) PROVE UnnoticedAreOpen'
  BY <1>3 DEF Decide, UnnoticedAreOpen, RepeatTypeOK
<1> QED BY <1>1, <1>2, <1>3
        DEF RepeatNext, LoadDraft, StartSubmit, CountOthers, AbortSubmit, repeatVars

-----------------------------------------------------------------------------
\* The sum.

LEMMA RepeatInvInit == RepeatInit => RepeatInv
<1> SUFFICES ASSUME RepeatInit PROVE RepeatInv
  OBVIOUS
<1>1. RepeatTypeOK /\ UnnoticedAreOpen
  BY RepeatTypeInit DEF RepeatInit, UnnoticedAreOpen
<1>2. UnnoticedElsewhere = {} /\ Silent = {}
  BY DEF RepeatInit, UnnoticedElsewhere, Silent, Idle
<1>3. Cardinality(UnnoticedElsewhere) = 0 /\ Cardinality(Silent) = 0
  BY <1>2, FS_EmptySet
<1> QED BY <1>1, <1>3, SetsAreFinite DEF RepeatInv, SilentInv

\* A session that finds no repeat sees at most one open claim beside its own, and
\* no more than all sessions can be silent.
LEMMA CountStep ==
  ASSUME RepeatInv, NEW w \in Worker, CountOthers(w)
  PROVE  SilentInv'
<1> DEFINE c == session[w].case
<1>1. c \in Case /\ RepeatTypeOK
  BY DEF CountOthers, Running, Idle, RepeatTypeOK, RepeatInv
<1>2. /\ unnoticed' = unnoticed /\ session[w].pc = "analysing"
      /\ session' = [session EXCEPT ![w] =
                       [pc |-> "assessed", case |-> c, signal |-> Repeats(c)]]
  BY DEF CountOthers
<1> HIDE DEF c
<1>3. /\ session'[w] = [pc |-> "assessed", case |-> c, signal |-> Repeats(c)]
      /\ \A v \in Worker \ {w} : session'[v] = session[v]
  BY <1>1, <1>2 DEF RepeatTypeOK
<1>4. w \notin Silent
  BY <1>2 DEF Silent
<1>5. CASE Repeats(c)
  <2>1. Silent' = Silent
    BY <1>3, <1>4, <1>5 DEF Silent
  <2>2. SilentCases' = SilentCases
    BY <1>3, <1>4, <2>1 DEF SilentCases, Silent
  <2> QED BY <1>2, <2>1, <2>2, NoneAdded DEF UnnoticedElsewhere
<1>6. CASE ~Repeats(c)
  <2>1. IsFiniteSet(Others(c))
    BY RepeatConstants, FS_Subset, Others(c) \in SUBSET Case DEF Others
  <2>2. Cardinality(Others(c)) \in Nat /\ Cardinality(Others(c)) < 2
    BY <1>6, <2>1, FS_CardinalityType DEF Repeats
  <2>3. w \in Silent' /\ session'[w].case = c
    BY <1>3, <1>6 DEF Silent
  <2>4. c \in SilentCases'
    BY <2>3 DEF SilentCases
  <2>5. UnnoticedElsewhere' \in SUBSET Others(c)
    BY <1>1, <1>2, <2>4 DEF UnnoticedElsewhere, Others, RepeatTypeOK, RepeatInv, UnnoticedAreOpen
  <2>6. /\ Cardinality(UnnoticedElsewhere') <= Cardinality(Others(c))
        /\ Cardinality(UnnoticedElsewhere') \in Nat
    BY <2>1, <2>5, FS_Subset, FS_CardinalityType
  <2>7. Silent' \in SUBSET Worker
    BY DEF Silent
  <2>8. /\ Cardinality(Silent') \in Nat /\ Cardinality(Silent') <= Cardinality(Worker)
    BY <2>7, RepeatConstants, FS_Subset, FS_CardinalityType
  <2> QED BY <1>1, <2>2, <2>6, <2>8, SetsAreFinite DEF SilentInv
<1> QED BY <1>5, <1>6

\* A session that ends: the others stay as they are, and so do their claims.
LEMMA SessionEnds ==
  ASSUME RepeatInv, NEW w \in Worker, session' = [session EXCEPT ![w] = Idle],
         session[w].pc # "idle",
         w \in Silent => unnoticed' \subseteq unnoticed \union {session[w].case},
         w \notin Silent => unnoticed' \subseteq unnoticed
  PROVE  SilentInv'
<1> DEFINE c == session[w].case
<1>1. /\ session'[w] = Idle /\ \A v \in Worker \ {w} : session'[v] = session[v]
  BY DEF RepeatInv, RepeatTypeOK
<1>2. Silent' = Silent \ {w}
  BY <1>1 DEF Silent, Idle
<1>3. /\ SilentCases \subseteq SilentCases' \union {c}
      /\ w \notin Silent => SilentCases' = SilentCases
  <2>1. \A v \in Silent : v = w \/ (v \in Silent' /\ session'[v].case = session[v].case)
    BY <1>1, <1>2 DEF Silent
  <2>2. \A v \in Silent' : v \in Silent /\ session'[v].case = session[v].case
    BY <1>1, <1>2 DEF Silent
  <2> QED BY <2>1, <2>2 DEF SilentCases
<1> HIDE DEF c
<1>4. CASE w \in Silent
  <2>1. UnnoticedElsewhere' \subseteq UnnoticedElsewhere \union {c}
    BY <1>3, <1>4 DEF UnnoticedElsewhere, c
  <2> QED BY <1>2, <1>4, <2>1, OneMoved
<1>5. CASE w \notin Silent
  <2>1. UnnoticedElsewhere' \subseteq UnnoticedElsewhere /\ Silent' \subseteq Silent
    BY <1>2, <1>3, <1>5 DEF UnnoticedElsewhere
  <2> QED BY <2>1, NoneAdded
<1> QED BY <1>4, <1>5

LEMMA SilentStep == RepeatInv /\ [RepeatNext]_repeatVars => SilentInv'
<1> SUFFICES ASSUME RepeatInv, [RepeatNext]_repeatVars PROVE SilentInv'
  OBVIOUS
<1> USE DEF RepeatTypeOK, RepeatInv
<1>1. ASSUME NEW w \in Worker, NEW c \in Case, LoadDraft(w, c) PROVE SilentInv'
  <2>1. /\ w \notin Silent /\ w \notin Silent' /\ unnoticed' = unnoticed
        /\ \A v \in Worker \ {w} : session'[v] = session[v]
    BY <1>1 DEF LoadDraft, Silent, Idle
  <2>2. Silent' = Silent
    BY <2>1 DEF Silent
  <2>3. SilentCases' = SilentCases
    BY <2>1, <2>2 DEF SilentCases, Silent
  <2> QED BY <2>1, <2>2, <2>3, NoneAdded DEF UnnoticedElsewhere
<1>2. ASSUME NEW w \in Worker, StartSubmit(w) PROVE SilentInv'
  <2>1. /\ w \notin Silent /\ w \notin Silent' /\ unnoticed' = unnoticed
        /\ \A v \in Worker \ {w} : session'[v] = session[v]
    BY <1>2 DEF StartSubmit, Silent, Running, Idle
  <2>2. Silent' = Silent
    BY <2>1 DEF Silent
  <2>3. SilentCases' = SilentCases
    BY <2>1, <2>2 DEF SilentCases, Silent
  <2> QED BY <2>1, <2>2, <2>3, NoneAdded DEF UnnoticedElsewhere
<1>3. ASSUME NEW w \in Worker, CountOthers(w) PROVE SilentInv'
  BY <1>3, CountStep
<1>4. ASSUME NEW w \in Worker, FinishSubmit(w) PROVE SilentInv'
  BY <1>4, SessionEnds DEF FinishSubmit, Silent
<1>5. ASSUME NEW w \in Worker, AbortSubmit(w) PROVE SilentInv'
  BY <1>5, SessionEnds DEF AbortSubmit
<1>6. ASSUME NEW c \in Case, NEW to \in Standing, Decide(c, to) PROVE SilentInv'
  <2>1. UnnoticedElsewhere' \subseteq UnnoticedElsewhere /\ Silent' \subseteq Silent
    BY <1>6 DEF Decide, UnnoticedElsewhere, SilentCases, Silent
  <2> QED BY <2>1, NoneAdded
<1>7. CASE UNCHANGED repeatVars
  <2>1. UnnoticedElsewhere' \subseteq UnnoticedElsewhere /\ Silent' \subseteq Silent
    BY <1>7 DEF repeatVars, UnnoticedElsewhere, SilentCases, Silent
  <2> QED BY <2>1, NoneAdded
<1> QED BY <1>1, <1>2, <1>3, <1>4, <1>5, <1>6, <1>7 DEF RepeatNext

-----------------------------------------------------------------------------
LEMMA RepeatInvariant == RepeatSpec => []RepeatInv
<1>1. RepeatInv /\ [RepeatNext]_repeatVars => RepeatInv'
  BY RepeatTypeStep, OpenStep, SilentStep DEF RepeatInv
<1> QED BY <1>1, RepeatInvInit, PTL DEF RepeatSpec

\* RepeatTypeOK for any number of claims and sessions: also a session between
\* two submissions holds no claim (get_db).
THEOREM RepeatTypeCorrect == RepeatSpec => []RepeatTypeOK
  BY RepeatInvariant, PTL DEF RepeatInv

\* However many claims a customer makes on one vehicle, and whatever staff do with
\* them, no more of those submitted than one for each session and one further stay
\* open without the signal (_repeat_claim_signals).
THEOREM FewUnnoticed == RepeatSpec => []FewGoUnnoticed
<1>1. RepeatInv => FewGoUnnoticed
  <2> SUFFICES ASSUME RepeatInv PROVE FewGoUnnoticed
    OBVIOUS
  <2>1. IsFiniteSet(SilentCases) /\ Cardinality(SilentCases) <= Cardinality(Silent)
    <3> DEFINE case == [w \in Silent |-> session[w].case]
    <3>1. case \in Surjection(Silent, SilentCases)
      BY DEF SilentCases, Surjection
    <3> QED BY <3>1, SetsAreFinite, FS_Surjection DEF RepeatInv
  <2>2. unnoticed \in SUBSET (UnnoticedElsewhere \union SilentCases)
    BY DEF UnnoticedElsewhere
  <2>3. /\ IsFiniteSet(UnnoticedElsewhere \union SilentCases)
        /\ Cardinality(UnnoticedElsewhere \union SilentCases)
             <= Cardinality(UnnoticedElsewhere) + Cardinality(SilentCases)
    <3>1. Cardinality(UnnoticedElsewhere \union SilentCases)
            = Cardinality(UnnoticedElsewhere) + Cardinality(SilentCases)
                - Cardinality(UnnoticedElsewhere \intersect SilentCases)
          /\ IsFiniteSet(UnnoticedElsewhere \union SilentCases)
      BY <2>1, SetsAreFinite, FS_Union DEF RepeatInv
    <3>2. UnnoticedElsewhere \intersect SilentCases = {}
      BY DEF UnnoticedElsewhere
    <3>3. Cardinality(UnnoticedElsewhere \intersect SilentCases) = 0
      BY <3>2, FS_EmptySet, Zenon
    <3>4. Cardinality(SilentCases) \in Nat
      BY <2>1, FS_CardinalityType
    <3> QED BY <3>1, <3>3, <3>4, SetsAreFinite DEF RepeatInv
  <2>4. /\ Cardinality(unnoticed) <= Cardinality(UnnoticedElsewhere \union SilentCases)
        /\ Cardinality(SilentCases) \in Nat
        /\ Cardinality(UnnoticedElsewhere \union SilentCases) \in Nat
    BY <2>1, <2>2, <2>3, FS_Subset, FS_CardinalityType
  <2> QED BY <2>1, <2>3, <2>4, SetsAreFinite DEF RepeatInv, SilentInv, FewGoUnnoticed
<1> QED BY <1>1, RepeatInvariant, PTL

-----------------------------------------------------------------------------
\* The dashboard.  The inductive invariant says where a claim may be that no
\* statement so far has counted: each statement leaves it in the statuses that
\* the later ones select, or in closed, and no transition of the table leads back.

\* The statuses of a claim under way that the statements so far have missed.
Ahead ==
  [idle     |-> Status,
   total    |-> Status \ {"draft"},
   pending  |-> Status \ {"draft"},
   approved |-> ApprovedStatuses \union {"rejected", "closed"},
   rejected |-> {"rejected", "closed"},
   done     |-> {"closed"}]

\* The counters read so far.
Read ==
  [idle |-> {}, total |-> {}, pending |-> {}, approved |-> {"pending"},
   rejected |-> {"pending", "approved"}, done |-> {"pending", "approved", "rejected"}]

DashTypeOK ==
  /\ state \in [Entry -> Status]
  /\ reading \in DOMAIN Ahead
  /\ counted \in [Counter -> SUBSET Entry]
  /\ begun \subseteq Entry /\ strayed \subseteq Entry

SeenOrAhead(c) ==
  \/ \E k \in Read[reading] : c \in counted[k]
  \/ state[c] \in Ahead[reading]
  \/ c \in strayed

DashInv == DashTypeOK /\ (reading # "idle" => \A c \in begun : SeenOrAhead(c))

-----------------------------------------------------------------------------
\* No transition leads back before a statement that has run.
LEMMA MovesForward ==
  \A s \in Status : \A r \in DOMAIN Ahead :
    \A t \in Successors(s) :
      /\ t \in Status
      /\ s \in Ahead[r] => t \in Ahead[r]
  BY DEF Ahead, Successors, ValidTransitions, Status, ApprovedStatuses

\* A statement that selects what is ahead of it and not ahead of the next one.
LEMMA SelectStep ==
  ASSUME DashInv, NEW k \in Counter, NEW statuses, NEW next \in DOMAIN Ahead \ {"idle"},
         Select(k, statuses, next),
         Ahead[k] \subseteq statuses \union Ahead[next],
         Read[next] \subseteq Counter,
         Read[next] = Read[k] \union (IF k = "total" THEN {} ELSE {k}),
         k = "total" => Ahead[k] = Ahead[next],
         k \notin Read[k]
  PROVE  DashInv'
<1>1. /\ reading = k /\ reading' = next
      /\ counted' = [counted EXCEPT ![k] = With(statuses)]
      /\ state' = state /\ begun' = begun /\ strayed' = strayed
  BY DEF Select
<1>2. DashTypeOK'
  BY <1>1 DEF With, DashInv, DashTypeOK
<1>3. counted'[k] = With(statuses) /\ \A j \in Counter \ {k} : counted'[j] = counted[j]
  BY <1>1 DEF DashInv, DashTypeOK
<1>4. ASSUME NEW c \in begun PROVE SeenOrAhead(c)'
  <2>1. c \in Entry
    BY DEF DashInv, DashTypeOK
  <2>2. (\E j \in Read[k] : c \in counted[j]) \/ state[c] \in Ahead[k] \/ c \in strayed
    BY <1>1, k # "idle" DEF DashInv, SeenOrAhead, Counter
  <2>3. CASE \E j \in Read[k] : c \in counted[j]
    <3>1. PICK j \in Read[k] : c \in counted[j]
      BY <2>3
    <3>2. j \in Read[next] /\ c \in counted'[j]
      BY <1>3, <3>1
    <3> QED BY <1>1, <3>2 DEF SeenOrAhead
  <2>4. CASE state[c] \in Ahead[next]
    BY <1>1, <2>4 DEF SeenOrAhead
  <2>5. CASE state[c] \in statuses /\ k # "total"
    <3>1. c \in counted'[k] /\ k \in Read[next]
      BY <1>3, <2>1, <2>5 DEF With
    <3> QED BY <1>1, <3>1 DEF SeenOrAhead
  <2>6. CASE c \in strayed
    BY <1>1, <2>6 DEF SeenOrAhead
  <2> QED BY <2>2, <2>3, <2>4, <2>5, <2>6
<1> QED BY <1>1, <1>2, <1>4 DEF DashInv

LEMMA DashInvInit == DashInit => DashInv
  BY DEF DashInit, DashInv, DashTypeOK, Ahead, Status, Counter

LEMMA DashInvStep == DashInv /\ [DashNext]_dashVars => DashInv'
<1> SUFFICES ASSUME DashInv, [DashNext]_dashVars PROVE DashInv'
  OBVIOUS
<1>1. CASE OpenDashboard
  <2>1. /\ reading' = "total" /\ state' = state
        /\ begun' = {c \in Entry : state[c] # "draft"}
        /\ counted' = [k \in Counter |-> {}] /\ strayed' = {}
    BY <1>1 DEF OpenDashboard
  <2>2. DashTypeOK'
    BY <2>1 DEF DashInv, DashTypeOK, Ahead
  <2>3. \A c \in begun' : state'[c] \in Ahead["total"]
    BY <2>1 DEF DashInv, DashTypeOK, Ahead
  <2> QED BY <2>1, <2>2, <2>3 DEF DashInv, SeenOrAhead
<1>2. CASE SelectTotal
  BY <1>2, SelectStep DEF SelectTotal, Counter, Ahead, Read
<1>3. CASE SelectPending
  BY <1>3, SelectStep
     DEF SelectPending, Counter, Ahead, Read, PendingStatuses, ApprovedStatuses, Status
<1>4. CASE SelectApproved
  BY <1>4, SelectStep DEF SelectApproved, Counter, Ahead, Read
<1>5. CASE SelectRejected
  BY <1>5, SelectStep DEF SelectRejected, Counter, Ahead, Read
<1>6. ASSUME NEW e \in Entry, Advance(e) PROVE DashInv'
  <2>1. PICK to \in Successors(state[e]) : state' = [state EXCEPT ![e] = to]
    BY <1>6 DEF Advance
  <2>2. /\ reading' = reading /\ counted' = counted
        /\ begun' = begun /\ strayed' = strayed
    BY <1>6 DEF Advance
  <2>3. /\ to \in Status
        /\ state[e] \in Ahead[reading] => to \in Ahead[reading]
    BY <2>1, MovesForward DEF DashInv, DashTypeOK
  <2>4. DashTypeOK'
    BY <2>1, <2>2, <2>3 DEF DashInv, DashTypeOK
  <2> QED BY <2>1, <2>2, <2>3, <2>4 DEF DashInv, DashTypeOK, SeenOrAhead
<1>7. ASSUME NEW e \in Entry, Stray(e) PROVE DashInv'
  <2>1. PICK to \in Status : state' = [state EXCEPT ![e] = to]
    BY <1>7 DEF Stray
  <2>2. /\ reading' = reading /\ counted' = counted
        /\ begun' = begun /\ strayed' = strayed \union {e}
    BY <1>7 DEF Stray
  <2>3. DashTypeOK'
    BY <2>1, <2>2 DEF DashInv, DashTypeOK
  <2> QED BY <2>1, <2>2, <2>3 DEF DashInv, DashTypeOK, SeenOrAhead
<1>8. CASE UNCHANGED dashVars
  BY <1>8 DEF dashVars, DashInv, DashTypeOK, SeenOrAhead
<1> QED BY <1>1, <1>2, <1>3, <1>4, <1>5, <1>6, <1>7, <1>8 DEF DashNext

\* A claim that was under way when the dashboard was opened, and is not closed
\* when it is shown, is in a counter unless it was moved off the table meanwhile,
\* for any number of claims and moves (dashboard_stats).
THEOREM NoneMissed == DashSpec => []NoClaimIsMissed
<1>1. DashInv => NoClaimIsMissed
  BY DEF DashInv, Ahead, Read, SeenOrAhead, NoClaimIsMissed
<1> QED BY <1>1, DashInvInit, DashInvStep, PTL DEF DashSpec

-----------------------------------------------------------------------------
\* The months of the charts.  Going back thirty days for each month reaches the
\* month before as long as no February lies between, or the longer months
\* between make up for it; the calendar is worked out year by year, and that
\* every day has a month follows from the least month that starts after it.

\* The calendar.

YearStart(y) == 365 * y + (y + 3) \div 4
InYear(y, j) == DaysBefore[j + 1] + (IF Leap(y) /\ j >= 2 THEN 1 ELSE 0)

LEMMA FirstDayOf ==
  ASSUME NEW y \in Nat, NEW j \in 0..11
  PROVE  FirstDay(12 * y + j) = YearStart(y) + InYear(y, j)
<1>1. (12 * y + j) \div 12 = y /\ (12 * y + j) % 12 = j
  OBVIOUS
<1>2. DaysBefore[j + 1] \in Nat
  BY DEF DaysBefore
<1>3. j + 1 > 2 <=> j >= 2
  OBVIOUS
<1> QED BY <1>1, <1>2, <1>3 DEF FirstDay, YearStart, InYear

LEMMA YearAndMonth ==
  ASSUME NEW k \in Nat
  PROVE  \E y \in Nat, j \in 0..11 : k = 12 * y + j
<1>1. k \div 12 \in Nat /\ k % 12 \in 0..11 /\ k = 12 * (k \div 12) + (k % 12)
  OBVIOUS
<1> QED BY <1>1

\* Days of month k.
Days(k) ==
  IF k % 12 = 1 THEN IF Leap(k \div 12) THEN 29 ELSE 28
  ELSE IF k % 12 \in {3, 5, 8, 10} THEN 30 ELSE 31

LEMMA MonthLengths ==
  ASSUME NEW k \in Nat
  PROVE  FirstDay(k) \in Nat /\ FirstDay(k + 1) = FirstDay(k) + Days(k)
<1>1. PICK y \in Nat, j \in 0..11 : k = 12 * y + j
  BY YearAndMonth
<1>2. k \div 12 = y /\ k % 12 = j
  BY <1>1
<1>3. /\ YearStart(y) \in Nat /\ InYear(y, j) \in Nat
      /\ FirstDay(k) = YearStart(y) + InYear(y, j)
  <2>1. YearStart(y) \in Nat /\ InYear(y, j) \in Nat
    BY DEF YearStart, InYear, DaysBefore
  <2> QED BY <1>1, <2>1, FirstDayOf
<1>4. CASE j < 11
  <2>1. FirstDay(k + 1) = YearStart(y) + InYear(y, j + 1)
    <3>1. k + 1 = 12 * y + (j + 1) /\ j + 1 \in 0..11
      BY <1>1, <1>4
    <3> QED BY <3>1, FirstDayOf
  <2>2. InYear(y, j + 1) = InYear(y, j) + Days(k)
    BY <1>2, <1>4 DEF InYear, Days, DaysBefore
  <2>3. Days(k) \in Nat
    BY DEF Days
  <2> QED BY <1>3, <2>1, <2>2, <2>3
<1>5. CASE j = 11
  <2>1. FirstDay(k + 1) = YearStart(y + 1) + InYear(y + 1, 0)
    <3>1. k + 1 = 12 * (y + 1) + 0 /\ 0 \in 0..11 /\ y + 1 \in Nat
      BY <1>1, <1>5
    <3> QED BY <3>1, FirstDayOf
  <2>2. YearStart(y + 1) + InYear(y + 1, 0) = YearStart(y) + InYear(y, 11) + 31
    BY DEF YearStart, InYear, DaysBefore, Leap
  <2>3. Days(k) = 31
    BY <1>2, <1>5 DEF Days
  <2> QED BY <1>3, <1>5, <2>1, <2>2, <2>3
<1> QED BY <1>4, <1>5

\* Months are in order, and have between 28 and 31 days.
LEMMA MonthsInOrder ==
  ASSUME NEW k \in Nat, NEW m \in Nat, k < m
  PROVE  FirstDay(k) < FirstDay(m)
<1>1. PICK y \in Nat, j \in 0..11 : k = 12 * y + j
  BY YearAndMonth
<1>2. PICK z \in Nat, i \in 0..11 : m = 12 * z + i
  BY YearAndMonth
<1>3. /\ FirstDay(k) = YearStart(y) + InYear(y, j)
      /\ FirstDay(m) = YearStart(z) + InYear(z, i)
  BY <1>1, <1>2, FirstDayOf
<1>4. CASE y = z
  <2>1. InYear(y, j) < InYear(y, i)
    BY <1>1, <1>2, <1>4 DEF InYear, DaysBefore
  <2>2. YearStart(y) \in Nat /\ InYear(y, j) \in Nat /\ InYear(y, i) \in Nat
    BY DEF YearStart, InYear, DaysBefore
  <2> QED BY <1>3, <1>4, <2>1, <2>2
<1>5. CASE y < z
  <2>1. /\ InYear(y, j) \in Nat /\ InYear(y, j) <= 335
        /\ InYear(z, i) \in Nat
    BY DEF InYear, DaysBefore
  <2>2. YearStart(y) \in Nat /\ YearStart(z) \in Nat /\ YearStart(y) + 365 <= YearStart(z)
    BY <1>5 DEF YearStart
  <2>3. YearStart(y) + InYear(y, j) < YearStart(z) + InYear(z, i)
    BY <2>1, <2>2
  <2> QED BY <1>3, <2>3
<1> QED BY <1>1, <1>2, <1>4, <1>5

LEMMA MonthBounds ==
  ASSUME NEW k \in Nat
  PROVE  28 * k <= FirstDay(k) /\ FirstDay(k) <= 31 * k
<1>1. PICK y \in Nat, j \in 0..11 : k = 12 * y + j
  BY YearAndMonth
<1>2. 28 * j <= InYear(y, j) /\ InYear(y, j) <= 31 * j /\ InYear(y, j) \in Nat
  BY DEF InYear, DaysBefore
<1>3. 336 * y <= YearStart(y) /\ YearStart(y) <= 372 * y /\ YearStart(y) \in Nat
  BY DEF YearStart
<1>4. FirstDay(k) = YearStart(y) + InYear(y, j)
  BY <1>1, FirstDayOf
<1> QED BY <1>1, <1>2, <1>3, <1>4

LEMMA EveryDayHasAMonth ==
  ASSUME NEW day \in Nat
  PROVE  \E k \in Nat : FirstDay(k) <= day /\ day < FirstDay(k + 1)
<1> DEFINE T == {k \in Nat : day < FirstDay(k)}
<1>1. T # {} /\ T \subseteq Nat
  <2>1. day < FirstDay(day + 1)
    BY MonthBounds, MonthLengths
  <2> QED BY <2>1
<1>2. IsWellFoundedOn(OpToRel(<, Nat), Nat)
  BY NatLessThanWellFounded
<1> HIDE DEF T
<1>3. \E m \in T : \A k \in T : ~(<<k, m>> \in OpToRel(<, Nat))
  BY <1>1, <1>2, WFMin, Zenon
<1>4. PICK m \in T : \A k \in T : ~(<<k, m>> \in OpToRel(<, Nat))
  BY <1>3
<1>5. \A k \in T : ~(k < m)
  BY <1>1, <1>4, Zenon DEF OpToRel
<1>6. FirstDay(0) = 0
  BY MonthBounds, MonthLengths
<1>7. m \in Nat /\ day < FirstDay(m) /\ m # 0
  BY <1>6, SMT DEF T
<1>8. m - 1 \in Nat /\ m - 1 \notin T /\ (m - 1) + 1 = m
  BY <1>5, <1>7, SMT
<1>9. FirstDay(m - 1) <= day
  BY <1>8, MonthLengths, SMT DEF T
<1> QED BY <1>7, <1>8, <1>9, SMT
-----------------------------------------------------------------------------
\* A time is a day and a time of day.

LEMMA DayAndTime ==
  ASSUME NEW d \in Nat, NEW r \in Nat, r < Tick
  PROVE  /\ d * Tick + r \in Nat
         /\ (d * Tick + r) \div Tick = d
         /\ (d * Tick + r) % Tick = r
<1> DEFINE t == d * Tick + r
           q == t \div Tick
           m == t % Tick
<1>1. Tick \in Nat /\ Tick > 0
  BY MonthConstants
<1>2. d * Tick \in Nat
  BY <1>1
<1>3. t \in Nat
  BY <1>2
<1> HIDE DEF t
<1>4. q \in Int /\ m \in Int /\ 0 <= m /\ m < Tick /\ t = q * Tick + m
  BY <1>1, <1>3
<1>5. t = d * Tick + r
  BY DEF t
<1> HIDE DEF q, m
<1>6. q = d
  <2>1. CASE q < d
    <3>1. (q + 1) * Tick <= d * Tick
      BY <1>1, <1>4, <2>1
    <3>2. (q + 1) * Tick = q * Tick + Tick
      BY <1>1, <1>4
    <3> QED BY <1>1, <1>2, <1>4, <1>5, <3>1, <3>2
  <2>2. CASE q > d
    <3>1. (d + 1) * Tick <= q * Tick
      BY <1>1, <1>4, <2>2
    <3>2. (d + 1) * Tick = d * Tick + Tick
      BY <1>1
    <3> QED BY <1>1, <1>2, <1>4, <1>5, <3>1, <3>2
  <2> QED BY <1>4, <2>1, <2>2
<1>7. m = r
  BY <1>2, <1>4, <1>5, <1>6
<1> QED BY <1>3, <1>5, <1>6, <1>7 DEF q, m

LEMMA EveryTime ==
  ASSUME NEW t \in Nat
  PROVE  \E d \in Nat, r \in Nat : r < Tick /\ t = d * Tick + r
<1>1. Tick \in Nat /\ Tick > 0
  BY MonthConstants
<1>2. t \div Tick \in Nat /\ t % Tick \in Nat /\ t % Tick < Tick
      /\ t = (t \div Tick) * Tick + (t % Tick)
  BY <1>1
<1> QED BY <1>2

LEMMA MonthOfDay ==
  ASSUME NEW d \in Nat, NEW r \in Nat, r < Tick,
         NEW k \in Nat, FirstDay(k) <= d, d < FirstDay(k + 1)
  PROVE  /\ MonthOf(d * Tick + r) = k
         /\ OnTheFirst(d * Tick + r) = FirstDay(k) * Tick + r
<1>1. (d * Tick + r) \div Tick = d /\ (d * Tick + r) % Tick = r
  BY DayAndTime
<1>2. k \in (d \div 31)..(d \div 28)
  <2>1. 28 * k <= FirstDay(k) /\ FirstDay(k + 1) <= 31 * (k + 1) /\ FirstDay(k) \in Nat
        /\ FirstDay(k + 1) \in Nat
    BY MonthBounds, MonthLengths, k + 1 \in Nat
  <2>2. 28 * k <= d /\ d < 31 * (k + 1)
    BY <2>1
  <2> QED BY <2>2
<1>3. \A m \in (d \div 31)..(d \div 28) :
        FirstDay(m) <= d /\ d < FirstDay(m + 1) => m = k
  <2> SUFFICES ASSUME NEW m \in (d \div 31)..(d \div 28), FirstDay(m) <= d,
                      d < FirstDay(m + 1)
               PROVE  m = k
    OBVIOUS
  <2>1. m \in Nat
    <3>1. d \div 31 \in Nat /\ d \div 28 \in Nat
      OBVIOUS
    <3> QED BY <3>1
  <2>2. ASSUME NEW a \in Nat, NEW b \in Nat, a < b, d < FirstDay(a + 1), FirstDay(b) <= d
        PROVE  FALSE
    <3>1. FirstDay(a + 1) <= FirstDay(b)
      <4>1. a + 1 = b \/ (a + 1 \in Nat /\ a + 1 < b)
        BY <2>2
      <4>2. FirstDay(b) \in Nat
        BY MonthLengths
      <4>3. CASE a + 1 = b
        BY <4>2, <4>3
      <4>4. CASE a + 1 \in Nat /\ a + 1 < b
        <5>1. PICK c \in Nat : c = a + 1
          BY <4>4
        <5>2. FirstDay(c) < FirstDay(b)
          BY <4>4, <5>1, MonthsInOrder
        <5>3. FirstDay(c) \in Nat
          BY MonthLengths
        <5> QED BY <4>2, <5>1, <5>2, <5>3
      <4> QED BY <4>1, <4>3, <4>4
    <3>2. FirstDay(a + 1) \in Nat /\ FirstDay(b) \in Nat
      BY MonthLengths, a + 1 \in Nat
    <3> QED BY <2>2, <3>1, <3>2
  <2> QED BY <2>1, <2>2
<1>4. MonthOf(d * Tick + r)
        = CHOOSE m \in (d \div 31)..(d \div 28) : FirstDay(m) <= d /\ d < FirstDay(m + 1)
  BY <1>1 DEF MonthOf
<1>5. MonthOf(d * Tick + r) = k
  BY <1>2, <1>3, <1>4
<1> QED BY <1>1, <1>5 DEF OnTheFirst

-----------------------------------------------------------------------------
\* The buckets.

LEMMA DaysOfMonth ==
  ASSUME NEW k \in Nat
  PROVE  Days(k) \in 28..31 /\ (k % 12 # 1 => Days(k) >= 30)
                            /\ (k % 12 \in {0, 2, 4, 6, 7, 9, 11} => Days(k) = 31)
  BY DEF Days

\* Thirty days back for each month lead into that month, unless a February lies
\* too near: the surplus of the months between makes up for it.
LEMMA BackMonths ==
  ASSUME NEW m \in Nat, m >= 5, m % 12 \notin {2, 3, 4}, NEW i \in 0..5
  PROVE  /\ m - i \in Nat
         /\ FirstDay(m) - 30 * i \in Nat
         /\ FirstDay(m - i) <= FirstDay(m) - 30 * i
         /\ FirstDay(m) - 30 * i < FirstDay((m - i) + 1)
<1> DEFINE F(n) == FirstDay(m - n)
           D(n) == Days(m - n)
<1>1. \A n \in 1..5 : /\ F(n) \in Nat /\ F(n - 1) \in Nat /\ F(n - 1) = F(n) + D(n)
                      /\ D(n) \in 28..31
                      /\ (m - n) % 12 # 1 => D(n) >= 30
                      /\ (m - n) % 12 \in {0, 2, 4, 6, 7, 9, 11} => D(n) = 31
  <2> SUFFICES ASSUME NEW n \in 1..5
               PROVE  /\ F(n) \in Nat /\ F(n - 1) \in Nat /\ F(n - 1) = F(n) + D(n)
                      /\ D(n) \in 28..31
                      /\ (m - n) % 12 # 1 => D(n) >= 30
                      /\ (m - n) % 12 \in {0, 2, 4, 6, 7, 9, 11} => D(n) = 31
    OBVIOUS
  <2>1. m - n \in Nat /\ m - (n - 1) = (m - n) + 1 /\ m - (n - 1) \in Nat
    OBVIOUS
  <2> QED BY <2>1, MonthLengths, DaysOfMonth
<1>2. F(0) = FirstDay(m) /\ F(0) \in Nat
  BY MonthLengths, m - 0 = m
<1>3. /\ F(0) = F(1) + D(1) /\ F(1) = F(2) + D(2) /\ F(2) = F(3) + D(3)
      /\ F(3) = F(4) + D(4) /\ F(4) = F(5) + D(5)
      /\ F(1) \in Nat /\ F(2) \in Nat /\ F(3) \in Nat /\ F(4) \in Nat /\ F(5) \in Nat
      /\ D(1) \in 28..31 /\ D(2) \in 28..31 /\ D(3) \in 28..31 /\ D(4) \in 28..31
      /\ D(5) \in 28..31
  BY <1>1, 1 - 1 = 0, 2 - 1 = 1, 3 - 1 = 2, 4 - 1 = 3, 5 - 1 = 4
<1>4. /\ D(1) >= 30 /\ D(1) + D(2) >= 60 /\ D(1) + D(2) + D(3) >= 90
      /\ D(1) + D(2) + D(3) + D(4) >= 120
      /\ D(1) + D(2) + D(3) + D(4) + D(5) >= 150
  <2>1. CASE m % 12 = 5
    <3>1. /\ (m - 1) % 12 = 4 /\ (m - 2) % 12 = 3 /\ (m - 3) % 12 = 2
          /\ (m - 5) % 12 = 0
      BY <2>1
    <3>2. D(1) = 31 /\ D(2) >= 30 /\ D(3) = 31 /\ D(5) = 31
      BY <1>1, <3>1
    <3> HIDE DEF D
    <3> QED BY <1>3, <3>2
  <2>2. CASE m % 12 = 6
    <3>1. /\ (m - 1) % 12 = 5 /\ (m - 2) % 12 = 4 /\ (m - 3) % 12 = 3
          /\ (m - 4) % 12 = 2
      BY <2>2
    <3>2. D(1) >= 30 /\ D(2) = 31 /\ D(3) >= 30 /\ D(4) = 31
      BY <1>1, <3>1
    <3> HIDE DEF D
    <3> QED BY <1>3, <3>2
  <2>3. CASE m % 12 \notin {5, 6}
    <3>1. /\ (m - 1) % 12 # 1 /\ (m - 2) % 12 # 1 /\ (m - 3) % 12 # 1
          /\ (m - 4) % 12 # 1 /\ (m - 5) % 12 # 1
      BY <2>3
    <3>2. D(1) >= 30 /\ D(2) >= 30 /\ D(3) >= 30 /\ D(4) >= 30 /\ D(5) >= 30
      BY <1>1, <3>1
    <3> HIDE DEF D
    <3> QED BY <1>3, <3>2
  <2> QED BY <2>1, <2>2, <2>3
<1> HIDE DEF F, D
<1>5. /\ F(i) <= F(0) - 30 * i
      /\ i > 0 => F(0) - 30 * i < F(i - 1)
  <2>1. CASE i = 0
    BY <1>2, <2>1
  <2>2. CASE i = 1
    BY <1>2, <1>3, <1>4, <2>2
  <2>3. CASE i = 2
    BY <1>2, <1>3, <1>4, <2>3
  <2>4. CASE i = 3
    BY <1>2, <1>3, <1>4, <2>4
  <2>5. CASE i = 4
    BY <1>2, <1>3, <1>4, <2>5
  <2>6. CASE i = 5
    BY <1>2, <1>3, <1>4, <2>6
  <2> QED BY <2>1, <2>2, <2>3, <2>4, <2>5, <2>6
<1>6. m - i \in Nat /\ (i > 0 => m - (i - 1) = (m - i) + 1) /\ F(i) \in Nat
  <2>1. m - i \in Nat /\ (i > 0 => m - (i - 1) = (m - i) + 1)
    OBVIOUS
  <2> QED BY <2>1, MonthLengths DEF F
<1>7. FirstDay(m) - 30 * i \in Nat
  BY <1>2, <1>5, <1>6
<1>8. FirstDay(m) - 30 * i < FirstDay((m - i) + 1)
  <2>1. CASE i = 0
    BY <1>2, <2>1, MonthsInOrder, MonthLengths, m - 0 = m, m + 1 \in Nat, m < m + 1
  <2>2. CASE i > 0
    BY <1>2, <1>5, <1>6, <2>2 DEF F
  <2> QED BY <2>1, <2>2
<1> QED BY <1>2, <1>5, <1>6, <1>7, <1>8 DEF F

LEMMA TimesTick ==
  ASSUME NEW a \in Int, NEW b \in Int
  PROVE  /\ (a - b) * Tick = a * Tick - b * Tick
         /\ (a + b) * Tick = a * Tick + b * Tick
         /\ a * Tick \in Int
         /\ a <= b => a * Tick <= b * Tick
  BY MonthConstants

\* The first of month k at the time of day of now.
First(k) == FirstDay(k) * Tick + (now % Tick)

MonthInv == now \in Nat /\ FirstDay(5) * Tick <= now

LEMMA ThisMonth ==
  ASSUME MonthInv
  PROVE  /\ MonthOf(now) \in Nat /\ MonthOf(now) >= 5
         /\ OnTheFirst(now) = First(MonthOf(now))
         /\ FirstDay(MonthOf(now)) * Tick <= now
         /\ now < FirstDay(MonthOf(now) + 1) * Tick
         /\ now % Tick \in Nat /\ now % Tick < Tick
<1>1. PICK d \in Nat, r \in Nat : r < Tick /\ now = d * Tick + r
  BY EveryTime DEF MonthInv
<1>2. PICK k \in Nat : FirstDay(k) <= d /\ d < FirstDay(k + 1)
  BY EveryDayHasAMonth
<1>3. MonthOf(now) = k /\ OnTheFirst(now) = FirstDay(k) * Tick + r /\ now % Tick = r
  BY <1>1, <1>2, MonthOfDay, DayAndTime
<1>4. FirstDay(k) \in Nat /\ FirstDay(k + 1) \in Nat /\ FirstDay(5) \in Nat
  BY MonthLengths, k + 1 \in Nat
<1>5. FirstDay(k) * Tick <= now /\ now < FirstDay(k + 1) * Tick
  <2>1. FirstDay(k) * Tick <= d * Tick /\ (d + 1) * Tick <= FirstDay(k + 1) * Tick
    <3>1. /\ d + 1 \in Int /\ d \in Int /\ d + 1 <= FirstDay(k + 1)
          /\ FirstDay(k) \in Int /\ FirstDay(k + 1) \in Int
      BY <1>2, <1>4
    <3>2. FirstDay(k) * Tick <= d * Tick
      BY <1>2, <3>1, TimesTick
    <3>3. (d + 1) * Tick <= FirstDay(k + 1) * Tick
      BY <3>1, TimesTick
    <3> QED BY <3>2, <3>3
  <2>2. (d + 1) * Tick = d * Tick + Tick /\ d * Tick \in Int
    BY MonthConstants
  <2>3. FirstDay(k) * Tick \in Int /\ FirstDay(k + 1) * Tick \in Int
    BY <1>4, TimesTick
  <2> QED BY <1>1, <2>1, <2>2, <2>3, MonthConstants
<1>6. k >= 5
  <2> SUFFICES ASSUME k < 5 PROVE FALSE
    OBVIOUS
  <2>1. FirstDay(k + 1) <= FirstDay(5)
    <3>1. k + 1 = 5 \/ k + 1 < 5
      OBVIOUS
    <3> QED BY <1>4, <3>1, MonthsInOrder, k + 1 \in Nat, 5 \in Nat
  <2>2. FirstDay(k + 1) * Tick <= FirstDay(5) * Tick
    BY <1>4, <2>1, TimesTick
  <2>3. FirstDay(k + 1) * Tick \in Int /\ FirstDay(5) * Tick \in Int
    BY <1>4, TimesTick
  <2> QED BY <1>5, <2>2, <2>3 DEF MonthInv
<1> QED BY <1>1, <1>3, <1>5, <1>6 DEF First

LEMMA Buckets ==
  ASSUME MonthInv, ~InSpring, NEW i \in 0..5,
         NEW m, m = MonthOf(now)
  PROVE  /\ m - i \in Nat
         /\ Start(i) = First(m - i)
         /\ Label(i) = m - i
         /\ i > 0 => End(i) = First((m - i) + 1)
<1>1. /\ m \in Nat /\ m >= 5 /\ m % 12 \notin {2, 3, 4}
      /\ OnTheFirst(now) = First(m)
      /\ now % Tick \in Nat /\ now % Tick < Tick
  BY ThisMonth DEF InSpring
<1> DEFINE r == now % Tick
           a == FirstDay(m) - 30 * i
<1>2. /\ m - i \in Nat /\ a \in Nat
      /\ FirstDay(m - i) <= a /\ a < FirstDay((m - i) + 1)
  BY <1>1, BackMonths
<1>3. Start(i) = First(m - i)
  <2>1. First(m) - 30 * i * Tick = a * Tick + r
    <3>1. FirstDay(m) \in Int /\ 30 * i \in Int
      BY <1>1, MonthLengths
    <3>2. a * Tick = FirstDay(m) * Tick - (30 * i) * Tick
          /\ FirstDay(m) * Tick \in Int /\ (30 * i) * Tick \in Int
      BY <3>1, TimesTick
    <3> QED BY <1>1, <3>2 DEF First
  <2>2. OnTheFirst(a * Tick + r) = FirstDay(m - i) * Tick + r
    <3> HIDE DEF a, r
    <3> QED BY <1>1, <1>2, MonthOfDay DEF r
  <2> QED BY <1>1, <2>1, <2>2 DEF Start, First
<1>4. Label(i) = m - i
  <2>1. FirstDay(m - i) \in Nat /\ FirstDay(m - i) < FirstDay((m - i) + 1)
    BY <1>2, MonthLengths, MonthsInOrder, (m - i) + 1 \in Nat, m - i < (m - i) + 1
  <2>2. MonthOf(First(m - i)) = m - i
    BY <1>1, <1>2, <2>1, MonthOfDay DEF First
  <2> QED BY <1>3, <2>2 DEF Label
<1>5. i > 0 => End(i) = First((m - i) + 1)
  <2> DEFINE k == m - i
             b == FirstDay(k) + 32
  <2>1. k \in Nat /\ k + 1 \in Nat /\ FirstDay(k) \in Nat
    BY <1>2, MonthLengths
  <2> HIDE DEF k
  <2>2. b \in Nat /\ FirstDay(k + 1) <= b /\ b < FirstDay((k + 1) + 1)
    <3>1. /\ FirstDay(k + 1) = FirstDay(k) + Days(k)
          /\ FirstDay((k + 1) + 1) = FirstDay(k + 1) + Days(k + 1)
      BY <2>1, MonthLengths
    <3>2. Days(k) \in 28..31 /\ Days(k + 1) \in 28..31
      BY <2>1, DaysOfMonth
    <3> QED BY <2>1, <3>1, <3>2
  <2>3. First(k) + 32 * Tick = b * Tick + r
    <3>1. b * Tick = FirstDay(k) * Tick + 32 * Tick /\ FirstDay(k) * Tick \in Int
          /\ 32 * Tick \in Int
      <4>1. FirstDay(k) \in Int /\ 32 \in Int
        BY <2>1
      <4> QED BY <4>1, TimesTick
    <3> QED BY <1>1, <3>1 DEF First
  <2>4. OnTheFirst(b * Tick + r) = FirstDay(k + 1) * Tick + r
    <3> HIDE DEF b
    <3> QED BY <1>1, <2>1, <2>2, MonthOfDay
  <2>5. Start(i) = First(k)
    BY <1>3 DEF k
  <2> QED BY <2>3, <2>4, <2>5 DEF End, NextFirst, First, k
<1> QED BY <1>2, <1>3, <1>4, <1>5

LEMMA MonthInvHolds == MonthSpec => []MonthInv
<1>1. MonthInit => MonthInv
  <2> SUFFICES ASSUME MonthInit PROVE MonthInv
    OBVIOUS
  <2>1. FirstDay(5) \in Int /\ FirstDay(FirstMonth) \in Nat /\ FirstDay(FirstMonth) \in Int
    BY MonthConstants, MonthLengths, 5 \in Nat
  <2>2. FirstDay(5) <= FirstDay(FirstMonth)
    <3>1. FirstMonth = 5 \/ 5 < FirstMonth
      BY MonthConstants
    <3> QED BY <2>1, <3>1, MonthConstants, MonthsInOrder, 5 \in Nat
  <2>3. FirstDay(5) * Tick <= FirstDay(FirstMonth) * Tick
    BY <2>1, <2>2, TimesTick
  <2>4. FirstDay(FirstMonth) * Tick \in Nat
    BY <2>1, MonthConstants
  <2> QED BY <2>3, <2>4 DEF MonthInit, MonthInv
<1>2. MonthInv /\ [MonthNext]_monthVars => MonthInv'
  <2> SUFFICES ASSUME MonthInv, [MonthNext]_monthVars PROVE MonthInv'
    OBVIOUS
  <2>1. now' = now \/ now' = now + 1
    BY DEF MonthNext, Later, monthVars
  <2>2. FirstDay(5) * Tick \in Int
    BY MonthLengths, MonthConstants, 5 \in Nat
  <2> QED BY <2>1, <2>2 DEF MonthInv
<1> QED BY <1>1, <1>2, PTL DEF MonthSpec

\* In every month but March, April and May the six buckets are the last six
\* months and join, in every year and whatever the time of day (monthly buckets
\* of dashboard_stats).
THEOREM BucketsAlwaysJoin == MonthSpec => []BucketsJoin
<1>1. MonthInv => BucketsJoin
  <2> SUFFICES ASSUME MonthInv, ~InSpring
               PROVE  LastSixMonths /\ \A i \in 1..5 : End(i) = Start(i - 1)
    BY DEF BucketsJoin
  <2>1. LastSixMonths
    BY Buckets DEF LastSixMonths
  <2>2. ASSUME NEW i \in 1..5 PROVE End(i) = Start(i - 1)
    <3> DEFINE m == MonthOf(now)
    <3>1. End(i) = First((m - i) + 1)
      BY Buckets, i \in 0..5, i > 0
    <3>2. Start(i - 1) = First(m - (i - 1))
      BY Buckets, i - 1 \in 0..5
    <3>3. m - (i - 1) = (m - i) + 1
      <4>1. m \in Nat
        BY ThisMonth
      <4> HIDE DEF m
      <4> QED BY <4>1
    <3> QED BY <3>1, <3>2, <3>3
  <2> QED BY <2>1, <2>2
<1> QED BY <1>1, MonthInvHolds, PTL

\* Any time in a bucket, not only its first and last, lies in the month of its
\* label, or on the first of the next one earlier in the day than now.
LEMMA BucketMonth ==
  ASSUME MonthInv, ~InSpring, NEW i \in 0..5, NEW t \in Int, InBucket(t, i)
  PROVE  \/ MonthOf(t) = Label(i)
         \/ /\ MonthOf(t) = Label(i) + 1
            /\ t - FirstDay(MonthOf(t)) * Tick < now % Tick
<1> DEFINE m == MonthOf(now)
           k == m - i
           r == now % Tick
<1>1. /\ m \in Nat /\ now < FirstDay(m + 1) * Tick
      /\ r \in Nat /\ r < Tick
  BY ThisMonth
<1>2. k \in Nat /\ Start(i) = First(k) /\ Label(i) = k /\ (i > 0 => End(i) = First(k + 1))
  BY Buckets
<1> HIDE DEF m
<1>3. /\ FirstDay(k) \in Nat /\ FirstDay(k + 1) \in Nat /\ FirstDay((k + 1) + 1) \in Nat
      /\ FirstDay(k) < FirstDay(k + 1) /\ FirstDay(k + 1) < FirstDay((k + 1) + 1)
  BY <1>2, MonthLengths, MonthsInOrder, k + 1 \in Nat, (k + 1) + 1 \in Nat, k < k + 1,
     k + 1 < (k + 1) + 1
<1>4. /\ FirstDay(k) * Tick \in Int /\ FirstDay(k + 1) * Tick \in Int
      /\ FirstDay(k) * Tick >= 0
  <2>1. FirstDay(k) * Tick \in Nat /\ FirstDay(k + 1) * Tick \in Nat
    BY <1>3, MonthConstants
  <2> QED BY <2>1
<1>5. FirstDay(k) * Tick + r <= t
  BY <1>2 DEF InBucket, First
<1>6. t < FirstDay(k + 1) * Tick + r
  <2>1. CASE i = 0
    <3>1. k = m
      BY <1>1, <2>1
    <3> QED BY <1>1, <1>4, <2>1, <3>1 DEF InBucket, End, MonthInv
  <2>2. CASE i > 0
    BY <1>2, <2>2 DEF InBucket, First
  <2> QED BY <2>1, <2>2
<1> HIDE DEF k, r
<1>7. PICK d \in Nat, s \in Nat : s < Tick /\ t = d * Tick + s
  <2>1. t \in Nat
    BY <1>1, <1>4, <1>5
  <2> QED BY <2>1, EveryTime
<1>8. d \in Int /\ d + 1 \in Int /\ d * Tick \in Int /\ (d + 1) * Tick = d * Tick + Tick
      /\ Tick \in Nat
  <2>1. d \in Int /\ 1 \in Int /\ Tick \in Nat /\ 1 * Tick = Tick
    BY MonthConstants
  <2> QED BY <2>1, TimesTick
<1>9. FirstDay(k) <= d
  <2> SUFFICES ASSUME d + 1 <= FirstDay(k) PROVE FALSE
    BY <1>3, <1>7
  <2>1. (d + 1) * Tick <= FirstDay(k) * Tick
    BY <1>3, <1>8, TimesTick, FirstDay(k) \in Int
  <2> QED BY <1>1, <1>4, <1>5, <1>7, <1>8, <2>1
<1>10. CASE d < FirstDay(k + 1)
  BY <1>2, <1>7, <1>9, <1>10, MonthOfDay
<1>11. CASE FirstDay(k + 1) <= d
  <2>1. d <= FirstDay(k + 1)
    <3> SUFFICES ASSUME FirstDay(k + 1) + 1 <= d PROVE FALSE
      BY <1>3, <1>7
    <3>1. /\ FirstDay(k + 1) \in Int /\ 1 \in Int /\ FirstDay(k + 1) + 1 \in Int
          /\ 1 * Tick = Tick
      BY <1>3, <1>8
    <3>2. (FirstDay(k + 1) + 1) * Tick <= d * Tick
      BY <1>8, <3>1, TimesTick
    <3>3. (FirstDay(k + 1) + 1) * Tick = FirstDay(k + 1) * Tick + Tick
      BY <3>1, TimesTick
    <3> QED BY <1>1, <1>4, <1>6, <1>7, <1>8, <3>2, <3>3
  <2>2. d = FirstDay(k + 1)
    BY <1>3, <1>7, <1>11, <2>1
  <2>3. MonthOf(t) = k + 1
    BY <1>2, <1>3, <1>7, <2>2, MonthOfDay, k + 1 \in Nat
  <2>4. t - FirstDay(k + 1) * Tick < r
    BY <1>1, <1>4, <1>6, <1>7
  <2> QED BY <1>2, <2>3, <2>4 DEF r
<1> QED BY <1>3, <1>7, <1>10, <1>11

\* Outside March, April and May a claim is shown under its own month, or under the
\* month before if it was made on a first earlier in the day than now.
THEOREM ShownWhereMade == MonthSpec => []ShownInItsMonth
<1>1. MonthInv => ShownInItsMonth
  <2> SUFFICES ASSUME MonthInv, ~InSpring, NEW i \in 0..5,
                      NEW t \in {Start(i), End(i) - 1}, InBucket(t, i)
               PROVE  \/ MonthOf(t) = Label(i)
                      \/ /\ MonthOf(t) = Label(i) + 1
                         /\ t - FirstDay(MonthOf(t)) * Tick < now % Tick
    BY DEF ShownInItsMonth
  <2>1. t \in Int
    <3> DEFINE m == MonthOf(now)
    <3>1. Start(i) = First(m - i) /\ m - i \in Nat /\ (i > 0 => End(i) = First((m - i) + 1))
      BY Buckets
    <3>2. \A k \in Nat : First(k) \in Int
      <4>1. now % Tick \in Nat
        BY ThisMonth
      <4> QED BY <4>1, MonthLengths, MonthConstants DEF First
    <3>3. i = 0 => End(i) = now
      BY DEF End
    <3> HIDE DEF m
    <3>4. Start(i) \in Int /\ End(i) \in Int
      BY <3>1, <3>2, <3>3 DEF MonthInv
    <3> QED BY <3>4
  <2> QED BY <2>1, BucketMonth
<1> QED BY <1>1, MonthInvHolds, PTL

\* In March the second bucket is not February, in any year: going back thirty days
\* from the first of March leads past it (dashboard_stats; the disagreement with
\* its "last 6 months" is no matter of the years looked at).
MarchSkipsFebruary == MonthOf(now) % 12 = 2 => Label(1) = MonthOf(now) - 2

THEOREM MarchAlwaysSkips == MonthSpec => []MarchSkipsFebruary
<1>1. MonthInv => MarchSkipsFebruary
  <2> SUFFICES ASSUME MonthInv, MonthOf(now) % 12 = 2
               PROVE  Label(1) = MonthOf(now) - 2
    BY DEF MarchSkipsFebruary
  <2>1. PICK m \in Nat : /\ m = MonthOf(now) /\ m >= 5 /\ OnTheFirst(now) = First(m)
    BY ThisMonth
  <2>2. PICK r \in Nat : r = now % Tick /\ r < Tick
    BY ThisMonth
  <2>3. PICK k \in Nat : k + 2 = m /\ k % 12 = 0 /\ (k + 1) % 12 = 1
    <3>1. m - 2 \in Nat /\ (m - 2) % 12 = 0 /\ (m - 1) % 12 = 1 /\ (m - 2) + 1 = m - 1
          /\ (m - 2) + 2 = m
      BY <2>1
    <3> QED BY <3>1
  <2> DEFINE a == FirstDay(m) - 30
  <2>4. a \in Nat /\ FirstDay(k) <= a /\ a < FirstDay(k + 1) /\ FirstDay(m) \in Nat
    <3>1. /\ FirstDay(k + 1) = FirstDay(k) + Days(k) /\ FirstDay(k) \in Nat
          /\ FirstDay(m) = FirstDay(k + 1) + Days(k + 1)
      BY <2>3, MonthLengths, k + 1 \in Nat, (k + 1) + 1 = m
    <3>2. Days(k) = 31 /\ Days(k + 1) \in {28, 29}
      BY <2>3 DEF Days
    <3> QED BY <3>1, <3>2
  <2>5. First(m) - 30 * 1 * Tick = a * Tick + r
    <3>1. FirstDay(m) \in Int /\ 30 \in Int
      BY <2>4
    <3>2. /\ (FirstDay(m) - 30) * Tick = FirstDay(m) * Tick - 30 * Tick
          /\ FirstDay(m) * Tick \in Int /\ 30 * Tick \in Int
      BY <3>1, TimesTick
    <3>3. 30 * 1 * Tick = 30 * Tick
      BY MonthConstants
    <3>4. First(m) = FirstDay(m) * Tick + r
      BY <2>2 DEF First
    <3> QED BY <2>2, <3>2, <3>3, <3>4
  <2> HIDE DEF a
  <2>6. Start(1) = FirstDay(k) * Tick + r
    BY <2>1, <2>2, <2>4, <2>5, MonthOfDay DEF Start
  <2>7. FirstDay(k) < FirstDay(k + 1) /\ FirstDay(k) \in Nat
    BY MonthLengths, MonthsInOrder, k + 1 \in Nat, k < k + 1
  <2>8. MonthOf(FirstDay(k) * Tick + r) = k
    BY <2>2, <2>7, MonthOfDay
  <2> QED BY <2>1, <2>3, <2>6, <2>8 DEF Label
<1> QED BY <1>1, MonthInvHolds, PTL

=============================================================================
