----------------------------- MODULE Dashboard -----------------------------
(***************************************************************************)
(* The counters of the administrators' dashboard.  dashboard_stats reads   *)
(* them with one statement each; at READ COMMITTED every statement sees    *)
(* the claims as they are when it starts, and claims move in between:      *)
(* along the transition table, or any way at all, when an administrator    *)
(* overrides the table or a decision on a stale copy overwrites another.   *)
(* Every statement is modelled by the set of claims it selects.            *)
(***************************************************************************)
EXTENDS Naturals, FiniteSets

LOCAL INSTANCE ClaimWorkflow

CONSTANTS Entry,      \* claims
          MaxMoves    \* bound: moves of claims in one behaviour

VARIABLES
  state,      \* claim -> committed status
  reading,    \* the statement to come: "total", "pending", ...; "idle", "done"
  counted,    \* counter -> the claims its statement selected
  begun,      \* auxiliary: the claims that had left draft when the reading began
  strayed,    \* auxiliary: the claims moved off the table since the reading began
  moves       \* moves so far

dashVars == <<state, reading, counted, begun, strayed, moves>>

Counter == {"total", "pending", "approved", "rejected"}

\* Mutant of ApprovedStatuses: a claim waiting for its payment is pending only.
DecidedStatuses == {"approved", "paid"}

PendingStatuses ==
  {"submitted", "ai_processing", "fraud_review", "surveyor_review", "payment_pending"}
ApprovedStatuses == {"approved", "paid", "payment_pending"}

With(statuses) == {c \in Entry : state[c] \in statuses}

DashInit ==
  /\ state = [c \in Entry |-> "draft"]
  /\ reading = "idle"
  /\ counted = [k \in Counter |-> {}]
  /\ begun = {}
  /\ strayed = {}
  /\ moves = 0

\* Staff take one transition at a time; a submission commits its three as one.
Successors(status) ==
  ValidTransitions[status] \union
  (IF status = "draft" THEN {"fraud_review", "surveyor_review"} ELSE {})

Advance(c) ==
  /\ moves < MaxMoves
  /\ \E to \in Successors(state[c]) : state' = [state EXCEPT ![c] = to]
  /\ moves' = moves + 1
  /\ UNCHANGED <<reading, counted, begun, strayed>>

Stray(c) ==
  /\ moves < MaxMoves
  /\ \E to \in Status \ (Successors(state[c]) \union {state[c]}) :
       state' = [state EXCEPT ![c] = to]
  /\ strayed' = strayed \union {c}
  /\ moves' = moves + 1
  /\ UNCHANGED <<reading, counted, begun>>

Select(counter, statuses, next) ==
  /\ reading = counter
  /\ counted' = [counted EXCEPT ![counter] = With(statuses)]
  /\ reading' = next
  /\ UNCHANGED <<state, begun, strayed, moves>>

OpenDashboard ==
  /\ reading \in {"idle", "done"}
  /\ reading' = "total"
  /\ begun' = {c \in Entry : state[c] # "draft"}
  /\ strayed' = {}
  /\ counted' = [k \in Counter |-> {}]
  /\ UNCHANGED <<state, moves>>

SelectTotal == Select("total", Status, "pending")
SelectPending == Select("pending", PendingStatuses, "approved")
SelectApproved == Select("approved", ApprovedStatuses, "rejected")
SelectRejected == Select("rejected", {"rejected"}, "done")

DashNext ==
  \/ OpenDashboard
  \/ SelectTotal
  \/ SelectPending
  \/ SelectApproved
  \/ SelectRejected
  \/ \E c \in Entry : Advance(c) \/ Stray(c)

DashSpec == DashInit /\ [][DashNext]_dashVars

-----------------------------------------------------------------------------
\* The statements run in the direction in which claims move along the table: a
\* claim that was under way when the dashboard was opened, and is not closed when
\* it is shown, is on it in at least one counter, unless it has been moved off the
\* table meanwhile.  (One that is approved while "pending" is counted, and sent
\* back by a stale decision before "approved" is, is on none.)
NoClaimIsMissed ==
  reading = "done" =>
    \A c \in begun :
      \/ c \in counted["pending"] \union counted["approved"] \union counted["rejected"]
      \/ state[c] = "closed"
      \/ c \in strayed

=============================================================================
