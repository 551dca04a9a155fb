---------------------------- MODULE SessionStore ----------------------------
(***************************************************************************)
(* What authentication promises: a sign-in opens a session, which at any   *)
(* time has one refresh token; using the token replaces it; signing out,   *)
(* or choosing a new password with a reset link that was not used before,  *)
(* ends sessions.  Every request takes effect at once.                     *)
(***************************************************************************)
EXTENDS Naturals

CONSTANTS User, Token, Reset,
          Nil              \* no user, no token

VARIABLES active,           \* the accounts that may be used
          password,         \* user -> version of the password; 0: no account
          owner,            \* session -> who signed in; named by its first token
          current,          \* session -> its refresh token, Nil when it is over
          issued,           \* refresh tokens handed out so far
          pending           \* reset link -> who may use it once

vars == <<active, password, owner, current, issued, pending>>

Init ==
  /\ active = {}
  /\ password = [u \in User |-> 0]
  /\ owner = [f \in Token |-> Nil]
  /\ current = [f \in Token |-> Nil]
  /\ issued = {}
  /\ pending = [r \in Reset |-> Nil]

\* The sessions of a user end; a session is given a token never used before.
End(u) == current' = [f \in Token |-> IF owner[f] = u THEN Nil ELSE current[f]]

Issue(f, n) ==
  /\ n \notin issued
  /\ issued' = issued \union {n}
  /\ current' = [current EXCEPT ![f] = n]

Register(u) ==
  /\ password[u] = 0
  /\ password' = [password EXCEPT ![u] = 1]
  /\ active' = active \union {u}
  /\ UNCHANGED <<owner, current, issued, pending>>

SetActive(u, b) ==
  /\ password[u] > 0
  /\ active' = IF b THEN active \union {u} ELSE active \ {u}
  /\ UNCHANGED <<password, owner, current, issued, pending>>

SignIn(u, f) ==
  /\ u \in active
  /\ owner' = [owner EXCEPT ![f] = u]
  /\ Issue(f, f)
  /\ UNCHANGED <<active, password, pending>>

Rotate(f, n) ==
  /\ current[f] # Nil
  /\ owner[f] \in active
  /\ Issue(f, n)
  /\ UNCHANGED <<active, password, owner, pending>>

SignOut(f) ==
  /\ owner[f] \in active
  /\ current' = [current EXCEPT ![f] = Nil]
  /\ UNCHANGED <<active, password, owner, issued, pending>>

SignOutAll(u) ==
  /\ u \in active
  /\ End(u)
  /\ UNCHANGED <<active, password, owner, issued, pending>>

Forget(u, r) ==
  /\ password[u] > 0
  /\ pending[r] = Nil
  /\ pending' = [pending EXCEPT ![r] = u]
  /\ UNCHANGED <<active, password, owner, current, issued>>

NewPassword(r) ==
  /\ pending[r] # Nil
  /\ password' = [password EXCEPT ![pending[r]] = @ + 1]
  /\ pending' = [pending EXCEPT ![r] = Nil]
  /\ End(pending[r])
  /\ UNCHANGED <<active, owner, issued>>

Next ==
  \/ \E u \in User :
       \/ Register(u)
       \/ SignOutAll(u)
       \/ \E b \in BOOLEAN : SetActive(u, b)
       \/ \E f \in Token : SignIn(u, f)
       \/ \E r \in Reset : Forget(u, r)
  \/ \E f \in Token :
       \/ SignOut(f)
       \/ \E n \in Token : Rotate(f, n)
  \/ \E r \in Reset : NewPassword(r)

Spec == Init /\ [][Next]_vars

=============================================================================
