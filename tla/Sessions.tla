------------------------------ MODULE Sessions ------------------------------
(***************************************************************************)
(* The authentication service as it runs: rows of users, refresh tokens    *)
(* and reset links, and requests that interleave where a handler awaits    *)
(* the database.  A handler SELECTs what it needs, decides on its copy,    *)
(* and its writes become visible when get_db commits; an exception rolls   *)
(* them back.  A revoking UPDATE reaches the tokens its snapshot saw.      *)
(*                                                                         *)
(* The lock of a user's row is held from its UPDATE to the end of the      *)
(* request.  Locks of token rows are not modelled: writers of a token      *)
(* write the same value or, in replaced_by, the later one wins.  A token   *)
(* or link that has expired is refused, like an unknown one.               *)
(***************************************************************************)
EXTENDS Naturals, FiniteSets

CONSTANTS User,
          Token,        \* refresh tokens, by jti; one value per token created
          Reset,        \* reset links, by token; one value per request
          Slot,         \* database sessions that may be open at the same time
          Threshold,    \* LOCKOUT_THRESHOLD
          MaxRequests,  \* bound: requests accepted in one behaviour
          Nil

ASSUME SessionConstants ==
  /\ Nil \notin User \union Token \union Reset
  /\ Threshold \in Nat \ {0}
  /\ MaxRequests \in Nat

VARIABLES
  users,      \* table users: user -> committed row
  tokens,     \* table refresh_tokens: token -> committed row
  resets,     \* table password_resets: link -> committed row
  txn,        \* slot -> the request it is serving
  refused,    \* auxiliary: user -> passwords refused since the last sign-in
  requests    \* requests accepted so far

vars == <<users, tokens, resets, txn, refused, requests>>

-----------------------------------------------------------------------------
\* Rows.  The password is the version of its hash, 0 while there is no
\* account; locked_until is reduced to whether it is set.

UserRow == [active : BOOLEAN, password : Nat, failed : Nat, locked : BOOLEAN]

\* Mutant of NoUser: the counter of failed logins has no default.
NullCounter == [active |-> FALSE, password |-> 0, failed |-> Nil, locked |-> FALSE]

NoUser == [active |-> FALSE, password |-> 0, failed |-> 0, locked |-> FALSE]

\* A family is named by its first token.  since is auxiliary: the version of
\* the password that the sign-in of the family was checked against.
TokenRow == [user    : User \union {Nil},
             family  : Token \union {Nil},
             revoked : BOOLEAN,
             next    : Token \union {Nil},
             since   : Nat]
NoToken == [user |-> Nil, family |-> Nil, revoked |-> FALSE, next |-> Nil,
            since |-> 0]

ResetRow == [user : User \union {Nil}, used : BOOLEAN]
NoReset == [user |-> Nil, used |-> FALSE]

\* A request being served: the user row as the handler holds it, the token or
\* link it presented, the tokens a revoking UPDATE has reached.
Phase == {"login", "refused", "token", "refresh", "reuse", "reset", "revoke"}
BusyTxn == [pc      : Phase,
            user    : User,
            account : UserRow,
            token   : Token \union {Nil},
            reset   : Reset \union {Nil},
            targets : SUBSET Token]
IdleTxn == [pc |-> "idle", user |-> Nil, account |-> NoUser,
            token |-> Nil, reset |-> Nil, targets |-> {}]

Init ==
  /\ users = [u \in User |-> NoUser]
  /\ tokens = [t \in Token |-> NoToken]
  /\ resets = [r \in Reset |-> NoReset]
  /\ txn = [s \in Slot |-> IdleTxn]
  /\ refused = [u \in User |-> 0]
  /\ requests = 0

-----------------------------------------------------------------------------
\* Helpers of the handlers.

Registered(u) == users[u].password > 0
Issued == {t \in Token : tokens[t].user # Nil}
Live == {t \in Issued : ~tokens[t].revoked}
TokensOf(u) == {t \in Token : tokens[t].user = u}
Family(f) == {t \in Issued : tokens[t].family = f}

\* Mutant of Fresh: the jti of a token is derived from its predecessor.
DerivedJti(t) == TRUE

\* create_refresh_token: the jti is a new uuid.
Fresh(t) == t \notin Issued

\* A request arrives at a free database session, is answered within it, or
\* leaves a handler waiting there.
Accept(s) ==
  /\ txn[s].pc = "idle"
  /\ requests < MaxRequests
  /\ requests' = requests + 1

Serve(s, phase, u, account, t, r, targets) ==
  txn' = [txn EXCEPT ![s] =
    [pc |-> phase, user |-> u, account |-> account, token |-> t, reset |-> r,
     targets |-> targets]]

Release(s) == txn' = [txn EXCEPT ![s] = IdleTxn]

\* The row lock of a user: held by a request that has flushed an UPDATE of it.
Held(u) ==
  \E s \in Slot :
    /\ txn[s].user = u
    /\ \/ txn[s].pc = "refused"
       \/ txn[s].pc = "revoke" /\ txn[s].reset # Nil

\* UPDATE refresh_tokens SET revoked = true WHERE ...
Revoke(targets) ==
  tokens' = [t \in Token |->
    IF t \in targets THEN [tokens[t] EXCEPT !.revoked = TRUE] ELSE tokens[t]]

-----------------------------------------------------------------------------
\* register_user and the administrator's create_user: one INSERT; the unique
\* index on the address refuses a second one.

Register(s, u) ==
  /\ Accept(s)
  /\ ~Registered(u)
  /\ users' = [users EXCEPT ![u].active = TRUE, ![u].password = 1]
  /\ UNCHANGED <<tokens, resets, txn, refused>>

\* The administrator's update_user, of is_active.
SetActive(s, u, b) ==
  /\ Accept(s)
  /\ Registered(u)
  /\ ~Held(u)
  /\ users' = [users EXCEPT ![u].active = b]
  /\ UNCHANGED <<tokens, resets, txn, refused>>

-----------------------------------------------------------------------------
\* authenticate.

\* Mutant of MayLogin: is_active is not looked at.
UnlockedOnly(u) == Registered(u) /\ ~users[u].locked

MayLogin(u) == Registered(u) /\ ~users[u].locked /\ users[u].active

LoadForLogin(s, u) ==
  /\ Accept(s)
  /\ MayLogin(u)
  /\ Serve(s, "login", u, [users[u] EXCEPT !.failed = 0, !.locked = FALSE],
           Nil, Nil, {})
  /\ UNCHANGED <<users, tokens, resets, refused>>

\* UPDATE of the user, INSERT of the first token of a new family.
CommitLogin(s, n) ==
  /\ txn[s].pc = "login"
  /\ ~Held(txn[s].user)
  /\ Fresh(n)
  /\ LET t == txn[s] IN
       /\ users' = [users EXCEPT ![t.user].failed = t.account.failed,
                                 ![t.user].locked = t.account.locked]
       /\ tokens' = [tokens EXCEPT ![n] =
            [user |-> t.user, family |-> n, revoked |-> FALSE, next |-> Nil,
             since |-> t.account.password]]
       /\ refused' = [refused EXCEPT ![t.user] = 0]
  /\ Release(s)
  /\ UNCHANGED <<resets, requests>>

\* A wrong password: the attempt is counted in the handler's copy and flushed.
Counted(row) ==
  [row EXCEPT !.failed = @ + 1, !.locked = @ \/ row.failed + 1 >= Threshold]

RefusePassword(s, u) ==
  /\ Accept(s)
  /\ MayLogin(u)
  /\ ~Held(u)
  /\ Serve(s, "refused", u, Counted(users[u]), Nil, Nil, {})
  /\ UNCHANGED <<users, tokens, resets, refused>>

\* "Invalid credentials" is an exception: get_db rolls the count back.
AnswerRefused(s) ==
  /\ txn[s].pc = "refused"
  /\ refused' = [refused EXCEPT ![txn[s].user] = @ + 1]
  /\ Release(s)
  /\ UNCHANGED <<users, tokens, resets, requests>>

-----------------------------------------------------------------------------
\* refresh_session.

\* The row of the token first, then, by a SELECT of its own, its user.
LoadForRefresh(s, t) ==
  /\ Accept(s)
  /\ t \in Live
  /\ Serve(s, "token", tokens[t].user, NoUser, t, Nil, {})
  /\ UNCHANGED <<users, tokens, resets, refused>>

FindOwner(s) ==
  /\ txn[s].pc = "token"
  /\ users[txn[s].user].active
  /\ txn' = [txn EXCEPT ![s].pc = "refresh",
                        ![s].account = users[txn[s].user]]
  /\ UNCHANGED <<users, tokens, resets, refused, requests>>

\* A revoked token: the family is revoked, then the exception rolls back.
LoadRevoked(s, t) ==
  /\ Accept(s)
  /\ t \in Issued \ Live
  /\ LET u == tokens[t].user IN
       Serve(s, "reuse", u, users[u], t, Nil, Family(tokens[t].family))
  /\ UNCHANGED <<users, tokens, resets, refused>>

\* Mutants of Rotated: the new token starts a family of its own; the old token
\* is not revoked.
RotatedAlone(t, n) ==
  [tokens EXCEPT
     ![t] = [tokens[t] EXCEPT !.revoked = TRUE, !.next = n],
     ![n] = [tokens[t] EXCEPT !.revoked = FALSE, !.next = Nil, !.family = n]]

RotatedLive(t, n) ==
  [tokens EXCEPT
     ![t] = [tokens[t] EXCEPT !.next = n],
     ![n] = [tokens[t] EXCEPT !.revoked = FALSE, !.next = Nil]]

\* The old token is revoked and names its successor, which is of the same user
\* and family.
Rotated(t, n) ==
  [tokens EXCEPT
     ![t] = [tokens[t] EXCEPT !.revoked = TRUE, !.next = n],
     ![n] = [tokens[t] EXCEPT !.revoked = FALSE, !.next = Nil]]

CommitRefresh(s, n) ==
  /\ txn[s].pc = "refresh"
  /\ Fresh(n)
  /\ tokens' = Rotated(txn[s].token, n)
  /\ Release(s)
  /\ UNCHANGED <<users, resets, refused, requests>>

-----------------------------------------------------------------------------
\* logout of one token, and logout_all, which the web client asks for.

Logout(s, u, t) ==
  /\ Accept(s)
  /\ users[u].active
  /\ t \in TokensOf(u)
  /\ Revoke({t})
  /\ UNCHANGED <<users, resets, txn, refused>>

StartLogoutAll(s, u) ==
  /\ Accept(s)
  /\ users[u].active
  /\ Serve(s, "revoke", u, users[u], Nil, Nil, TokensOf(u))
  /\ UNCHANGED <<users, tokens, resets, refused>>

CommitLogoutAll(s) ==
  /\ txn[s].pc = "revoke"
  /\ txn[s].reset = Nil
  /\ Revoke(txn[s].targets)
  /\ Release(s)
  /\ UNCHANGED <<users, resets, refused, requests>>

-----------------------------------------------------------------------------
\* request_password_reset and confirm_password_reset.

RequestReset(s, u, r) ==
  /\ Accept(s)
  /\ Registered(u)
  /\ resets[r].user = Nil
  /\ resets' = [resets EXCEPT ![r].user = u]
  /\ UNCHANGED <<users, tokens, txn, refused>>

\* Mutant of LoadForReset: the link is looked up by its token only.
LoadAnyForReset(s, r) ==
  /\ Accept(s)
  /\ resets[r].user # Nil
  /\ LET u == resets[r].user IN
       Serve(s, "reset", u, users[u], Nil, r, {})
  /\ UNCHANGED <<users, tokens, resets, refused>>

LoadForReset(s, r) ==
  /\ Accept(s)
  /\ resets[r].user # Nil
  /\ ~resets[r].used
  /\ LET u == resets[r].user IN
       Serve(s, "reset", u, users[u], Nil, r, {})
  /\ UNCHANGED <<users, tokens, resets, refused>>

\* Mutant of ToRevoke: only the tokens that sign-ins created are looked for.
FirstTokensOf(u) == {t \in TokensOf(u) : tokens[t].family = t}

\* The tokens of the revoking UPDATE.
ToRevoke(u) == TokensOf(u)

StartReset(s) ==
  /\ txn[s].pc = "reset"
  /\ ~Held(txn[s].user)
  /\ txn' = [txn EXCEPT ![s].pc = "revoke",
                        ![s].targets = ToRevoke(txn[s].user)]
  /\ UNCHANGED <<users, tokens, resets, refused, requests>>

CommitReset(s) ==
  /\ txn[s].pc = "revoke"
  /\ txn[s].reset # Nil
  /\ users' = [users EXCEPT ![txn[s].user].password = @ + 1]
  /\ resets' = [resets EXCEPT ![txn[s].reset].used = TRUE]
  /\ Revoke(txn[s].targets)
  /\ Release(s)
  /\ UNCHANGED <<refused, requests>>

-----------------------------------------------------------------------------
\* An exception, a lost connection or a dead worker.
Rollback(s) ==
  /\ txn[s].pc # "idle"
  /\ Release(s)
  /\ UNCHANGED <<users, tokens, resets, refused, requests>>

Next ==
  \E s \in Slot :
    \/ \E u \in User :
         \/ Register(s, u)
         \/ LoadForLogin(s, u)
         \/ RefusePassword(s, u)
         \/ StartLogoutAll(s, u)
         \/ \E b \in BOOLEAN : SetActive(s, u, b)
         \/ \E t \in Token : Logout(s, u, t)
         \/ \E r \in Reset : RequestReset(s, u, r)
    \/ \E t \in Token :
         \/ LoadForRefresh(s, t)
         \/ LoadRevoked(s, t)
         \/ CommitLogin(s, t)
         \/ CommitRefresh(s, t)
    \/ \E r \in Reset : LoadForReset(s, r)
    \/ FindOwner(s)
    \/ StartReset(s)
    \/ AnswerRefused(s)
    \/ CommitLogoutAll(s)
    \/ CommitReset(s)
    \/ Rollback(s)

Spec == Init /\ [][Next]_vars

-----------------------------------------------------------------------------
\* Properties.

SessionTypeOK ==
  /\ users \in [User -> UserRow]
  /\ tokens \in [Token -> TokenRow]
  /\ resets \in [Reset -> ResetRow]
  /\ txn \in [Slot -> BusyTxn \union {IdleTxn}]
  /\ refused \in [User -> Nat]
  /\ requests \in Nat

\* A request that presented a token presented a stored one, and is of its user.
PresentedIsStored ==
  \A s \in Slot : txn[s].pc \in {"token", "refresh"} =>
    /\ txn[s].token \in Issued
    /\ tokens[txn[s].token].user = txn[s].user

\* Every family starts with a token of its own name and belongs to one user.
FamiliesAreRooted ==
  \A t \in Issued :
    LET f == tokens[t].family IN
      /\ f \in Issued
      /\ tokens[f].family = f
      /\ tokens[f].user = tokens[t].user

\* The token a refresh leaves behind: revoked, and the token it names is
\* stored, of the same family, and named by no other.  Two refreshes of one
\* token at the same time keep this (refresh_session).
ReplacedIsConsistent ==
  \A t \in Issued : tokens[t].next # Nil =>
    /\ tokens[t].revoked
    /\ tokens[t].next \in Family(tokens[t].family) \ {tokens[t].family}
    /\ \A x \in Issued : tokens[x].next = tokens[t].next => x = t

RotationInv == FamiliesAreRooted /\ ReplacedIsConsistent

\* In a family there is one live token more than there are tokens that a later
\* refresh of the same token has displaced from replaced_by, or fewer: without
\* overlapping refreshes a session has at most one token.
Displaced(f) ==
  {t \in Family(f) \ {f} : \A x \in Family(f) : tokens[x].next # t}

LiveTokensAreAccounted ==
  \A f \in Token :
    Cardinality(Live \intersect Family(f)) <= 1 + Cardinality(Displaced(f))

\* A row of a token changes along one line only: it is inserted live, revoked
\* once and for all, and never moves to another user or family, whatever stale
\* copy of it a request writes back.
TokensOnlyRetire ==
  [][\A t \in Issued :
       /\ tokens'[t].user = tokens[t].user
       /\ tokens'[t].family = tokens[t].family
       /\ tokens[t].revoked => tokens'[t].revoked]_vars

-----------------------------------------------------------------------------
\* The promise, and what the requests of a single session make of it.

Promise ==
  INSTANCE SessionStore WITH
    active   <- {u \in User : users[u].active},
    password <- [u \in User |-> users[u].password],
    owner    <- [f \in Token |-> IF tokens[f].family = f
                                 THEN tokens[f].user ELSE Nil],
    current  <- [f \in Token |-> IF Live \intersect Family(f) = {}
                                 THEN Nil
                                 ELSE CHOOSE t \in Live \intersect Family(f) : TRUE],
    issued   <- Issued,
    pending  <- [r \in Reset |-> IF resets[r].used THEN Nil ELSE resets[r].user]

\* Served one after the other, the requests implement the session store: one
\* token at a time, rotation, sign-out, single-use reset links.
ImplementsSessionStore == Promise!Spec

\* Served one after the other, every live token descends from a sign-in with
\* the present password (confirm_password_reset revokes all others).
SessionsAreCurrent ==
  \A t \in Live : tokens[t].since = users[tokens[t].user].password

\* A reset link changes the password once: the password has one version more
\* than its owner has used links.
ResetIsSingleUse ==
  \A u \in User : Registered(u) =>
    users[u].password = 1 + Cardinality({r \in Reset : resets[r] =
                                           [user |-> u, used |-> TRUE]})

\* "On failure: failed-login counter increases": the counter of an account is
\* the number of passwords refused since its last sign-in.
FailuresAreCounted ==
  \A u \in User : users[u].failed = refused[u]

=============================================================================
