--------------------------- MODULE Sessions_proofs ---------------------------
(***************************************************************************)
(* The authentication service keeps the table of refresh tokens consistent *)
(* for every set of users, tokens and reset links and any number of open   *)
(* database sessions: types, rotation, and what an update may do to a row. *)
(***************************************************************************)
EXTENDS Sessions, FiniteSetTheorems, TLAPS

USE DEF Phase

Typed == SessionTypeOK /\ PresentedIsStored

Txns == BusyTxn \union {IdleTxn}

-----------------------------------------------------------------------------
\* What the three ways of writing the token table make of a row.

\* A blank row is a row, and so is an idle session.
LEMMA Blanks ==
  /\ NoUser \in UserRow
  /\ NoToken \in TokenRow
  /\ NoReset \in ResetRow
  /\ IdleTxn.pc = "idle"
  BY SessionConstants DEF NoUser, UserRow, NoToken, TokenRow, NoReset, ResetRow,
     IdleTxn

\* Serving a request puts a well-typed record into the slot.
LEMMA ServeTyped ==
  ASSUME txn \in [Slot -> Txns], NEW s \in Slot, NEW p \in Phase,
         NEW u \in User, NEW a \in UserRow, NEW t \in Token \union {Nil},
         NEW r \in Reset \union {Nil}, NEW g \in SUBSET Token,
         Serve(s, p, u, a, t, r, g)
  PROVE  /\ txn' \in [Slot -> Txns]
         /\ txn'[s].pc = p /\ txn'[s].user = u /\ txn'[s].token = t
         /\ \A x \in Slot \ {s} : txn'[x] = txn[x]
  <1> DEFINE rec == [pc |-> p, user |-> u, account |-> a, token |-> t,
                     reset |-> r, targets |-> g]
  <1>1. rec \in BusyTxn
    BY DEF BusyTxn
  <1>2. txn' = [txn EXCEPT ![s] = rec]
    BY DEF Serve
  <1>3. rec.pc = p /\ rec.user = u /\ rec.token = t
    OBVIOUS
  <1> HIDE DEF rec
  <1> QED
    BY <1>1, <1>2, <1>3 DEF Txns

LEMMA ReleaseTyped ==
  ASSUME txn \in [Slot -> Txns], NEW s \in Slot, Release(s)
  PROVE  /\ txn' \in [Slot -> Txns]
         /\ txn'[s].pc = "idle"
         /\ \A x \in Slot \ {s} : txn'[x] = txn[x]
  BY Blanks DEF Release, Txns

\* Revoking keeps everything of a row but the mark.
LEMMA RevokeRows ==
  ASSUME tokens \in [Token -> TokenRow], NEW g \in SUBSET Token, Revoke(g)
  PROVE  /\ tokens' \in [Token -> TokenRow]
         /\ \A t \in Token :
              /\ tokens'[t].user = tokens[t].user
              /\ tokens'[t].family = tokens[t].family
              /\ tokens'[t].next = tokens[t].next
              /\ tokens[t].revoked => tokens'[t].revoked
  BY DEF Revoke, TokenRow

\* A sign-in inserts one live row that starts a family.
LEMMA LoginRows ==
  ASSUME Typed, NEW s \in Slot, NEW n \in Token, CommitLogin(s, n)
  PROVE  /\ tokens' \in [Token -> TokenRow]
         /\ tokens[n].user = Nil
         /\ tokens'[n].user \in User
         /\ tokens'[n].family = n /\ tokens'[n].next = Nil
         /\ \A t \in Token \ {n} : tokens'[t] = tokens[t]
  <1> DEFINE row == [user |-> txn[s].user, family |-> n, revoked |-> FALSE,
                     next |-> Nil, since |-> txn[s].account.password]
  <1>1. txn[s].user \in User /\ txn[s].account \in UserRow
    BY Blanks DEF Typed, SessionTypeOK, CommitLogin, BusyTxn
  <1>2. row \in TokenRow
    BY <1>1 DEF TokenRow, UserRow
  <1>3. tokens' = [tokens EXCEPT ![n] = row] /\ n \notin Issued
    BY DEF CommitLogin, Fresh
  <1>4. row.user = txn[s].user /\ row.family = n /\ row.next = Nil
    OBVIOUS
  <1> HIDE DEF row
  <1> QED
    BY <1>1, <1>2, <1>3, <1>4 DEF Typed, SessionTypeOK, Issued

\* A refresh retires one stored row and inserts its successor.
LEMMA RefreshRows ==
  ASSUME Typed, NEW s \in Slot, NEW n \in Token, CommitRefresh(s, n),
         NEW o, o = txn[s].token
  PROVE  /\ tokens' \in [Token -> TokenRow]
         /\ o \in Issued /\ tokens[n].user = Nil /\ o # n
         /\ tokens'[o].user = tokens[o].user /\ tokens'[o].family = tokens[o].family
         /\ tokens'[o].revoked /\ tokens'[o].next = n
         /\ tokens'[n].user = tokens[o].user /\ tokens'[n].family = tokens[o].family
         /\ tokens'[n].next = Nil
         /\ \A t \in Token \ {o, n} : tokens'[t] = tokens[t]
  <1>1. o \in Issued /\ n \notin Issued /\ o \in Token
    BY DEF Typed, PresentedIsStored, CommitRefresh, Fresh, Issued
  <1>2. tokens[o] \in TokenRow /\ tokens \in [Token -> TokenRow]
    BY <1>1 DEF Typed, SessionTypeOK
  <1> DEFINE old == [tokens[o] EXCEPT !.revoked = TRUE, !.next = n]
             new == [tokens[o] EXCEPT !.revoked = FALSE, !.next = Nil]
  <1>3. /\ old \in TokenRow /\ new \in TokenRow
        /\ old.user = tokens[o].user /\ old.family = tokens[o].family
        /\ old.revoked /\ old.next = n
        /\ new.user = tokens[o].user /\ new.family = tokens[o].family
        /\ new.next = Nil
    BY <1>2 DEF TokenRow
  <1>4. tokens' = [tokens EXCEPT ![o] = old, ![n] = new]
    BY DEF CommitRefresh, Rotated
  <1> HIDE DEF old, new
  <1>5. o # n /\ tokens[n].user = Nil
    BY <1>1 DEF Issued
  <1>6. /\ tokens' \in [Token -> TokenRow]
        /\ tokens'[o] = old /\ tokens'[n] = new
        /\ \A t \in Token \ {o, n} : tokens'[t] = tokens[t]
    BY <1>1, <1>2, <1>3, <1>4, <1>5
  <1> QED
    BY <1>1, <1>3, <1>5, <1>6

-----------------------------------------------------------------------------
\* Types.

LEMMA TypedInit == Init => Typed
  BY SessionConstants, Blanks
  DEF Init, Typed, SessionTypeOK, PresentedIsStored

\* The slots: whoever waits with a token to refresh still finds it stored, with
\* its user, because no write moves a row.
LEMMA PresentedKept ==
  ASSUME Typed, txn' \in [Slot -> Txns], NEW s \in Slot,
         \A x \in Slot \ {s} : txn'[x] = txn[x],
         txn'[s].pc \in {"token", "refresh"} =>
           /\ txn'[s].token \in Issued
           /\ tokens[txn'[s].token].user = txn'[s].user,
         \A t \in Issued : tokens'[t].user = tokens[t].user
  PROVE  PresentedIsStored'
  <1> SUFFICES ASSUME NEW x \in Slot, txn'[x].pc \in {"token", "refresh"}
               PROVE  /\ txn'[x].token \in Issued'
                      /\ tokens'[txn'[x].token].user = txn'[x].user
    BY DEF PresentedIsStored
  <1> DEFINE t == txn'[x].token
  <1>1. t \in Issued /\ tokens[t].user = txn'[x].user
    BY DEF Typed, PresentedIsStored
  <1>2. tokens'[t].user = tokens[t].user /\ t \in Token /\ tokens[t].user # Nil
    BY <1>1 DEF Issued
  <1> HIDE DEF t
  <1>3. t \in Issued'
    BY <1>2 DEF Issued
  <1> QED
    BY <1>1, <1>2, <1>3 DEF t

\* Every action keeps the tables, the slots and the counters well typed.
LEMMA TypedStep == Typed /\ [Next]_vars => Typed'
  <1> SUFFICES ASSUME Typed, [Next]_vars PROVE Typed'
    OBVIOUS
  <1> USE DEF Txns
  <1>0. /\ users \in [User -> UserRow] /\ tokens \in [Token -> TokenRow]
        /\ resets \in [Reset -> ResetRow] /\ txn \in [Slot -> Txns]
        /\ refused \in [User -> Nat] /\ requests \in Nat
    BY DEF Typed, SessionTypeOK
  <1>1. ASSUME NEW s \in Slot, NEW u \in User,
               Register(s, u) \/ (\E b \in BOOLEAN : SetActive(s, u, b))
        PROVE  Typed'
    <2>1. users' \in [User -> UserRow]
      <3>1. users[u] \in UserRow
        BY <1>0
      <3>2. CASE Register(s, u)
        <4>1. [users[u] EXCEPT !.active = TRUE, !.password = 1] \in UserRow
          BY <3>1 DEF UserRow
        <4>2. users' = [users EXCEPT
                          ![u] = [users[u] EXCEPT !.active = TRUE, !.password = 1]]
          BY <1>0, <3>2 DEF Register, UserRow
        <4> QED
          BY <1>0, <4>1, <4>2
      <3>3. ASSUME NEW b \in BOOLEAN, SetActive(s, u, b)
            PROVE  users' \in [User -> UserRow]
        BY <1>0, <3>1, <3>3 DEF SetActive, UserRow
      <3> QED
        BY <1>1, <3>2, <3>3
    <2>2. requests' \in Nat
      BY <1>0, <1>1 DEF Register, SetActive, Accept
    <2>3. UNCHANGED <<tokens, resets, txn, refused>>
      BY <1>1 DEF Register, SetActive
    <2> QED
      BY <1>0, <2>1, <2>2, <2>3 DEF Typed, SessionTypeOK, PresentedIsStored, Issued
  <1>2. ASSUME NEW s \in Slot, NEW u \in User,
               LoadForLogin(s, u) \/ RefusePassword(s, u) \/ StartLogoutAll(s, u)
        PROVE  Typed'
    <2>1. users[u] \in UserRow
      BY <1>0
    <2>2. PICK p \in Phase \ {"token", "refresh"}, a \in UserRow, g \in SUBSET Token :
            Serve(s, p, u, a, Nil, Nil, g)
      <3>1. [users[u] EXCEPT !.failed = 0, !.locked = FALSE] \in UserRow
        BY <2>1 DEF UserRow
      <3>2. Counted(users[u]) \in UserRow
        <4>1. PICK row \in UserRow : row = users[u]
          BY <2>1
        <4>2. PICK b \in BOOLEAN :
                b <=> row.locked \/ row.failed + 1 >= Threshold
          OBVIOUS
        <4>3. PICK k \in Nat : k = row.failed + 1
          BY DEF UserRow
        <4>4. Counted(row) = [row EXCEPT !.failed = k, !.locked = b]
          BY <4>2, <4>3, Zenon DEF Counted
        <4>5. [row EXCEPT !.failed = k, !.locked = b] \in UserRow
          BY DEF UserRow
        <4> QED
          BY <4>1, <4>4, <4>5, Zenon
      <3> QED
        BY <1>2, <2>1, <3>1, <3>2
        DEF LoadForLogin, RefusePassword, StartLogoutAll, TokensOf
    <2>3. /\ txn' \in [Slot -> Txns] /\ txn'[s].pc = p
          /\ \A x \in Slot \ {s} : txn'[x] = txn[x]
      BY <1>0, <2>2, ServeTyped
    <2>4. requests' \in Nat
      BY <1>0, <1>2 DEF LoadForLogin, RefusePassword, StartLogoutAll, Accept
    <2>5. UNCHANGED <<users, tokens, resets, refused>>
      BY <1>2 DEF LoadForLogin, RefusePassword, StartLogoutAll
    <2>6. PresentedIsStored'
      BY <2>3, <2>5, PresentedKept
    <2> QED
      BY <1>0, <2>3, <2>4, <2>5, <2>6 DEF Typed, SessionTypeOK
  <1>3. ASSUME NEW s \in Slot, NEW t \in Token,
               LoadForRefresh(s, t) \/ LoadRevoked(s, t)
        PROVE  Typed'
    <2>1. t \in Issued /\ tokens[t].user \in User
      BY <1>0, <1>3 DEF LoadForRefresh, LoadRevoked, Live, Issued, TokenRow
    <2>2. PICK u \in User : u = tokens[t].user
      BY <2>1
    <2>3. users[u] \in UserRow /\ Family(tokens[t].family) \in SUBSET Token
      BY <1>0 DEF Family, Issued
    <2>4. PICK p \in Phase, a \in UserRow, g \in SUBSET Token :
            Serve(s, p, u, a, t, Nil, g)
      BY <1>3, <2>2, <2>3, Blanks DEF LoadForRefresh, LoadRevoked
    <2>5. /\ txn' \in [Slot -> Txns] /\ txn'[s].token = t /\ txn'[s].user = u
          /\ \A x \in Slot \ {s} : txn'[x] = txn[x]
      <3>1. t \in Token \union {Nil} /\ Nil \in Reset \union {Nil}
        OBVIOUS
      <3> HIDE DEF Phase, Txns
      <3> QED
        BY <1>0, <2>4, <3>1, ServeTyped DEF Txns
    <2>6. requests' \in Nat
      BY <1>0, <1>3 DEF LoadForRefresh, LoadRevoked, Accept
    <2>7. UNCHANGED <<users, tokens, resets, refused>>
      BY <1>3 DEF LoadForRefresh, LoadRevoked
    <2>8. PresentedIsStored'
      BY <2>1, <2>2, <2>5, <2>7, PresentedKept
    <2> QED
      BY <1>0, <2>5, <2>6, <2>7, <2>8 DEF Typed, SessionTypeOK
  <1>4. ASSUME NEW s \in Slot, NEW n \in Token, CommitLogin(s, n)
        PROVE  Typed'
    <2>1. /\ tokens' \in [Token -> TokenRow] /\ tokens[n].user = Nil
          /\ \A t \in Token \ {n} : tokens'[t] = tokens[t]
      BY <1>4, LoginRows
    <2>2. /\ txn' \in [Slot -> Txns] /\ txn'[s].pc = "idle"
          /\ \A x \in Slot \ {s} : txn'[x] = txn[x]
      BY <1>0, <1>4, ReleaseTyped DEF CommitLogin
    <2>3. txn[s].user \in User /\ txn[s].account \in UserRow
      BY <1>0, <1>4, Blanks DEF CommitLogin, BusyTxn
    <2>4. users' \in [User -> UserRow]
      BY <1>0, <1>4, <2>3 DEF CommitLogin, UserRow
    <2>5. refused' \in [User -> Nat]
      BY <1>0, <1>4 DEF CommitLogin
    <2>6. UNCHANGED <<resets, requests>>
      BY <1>4 DEF CommitLogin
    <2>7. PresentedIsStored'
      BY <2>1, <2>2, PresentedKept DEF Issued
    <2> QED
      BY <1>0, <2>1, <2>2, <2>4, <2>5, <2>6, <2>7 DEF Typed, SessionTypeOK
  <1>5. ASSUME NEW s \in Slot, NEW n \in Token, CommitRefresh(s, n)
        PROVE  Typed'
    <2>1. PICK o : o = txn[s].token
      OBVIOUS
    <2>2. /\ tokens' \in [Token -> TokenRow] /\ tokens[n].user = Nil
          /\ tokens'[o].user = tokens[o].user
          /\ \A t \in Token \ {o, n} : tokens'[t] = tokens[t]
      BY <1>5, <2>1, RefreshRows
    <2>3. /\ txn' \in [Slot -> Txns] /\ txn'[s].pc = "idle"
          /\ \A x \in Slot \ {s} : txn'[x] = txn[x]
      BY <1>0, <1>5, ReleaseTyped DEF CommitRefresh
    <2>4. UNCHANGED <<users, resets, refused, requests>>
      BY <1>5 DEF CommitRefresh
    <2>5. PresentedIsStored'
      BY <2>2, <2>3, PresentedKept DEF Issued
    <2> QED
      BY <1>0, <2>2, <2>3, <2>4, <2>5 DEF Typed, SessionTypeOK
  <1>6. ASSUME NEW s \in Slot, NEW u \in User, NEW t \in Token, Logout(s, u, t)
        PROVE  Typed'
    <2>1. /\ tokens' \in [Token -> TokenRow]
          /\ \A x \in Token : tokens'[x].user = tokens[x].user
      <3>1. {t} \in SUBSET Token /\ Revoke({t})
        BY <1>6 DEF Logout
      <3> QED
        BY <1>0, <3>1, RevokeRows
    <2>2. requests' \in Nat /\ UNCHANGED <<users, resets, txn, refused>>
      BY <1>0, <1>6 DEF Logout, Accept
    <2>3. PresentedIsStored'
      BY <1>0, <2>1, <2>2 DEF Typed, PresentedIsStored, Issued
    <2> QED
      BY <1>0, <2>1, <2>2, <2>3 DEF Typed, SessionTypeOK
  <1>7. ASSUME NEW s \in Slot, CommitLogoutAll(s) \/ CommitReset(s)
        PROVE  Typed'
    <2>1. txn[s] \in BusyTxn
      BY <1>0, <1>7, Blanks DEF CommitLogoutAll, CommitReset
    <2>2. /\ tokens' \in [Token -> TokenRow]
          /\ \A x \in Token : tokens'[x].user = tokens[x].user
      <3>1. txn[s].targets \in SUBSET Token /\ Revoke(txn[s].targets)
        BY <1>7, <2>1 DEF CommitLogoutAll, CommitReset, BusyTxn
      <3> QED
        BY <1>0, <3>1, RevokeRows
    <2>3. /\ txn' \in [Slot -> Txns] /\ txn'[s].pc = "idle"
          /\ \A x \in Slot \ {s} : txn'[x] = txn[x]
      BY <1>0, <1>7, ReleaseTyped DEF CommitLogoutAll, CommitReset
    <2>4. users' \in [User -> UserRow]
      BY <1>0, <1>7 DEF CommitLogoutAll, CommitReset, UserRow
    <2>5. resets' \in [Reset -> ResetRow]
      <3>1. CASE CommitLogoutAll(s)
        BY <1>0, <3>1 DEF CommitLogoutAll
      <3>2. CASE CommitReset(s)
        <4>1. txn[s].reset \in Reset
          BY <2>1, <3>2 DEF CommitReset, BusyTxn
        <4> QED
          BY <1>0, <3>2, <4>1 DEF CommitReset, ResetRow
      <3> QED
        BY <1>7, <3>1, <3>2
    <2>6. UNCHANGED <<refused, requests>>
      BY <1>7 DEF CommitLogoutAll, CommitReset
    <2>7. PresentedIsStored'
      BY <2>2, <2>3, PresentedKept DEF Issued
    <2> QED
      BY <1>0, <2>2, <2>3, <2>4, <2>5, <2>6, <2>7 DEF Typed, SessionTypeOK
  <1>8. ASSUME NEW s \in Slot, NEW u \in User, NEW r \in Reset,
               RequestReset(s, u, r)
        PROVE  Typed'
    <2>1. resets' \in [Reset -> ResetRow]
      BY <1>0, <1>8 DEF RequestReset, ResetRow
    <2>2. requests' \in Nat /\ UNCHANGED <<users, tokens, txn, refused>>
      BY <1>0, <1>8 DEF RequestReset, Accept
    <2> QED
      BY <1>0, <2>1, <2>2 DEF Typed, SessionTypeOK, PresentedIsStored, Issued
  <1>9. ASSUME NEW s \in Slot, NEW r \in Reset, LoadForReset(s, r)
        PROVE  Typed'
    <2>1. resets[r].user \in User
      BY <1>0, <1>9 DEF LoadForReset, ResetRow
    <2>2. PICK u \in User : u = resets[r].user
      BY <2>1
    <2>3. PICK a \in UserRow : Serve(s, "reset", u, a, Nil, r, {})
      BY <1>0, <1>9, <2>2 DEF LoadForReset
    <2>4. /\ txn' \in [Slot -> Txns] /\ txn'[s].pc = "reset"
          /\ \A x \in Slot \ {s} : txn'[x] = txn[x]
      <3>1. "reset" \in Phase /\ {} \in SUBSET Token
        OBVIOUS
      <3> QED
        BY <1>0, <2>3, <3>1, ServeTyped
    <2>5. requests' \in Nat /\ UNCHANGED <<users, tokens, resets, refused>>
      BY <1>0, <1>9 DEF LoadForReset, Accept
    <2>6. PresentedIsStored'
      BY <2>4, <2>5, PresentedKept
    <2> QED
      BY <1>0, <2>4, <2>5, <2>6 DEF Typed, SessionTypeOK
  <1>10. ASSUME NEW s \in Slot, StartReset(s)
         PROVE  Typed'
    <2>1. txn[s] \in BusyTxn /\ txn[s].pc = "reset"
      BY <1>0, <1>10, Blanks DEF StartReset
    <2>2. PICK g \in SUBSET Token :
            txn' = [txn EXCEPT ![s].pc = "revoke", ![s].targets = g]
      BY <1>10 DEF StartReset, ToRevoke, TokensOf
    <2>3. /\ txn' \in [Slot -> Txns] /\ txn'[s].pc = "revoke"
          /\ \A x \in Slot \ {s} : txn'[x] = txn[x]
      BY <1>0, <2>1, <2>2 DEF BusyTxn
    <2>4. UNCHANGED <<users, tokens, resets, refused, requests>>
      BY <1>10 DEF StartReset
    <2>5. PresentedIsStored'
      BY <2>3, <2>4, PresentedKept
    <2> QED
      BY <1>0, <2>3, <2>4, <2>5 DEF Typed, SessionTypeOK
  <1>11. ASSUME NEW s \in Slot, AnswerRefused(s) \/ Rollback(s)
         PROVE  Typed'
    <2>1. /\ txn' \in [Slot -> Txns] /\ txn'[s].pc = "idle"
          /\ \A x \in Slot \ {s} : txn'[x] = txn[x]
      BY <1>0, <1>11, ReleaseTyped DEF AnswerRefused, Rollback
    <2>2. refused' \in [User -> Nat]
      BY <1>0, <1>11 DEF AnswerRefused, Rollback
    <2>3. UNCHANGED <<users, tokens, resets, requests>>
      BY <1>11 DEF AnswerRefused, Rollback
    <2>4. PresentedIsStored'
      BY <2>1, <2>3, PresentedKept
    <2> QED
      BY <1>0, <2>1, <2>2, <2>3, <2>4 DEF Typed, SessionTypeOK
  <1>12. ASSUME NEW s \in Slot, FindOwner(s)
         PROVE  Typed'
    <2>1. txn[s] \in BusyTxn /\ txn[s].pc = "token"
      BY <1>0, <1>12, Blanks DEF FindOwner
    <2>2. txn[s].token \in Issued /\ tokens[txn[s].token].user = txn[s].user
      BY <2>1 DEF Typed, PresentedIsStored
    <2>3. PICK a \in UserRow :
            txn' = [txn EXCEPT ![s].pc = "refresh", ![s].account = a]
      BY <1>0, <1>12, <2>1 DEF FindOwner, BusyTxn
    <2>4. /\ txn' \in [Slot -> Txns]
          /\ txn'[s].token = txn[s].token /\ txn'[s].user = txn[s].user
          /\ \A x \in Slot \ {s} : txn'[x] = txn[x]
      BY <1>0, <2>1, <2>3 DEF BusyTxn
    <2>5. UNCHANGED <<users, tokens, resets, refused, requests>>
      BY <1>12 DEF FindOwner
    <2>6. PresentedIsStored'
      BY <2>2, <2>4, <2>5, PresentedKept
    <2> QED
      BY <1>0, <2>4, <2>5, <2>6 DEF Typed, SessionTypeOK
  <1>13. CASE UNCHANGED vars
    BY <1>13 DEF vars, Typed, SessionTypeOK, PresentedIsStored, Issued
  <1> QED
    BY <1>1, <1>2, <1>3, <1>4, <1>5, <1>6, <1>7, <1>8, <1>9, <1>10, <1>11, <1>12,
       <1>13
    DEF Next

\* Every reachable state of the authentication service is well typed, and a
\* request that waits to rotate a token still finds it, with its user.
THEOREM SessionTypeCorrect == Spec => [](SessionTypeOK /\ PresentedIsStored)
  <1>1. Spec => []Typed
    BY TypedInit, TypedStep, PTL DEF Spec
  <1>2. Typed => SessionTypeOK /\ PresentedIsStored
    BY DEF Typed
  <1> QED
    BY <1>1, <1>2, PTL

-----------------------------------------------------------------------------
\* Rotation.

\* No token is inserted or replaced; some may be revoked.
NoneInserted ==
  \A t \in Token :
    /\ tokens'[t].user = tokens[t].user
    /\ tokens'[t].family = tokens[t].family
    /\ tokens'[t].next = tokens[t].next
    /\ tokens[t].revoked => tokens'[t].revoked

\* Only a sign-in and a refresh insert tokens.
LEMMA TokenSteps ==
  ASSUME Typed, [Next]_vars
  PROVE  \/ NoneInserted
         \/ \E s \in Slot, n \in Token : CommitLogin(s, n) \/ CommitRefresh(s, n)
  <1>1. /\ tokens \in [Token -> TokenRow]
        /\ txn \in [Slot -> Txns]
    BY DEF Typed, SessionTypeOK, Txns
  <1>2. CASE UNCHANGED tokens
    BY <1>2 DEF NoneInserted
  <1>3. ASSUME NEW g \in SUBSET Token, Revoke(g)
        PROVE  NoneInserted
    BY <1>1, <1>3, RevokeRows DEF NoneInserted
  <1>4. ASSUME NEW s \in Slot, NEW u \in User, NEW t \in Token, Logout(s, u, t)
        PROVE  NoneInserted
    BY <1>3, <1>4 DEF Logout
  <1>5. ASSUME NEW s \in Slot, CommitLogoutAll(s) \/ CommitReset(s)
        PROVE  NoneInserted
    <2>1. txn[s] \in BusyTxn
      BY <1>1, <1>5, Blanks DEF CommitLogoutAll, CommitReset, Txns
    <2>2. PICK g \in SUBSET Token : g = txn[s].targets
      BY <2>1 DEF BusyTxn
    <2> QED
      BY <1>3, <1>5, <2>2 DEF CommitLogoutAll, CommitReset
  <1>6. CASE UNCHANGED vars
    BY <1>2, <1>6 DEF vars
  <1>7. ASSUME NEW s \in Slot,
               \/ \E u \in User :
                    \/ Register(s, u) \/ LoadForLogin(s, u) \/ RefusePassword(s, u)
                    \/ StartLogoutAll(s, u)
                    \/ \E b \in BOOLEAN : SetActive(s, u, b)
                    \/ \E r \in Reset : RequestReset(s, u, r)
               \/ \E t \in Token : LoadForRefresh(s, t) \/ LoadRevoked(s, t)
               \/ \E r \in Reset : LoadForReset(s, r)
               \/ FindOwner(s) \/ StartReset(s) \/ AnswerRefused(s) \/ Rollback(s)
        PROVE  UNCHANGED tokens
    BY <1>7 DEF Register, LoadForLogin, RefusePassword, StartLogoutAll, SetActive,
       RequestReset, LoadForRefresh, FindOwner, LoadRevoked, LoadForReset, StartReset,
       AnswerRefused, Rollback
  <1> QED
    BY <1>2, <1>4, <1>5, <1>6, <1>7 DEF Next

LEMMA RotationInit == Init => RotationInv
  BY DEF Init, RotationInv, FamiliesAreRooted, ReplacedIsConsistent, Issued,
     NoToken

\* Revoking tokens keeps families and successors.
LEMMA RotationKept == RotationInv /\ NoneInserted => RotationInv'
  <1> SUFFICES ASSUME RotationInv, NoneInserted PROVE RotationInv'
    OBVIOUS
  <1>1. Issued' = Issued
    BY DEF NoneInserted, Issued
  <1>2. FamiliesAreRooted'
    BY <1>1 DEF RotationInv, FamiliesAreRooted, NoneInserted, Issued
  <1>3. ReplacedIsConsistent'
    BY <1>1 DEF RotationInv, ReplacedIsConsistent, Family, NoneInserted, Issued
  <1> QED
    BY <1>2, <1>3 DEF RotationInv

\* A sign-in adds a family of one token.
LEMMA RotationLogin ==
  ASSUME Typed, RotationInv, NEW s \in Slot, NEW n \in Token, CommitLogin(s, n)
  PROVE  RotationInv'
  <1>1. /\ tokens[n].user = Nil /\ tokens'[n].user \in User
        /\ tokens'[n].family = n /\ tokens'[n].next = Nil
        /\ \A t \in Token \ {n} : tokens'[t] = tokens[t]
    BY LoginRows
  <1>2. Issued' = Issued \union {n} /\ n \notin Issued
    BY <1>1, SessionConstants DEF Issued
  <1>3. \A t \in Issued : t # n /\ tokens'[t] = tokens[t]
    BY <1>1, <1>2 DEF Issued
  <1>4. FamiliesAreRooted'
    BY <1>1, <1>2, <1>3 DEF RotationInv, FamiliesAreRooted
  <1>5. ReplacedIsConsistent'
    BY <1>1, <1>2, <1>3 DEF RotationInv, ReplacedIsConsistent, Family
  <1> QED
    BY <1>4, <1>5 DEF RotationInv

\* A refresh adds a successor nobody named before.
LEMMA RotationRefresh ==
  ASSUME Typed, RotationInv, NEW s \in Slot, NEW n \in Token, CommitRefresh(s, n)
  PROVE  RotationInv'
  <1> PICK o : o = txn[s].token
    OBVIOUS
  <1>1. /\ o \in Issued /\ tokens[n].user = Nil /\ o # n
        /\ tokens'[o].user = tokens[o].user /\ tokens'[o].family = tokens[o].family
        /\ tokens'[o].revoked /\ tokens'[o].next = n
        /\ tokens'[n].user = tokens[o].user /\ tokens'[n].family = tokens[o].family
        /\ tokens'[n].next = Nil
        /\ \A t \in Token \ {o, n} : tokens'[t] = tokens[t]
    BY RefreshRows
  <1>2. Issued' = Issued \union {n} /\ n \notin Issued
    BY <1>1 DEF Issued
  <1>3. \A t \in Issued :
          /\ t # n /\ t \in Token
          /\ tokens'[t].user = tokens[t].user /\ tokens'[t].family = tokens[t].family
          /\ t # o => tokens'[t] = tokens[t]
    BY <1>1, <1>2 DEF Issued
  <1>4. FamiliesAreRooted'
    BY <1>1, <1>2, <1>3 DEF RotationInv, FamiliesAreRooted
  <1>5. \A x \in Issued : tokens[x].next # n
    BY <1>2, SessionConstants DEF RotationInv, ReplacedIsConsistent, Family
  <1>6. tokens[o].family \in Issued
    BY <1>1 DEF RotationInv, FamiliesAreRooted
  <1>7. n # tokens[o].family
    BY <1>2, <1>6
  <1>8. ASSUME NEW t \in Issued', tokens'[t].next # Nil
        PROVE  /\ tokens'[t].revoked
               /\ tokens'[t].next \in Issued'
               /\ tokens'[tokens'[t].next].family = tokens'[t].family
               /\ tokens'[t].next # tokens'[t].family
               /\ \A x \in Issued' : tokens'[x].next = tokens'[t].next => x = t
    <2>1. t \in Issued
      BY <1>1, <1>2, <1>8
    <2>2. CASE t = o
      <3>1. tokens'[t].revoked /\ tokens'[t].next = n
        BY <1>1, <2>2
      <3>2. n \in Issued' /\ tokens'[n].family = tokens'[t].family
        BY <1>1, <1>2, <2>2
      <3>3. n # tokens'[t].family
        BY <1>1, <1>7, <2>2
      <3>4. ASSUME NEW x \in Issued', tokens'[x].next = n
            PROVE  x = t
        <4>1. x \in Issued
          BY <1>1, <1>2, <3>4, SessionConstants
        <4>2. CASE x # o
          BY <1>3, <1>5, <3>4, <4>1, <4>2
        <4> QED
          BY <2>2, <4>2
      <3> QED
        BY <3>1, <3>2, <3>3, <3>4
    <2>3. CASE t # o
      <3>1. /\ tokens'[t] = tokens[t] /\ tokens[t].revoked
            /\ tokens[t].next \in Issued
            /\ tokens[tokens[t].next].family = tokens[t].family
            /\ tokens[t].next # tokens[t].family
            /\ \A x \in Issued : tokens[x].next = tokens[t].next => x = t
        BY <1>3, <1>8, <2>1, <2>3 DEF RotationInv, ReplacedIsConsistent, Family
      <3>2. ASSUME NEW x \in Issued', tokens'[x].next = tokens[t].next
            PROVE  x = t
        BY <1>1, <1>2, <1>3, <1>8, <3>1, <3>2
      <3> QED
        BY <1>2, <1>3, <3>1, <3>2
    <2> QED
      BY <2>2, <2>3
  <1>9. ReplacedIsConsistent'
    BY <1>8 DEF ReplacedIsConsistent, Family
  <1> QED
    BY <1>4, <1>9 DEF RotationInv

\* Whatever refreshes, resets and sign-outs overlap: a replaced token is revoked,
\* and its successor is stored in the same family and named by no other token.
THEOREM RotationIsConsistent == Spec => []RotationInv
  <1>1. Typed /\ RotationInv /\ [Next]_vars => RotationInv'
    BY TokenSteps, RotationKept, RotationLogin, RotationRefresh
  <1> QED
    BY TypedInit, TypedStep, RotationInit, <1>1, PTL DEF Spec

LEMMA RetireStep ==
  ASSUME Typed, [Next]_vars
  PROVE  \A t \in Issued :
           /\ t \in Issued'
           /\ tokens'[t].user = tokens[t].user
           /\ tokens'[t].family = tokens[t].family
           /\ tokens[t].revoked => tokens'[t].revoked
  <1> DEFINE A == \A t \in Issued :
                    /\ tokens'[t].user = tokens[t].user
                    /\ tokens'[t].family = tokens[t].family
                    /\ tokens[t].revoked => tokens'[t].revoked
  <1>1. CASE NoneInserted
    BY <1>1 DEF NoneInserted, Issued
  <1>2. ASSUME NEW s \in Slot, NEW n \in Token, CommitLogin(s, n)
        PROVE  A
    BY <1>2, LoginRows DEF Issued
  <1>3. ASSUME NEW s \in Slot, NEW n \in Token, CommitRefresh(s, n)
        PROVE  A
    <2>1. PICK o : o = txn[s].token
      OBVIOUS
    <2> QED
      BY <1>3, <2>1, RefreshRows DEF Issued
  <1>4. A
    BY <1>1, <1>2, <1>3, TokenSteps
  <1> QED
    BY <1>4 DEF Issued

\* A stored token keeps its user and family, and once revoked it stays revoked.
THEOREM TokensRetire == Spec => TokensOnlyRetire
  <1> DEFINE A == \A t \in Issued :
                    /\ tokens'[t].user = tokens[t].user
                    /\ tokens'[t].family = tokens[t].family
                    /\ tokens[t].revoked => tokens'[t].revoked
  <1>1. Typed /\ [Next]_vars => [A]_vars
    BY RetireStep
  <1> QED
    BY TypedInit, TypedStep, <1>1, PTL DEF Spec, TokensOnlyRetire

-----------------------------------------------------------------------------
\* How many tokens of a family are live.  That a family has one unreplaced token
\* more than it has displaced ones follows from RotationInv by counting: no
\* stronger invariant is needed, and no bound on the tokens.

\* Every step leaves the set of issued tokens or adds one token.
LEMMA OneInserted ==
  ASSUME Typed, [Next]_vars
  PROVE  Issued' = Issued \/ \E n \in Token : Issued' = Issued \union {n}
  <1>1. CASE NoneInserted
    BY <1>1 DEF NoneInserted, Issued
  <1>2. ASSUME NEW s \in Slot, NEW n \in Token, CommitLogin(s, n)
        PROVE  Issued' = Issued \union {n}
    BY <1>2, LoginRows, SessionConstants DEF Issued
  <1>3. ASSUME NEW s \in Slot, NEW n \in Token, CommitRefresh(s, n)
        PROVE  Issued' = Issued \union {n}
    <2>1. PICK o : o = txn[s].token
      OBVIOUS
    <2> QED
      BY <1>3, <2>1, RefreshRows DEF Issued
  <1> QED
    BY <1>1, <1>2, <1>3, TokenSteps

\* However many tokens there may be, only finitely many have been issued.
LEMMA IssuedIsFinite == Spec => []IsFiniteSet(Issued)
  <1>1. Init => IsFiniteSet(Issued)
    <2>1. Init => Issued = {}
      BY DEF Init, Issued, NoToken
    <2> QED
      BY <2>1, FS_EmptySet
  <1>2. Typed /\ IsFiniteSet(Issued) /\ [Next]_vars => IsFiniteSet(Issued)'
    <2> SUFFICES ASSUME Typed, IsFiniteSet(Issued), [Next]_vars
                 PROVE  IsFiniteSet(Issued')
      OBVIOUS
    <2> QED
      BY OneInserted, FS_AddElement
  <1> QED
    BY TypedInit, TypedStep, <1>1, <1>2, PTL DEF Spec

\* Tokens of a family that no refresh has replaced.
Unreplaced(f) == {t \in Family(f) : tokens[t].next = Nil}

\* In a family, replacing maps the replaced tokens one to one onto those that are
\* neither the first nor displaced: so one token more is unreplaced than displaced.
LEMMA UnreplacedCount ==
  ASSUME Typed, RotationInv, IsFiniteSet(Issued), NEW f \in Token, Family(f) # {}
  PROVE  /\ IsFiniteSet(Unreplaced(f))
         /\ IsFiniteSet(Displaced(f))
         /\ Cardinality(Unreplaced(f)) = 1 + Cardinality(Displaced(f))
  <1> DEFINE F == Family(f)
             D == Displaced(f)
             U == Unreplaced(f)
             R == F \ U
             N == (F \ {f}) \ D
             next == [t \in R |-> tokens[t].next]
  <1>1. f \in F /\ F \in SUBSET Issued
    BY DEF RotationInv, FamiliesAreRooted, Family
  <1>2. IsFiniteSet(F) /\ IsFiniteSet(F \ {f})
    BY <1>1, FS_Subset, FS_RemoveElement
  <1>3. D \in SUBSET (F \ {f}) /\ U \in SUBSET F
    BY DEF Displaced, Unreplaced
  <1>4. /\ IsFiniteSet(D) /\ IsFiniteSet(U)
        /\ IsFiniteSet(R) /\ IsFiniteSet(N)
    BY <1>2, <1>3, FS_Subset, FS_Difference
  <1>5. next \in [R -> N]
    <2> SUFFICES ASSUME NEW t \in R PROVE tokens[t].next \in N
      OBVIOUS
    <2>1. t \in Issued /\ tokens[t].family = f /\ tokens[t].next # Nil
      BY DEF Family, Unreplaced
    <2>2. tokens[t].next \in F \ {f}
      BY <2>1 DEF RotationInv, ReplacedIsConsistent
    <2>3. tokens[t].next \notin D
      BY DEF Displaced
    <2> QED
      BY <2>2, <2>3
  <1>6. next \in Injection(R, N)
    <2>1. ASSUME NEW x \in R, NEW y \in R, tokens[x].next = tokens[y].next
          PROVE  x = y
      <3>1. x \in Issued /\ y \in Issued /\ tokens[y].next # Nil
        BY DEF Family, Unreplaced
      <3> QED
        BY <2>1, <3>1 DEF RotationInv, ReplacedIsConsistent
    <2> QED
      BY <1>5, <2>1 DEF Injection, IsInjective
  <1>7. next \in Surjection(R, N)
    <2>1. ASSUME NEW m \in N PROVE \E t \in R : tokens[t].next = m
      <3>1. PICK t \in F : tokens[t].next = m
        BY DEF Displaced
      <3>2. m # Nil
        BY SessionConstants DEF Family, Issued
      <3>3. t \in R
        BY <3>1, <3>2 DEF Unreplaced
      <3> QED
        BY <3>1, <3>3
    <2> QED
      BY <1>5, <2>1 DEF Surjection
  <1>8. Cardinality(N) = Cardinality(R)
    <2>1. ExistsBijection(R, N)
      BY <1>6, <1>7 DEF ExistsBijection, Bijection
    <2> QED
      BY <1>4, <2>1, FS_Bijection
  <1> HIDE DEF next, F, D, U
  <1>9. /\ Cardinality(R) = Cardinality(F) - Cardinality(U)
        /\ Cardinality(N) = Cardinality(F \ {f}) - Cardinality(D)
        /\ Cardinality(F \ {f}) = Cardinality(F) - 1
    <2>1. F \intersect U = U /\ (F \ {f}) \intersect D = D
      BY <1>3
    <2>2. Cardinality(R) = Cardinality(F) - Cardinality(F \intersect U)
      BY <1>2, FS_Difference
    <2>3. Cardinality(N) = Cardinality(F \ {f}) - Cardinality((F \ {f}) \intersect D)
      BY <1>2, FS_Difference
    <2>4. Cardinality(F \ {f}) = Cardinality(F) - 1
      BY <1>1, <1>2, FS_RemoveElement
    <2> QED
      BY <2>1, <2>2, <2>3, <2>4
  <1>10. /\ Cardinality(F) \in Nat /\ Cardinality(U) \in Nat
         /\ Cardinality(D) \in Nat
    BY <1>2, <1>4, FS_CardinalityType
  <1>11. Cardinality(U) = 1 + Cardinality(D)
    BY <1>8, <1>9, <1>10
  <1> QED
    BY <1>4, <1>11 DEF U, D

\* Whatever refreshes, sign-outs and resets overlap, and however many tokens
\* there are: a family has at most one live token more than a later refresh of
\* the same token has displaced (refresh_session).
THEOREM LiveTokensAreBounded == Spec => []LiveTokensAreAccounted
  <1>1. Typed /\ RotationInv /\ IsFiniteSet(Issued) => LiveTokensAreAccounted
    <2> SUFFICES ASSUME Typed, RotationInv, IsFiniteSet(Issued), NEW f \in Token
                 PROVE  Cardinality(Live \intersect Family(f))
                          <= 1 + Cardinality(Displaced(f))
      BY DEF LiveTokensAreAccounted
    <2>1. CASE Family(f) = {}
      <3>1. Live \intersect Family(f) = {} /\ Displaced(f) = {}
        BY <2>1 DEF Displaced
      <3> QED
        BY <3>1, FS_EmptySet
    <2>2. CASE Family(f) # {}
      <3>1. Live \intersect Family(f) \in SUBSET Unreplaced(f)
        BY DEF RotationInv, ReplacedIsConsistent, Live, Family, Unreplaced
      <3>2. Cardinality(Live \intersect Family(f)) <= Cardinality(Unreplaced(f))
        BY <2>2, <3>1, UnreplacedCount, FS_Subset
      <3> QED
        BY <2>2, <3>2, UnreplacedCount
    <2> QED
      BY <2>1, <2>2
  <1>2. Spec => []Typed
    BY TypedInit, TypedStep, PTL DEF Spec
  <1> QED
    BY <1>1, <1>2, RotationIsConsistent, IssuedIsFinite, PTL
=============================================================================
