---------------------- MODULE SessionRefinement_proofs ----------------------
(***************************************************************************)
(* Proof that the authentication service, when it serves one request at a  *)
(* time, implements SessionStore for all users, tokens and reset links and *)
(* any number of requests, and what else that buys: live tokens are of the *)
(* present password and a reset link is used once.                         *)
(***************************************************************************)
EXTENDS Sessions_proofs

OneSession == \A r, s \in Slot : r = s

\* What the handler of the only session read is still so.
CopyIsCurrent(s) ==
  LET t == txn[s] IN
    /\ t.pc # "idle" => Registered(t.user)
    /\ t.pc = "login" =>
         /\ users[t.user].active
         /\ t.account.password = users[t.user].password
    /\ t.pc \in {"token", "refresh"} => t.token \in Live
    /\ t.pc = "refresh" => users[t.user].active
    /\ t.pc = "reset" => t.reset # Nil
    /\ t.pc \in {"reset", "revoke"} /\ t.reset # Nil =>
         resets[t.reset] = [user |-> t.user, used |-> FALSE]
    /\ t.pc = "revoke" =>
         /\ t.targets = TokensOf(t.user)
         /\ t.reset = Nil => users[t.user].active

CopiesAreCurrent == \A s \in Slot : CopyIsCurrent(s)

\* The tables: a family has one live token at most; accounts in use, owners of
\* tokens and of links are registered.
OneLiveToken ==
  \A x, y \in Live : tokens[x].family = tokens[y].family => x = y

OwnersAreRegistered ==
  /\ \A u \in User : users[u].active => Registered(u)
  /\ \A t \in Issued : Registered(tokens[t].user)
  /\ \A r \in Reset : resets[r].user # Nil => Registered(resets[r].user)

UsedWasRequested == \A r \in Reset : resets[r].used => resets[r].user # Nil

TablesInv == OneLiveToken /\ OwnersAreRegistered /\ UsedWasRequested

SerialInv == CopiesAreCurrent /\ TablesInv

-----------------------------------------------------------------------------
\* What the writes make of the tables.

\* Accounts: only three actions change who may sign in or the password.
SameAccounts ==
  \A u \in User : /\ users'[u].active <=> users[u].active
                  /\ users'[u].password = users[u].password

LEMMA RegisterRows ==
  ASSUME Typed, NEW s \in Slot, NEW u \in User, Register(s, u)
  PROVE  \A x \in User :
           /\ users'[x].active <=> x = u \/ users[x].active
           /\ users'[x].password = IF x = u THEN 1 ELSE users[x].password
  BY DEF Typed, SessionTypeOK, UserRow, Register

LEMMA ActiveRows ==
  ASSUME Typed, NEW s \in Slot, NEW u \in User, NEW b \in BOOLEAN, SetActive(s, u, b)
  PROVE  \A x \in User :
           /\ users'[x].active <=> IF x = u THEN b ELSE users[x].active
           /\ users'[x].password = users[x].password
  BY DEF Typed, SessionTypeOK, UserRow, SetActive

LEMMA LoginKeepsAccounts ==
  ASSUME Typed, NEW s \in Slot, NEW n \in Token, CommitLogin(s, n)
  PROVE  SameAccounts
  <1>1. txn[s].user \in User
    BY Blanks DEF Typed, SessionTypeOK, CommitLogin, BusyTxn
  <1>2. PICK a, b : users' = [users EXCEPT ![txn[s].user].failed = a,
                                           ![txn[s].user].locked = b]
    BY DEF CommitLogin
  <1> QED
    BY <1>1, <1>2 DEF Typed, SessionTypeOK, UserRow, SameAccounts

LEMMA ResetRows ==
  ASSUME Typed, NEW s \in Slot, CommitReset(s)
  PROVE  /\ txn[s].user \in User /\ txn[s].reset \in Reset
         /\ txn[s].targets \in SUBSET Token
         /\ \A x \in User :
              /\ users'[x].active <=> users[x].active
              /\ users'[x].password = IF x = txn[s].user THEN users[x].password + 1
                                      ELSE users[x].password
         /\ \A r \in Reset :
              /\ resets'[r].user = resets[r].user
              /\ resets'[r].used <=> r = txn[s].reset \/ resets[r].used
  <1>1. /\ txn[s].user \in User /\ txn[s].reset \in Reset
        /\ txn[s].targets \in SUBSET Token
    BY Blanks DEF Typed, SessionTypeOK, CommitReset, BusyTxn
  <1> QED
    BY <1>1 DEF Typed, SessionTypeOK, UserRow, ResetRow, CommitReset

\* Tokens.
LEMMA Revoking ==
  ASSUME Typed, NEW g \in SUBSET Token, Revoke(g)
  PROVE  /\ Issued' = Issued
         /\ Live' = Live \ g
         /\ \A f : Family(f)' = Family(f)
         /\ \A t \in Token : /\ tokens'[t].user = tokens[t].user
                             /\ tokens'[t].family = tokens[t].family
                             /\ tokens'[t].since = tokens[t].since
  <1>1. \A t \in Token : /\ tokens'[t].user = tokens[t].user
                         /\ tokens'[t].family = tokens[t].family
                         /\ tokens'[t].since = tokens[t].since
                         /\ tokens'[t].revoked = IF t \in g THEN TRUE
                                                 ELSE tokens[t].revoked
    BY DEF Typed, SessionTypeOK, TokenRow, Revoke
  <1> QED
    BY <1>1 DEF Issued, Live, Family

LEMMA SigningIn ==
  ASSUME Typed, RotationInv, NEW s \in Slot, NEW n \in Token, CommitLogin(s, n)
  PROVE  /\ n \notin Issued
         /\ Issued' = Issued \union {n}
         /\ Live' = Live \union {n}
         /\ \A f : Family(f)' = IF f = n THEN {n} ELSE Family(f)
         /\ tokens'[n].user = txn[s].user
         /\ tokens'[n].family = n
         /\ tokens'[n].since = txn[s].account.password
         /\ \A t \in Token \ {n} : tokens'[t] = tokens[t]
  <1> DEFINE row == [user |-> txn[s].user, family |-> n, revoked |-> FALSE,
                     next |-> Nil, since |-> txn[s].account.password]
  <1>1. tokens' = [tokens EXCEPT ![n] = row] /\ tokens \in [Token -> TokenRow]
    BY DEF CommitLogin, Typed, SessionTypeOK
  <1>2. /\ row.user = txn[s].user /\ row.family = n /\ ~row.revoked
        /\ row.since = txn[s].account.password
    OBVIOUS
  <1>3. tokens[n].user = Nil /\ tokens'[n].user \in User
    BY LoginRows
  <1> HIDE DEF row
  <1>4. tokens'[n] = row /\ \A t \in Token \ {n} : tokens'[t] = tokens[t]
    BY <1>1
  <1>5. n \notin Issued /\ Issued' = Issued \union {n}
    BY <1>3, <1>4, SessionConstants DEF Issued
  <1>6. Live' = Live \union {n}
    BY <1>2, <1>4, <1>5 DEF Live, Issued
  <1>7. Family(n) = {}
    BY <1>5 DEF RotationInv, FamiliesAreRooted, Family
  <1>8. \A f : Family(f)' = IF f = n THEN {n} ELSE Family(f)
    BY <1>2, <1>4, <1>5, <1>7 DEF Family, Issued
  <1> QED
    BY <1>2, <1>4, <1>5, <1>6, <1>8

LEMMA Rotating ==
  ASSUME Typed, NEW s \in Slot, NEW n \in Token, CommitRefresh(s, n),
         NEW o, o = txn[s].token
  PROVE  /\ o \in Issued /\ n \notin Issued
         /\ Issued' = Issued \union {n}
         /\ Live' = (Live \ {o}) \union {n}
         /\ \A f : Family(f)' = IF f = tokens[o].family THEN Family(f) \union {n}
                                ELSE Family(f)
         /\ tokens'[n].user = tokens[o].user
         /\ tokens'[n].family = tokens[o].family
         /\ tokens'[n].since = tokens[o].since
         /\ \A t \in Token \ {n} : /\ tokens'[t].user = tokens[t].user
                                   /\ tokens'[t].family = tokens[t].family
                                   /\ tokens'[t].since = tokens[t].since
  <1>1. /\ o \in Issued /\ tokens[n].user = Nil /\ o # n /\ o \in Token
        /\ tokens'[o].user = tokens[o].user
        /\ tokens'[o].family = tokens[o].family
        /\ tokens'[o].revoked
        /\ tokens'[n].user = tokens[o].user
        /\ tokens'[n].family = tokens[o].family
        /\ \A t \in Token \ {o, n} : tokens'[t] = tokens[t]
    BY RefreshRows DEF Issued
  <1>2. /\ tokens'[o].since = tokens[o].since
        /\ tokens'[n].since = tokens[o].since
        /\ ~tokens'[n].revoked
    <2> DEFINE old == [tokens[o] EXCEPT !.revoked = TRUE, !.next = n]
               new == [tokens[o] EXCEPT !.revoked = FALSE, !.next = Nil]
    <2>1. tokens[o] \in TokenRow /\ tokens \in [Token -> TokenRow]
      BY <1>1 DEF Typed, SessionTypeOK
    <2>2. /\ old.since = tokens[o].since
          /\ new.since = tokens[o].since /\ ~new.revoked
      BY <2>1 DEF TokenRow
    <2>3. tokens' = [tokens EXCEPT ![o] = old, ![n] = new]
      BY DEF CommitRefresh, Rotated
    <2> HIDE DEF old, new
    <2> QED
      BY <1>1, <2>1, <2>2, <2>3
  <1>3. n \notin Issued /\ Issued' = Issued \union {n}
    BY <1>1 DEF Issued
  <1>4. Live' = (Live \ {o}) \union {n}
    BY <1>1, <1>2, <1>3 DEF Live, Issued
  <1>5. \A f : Family(f)' = IF f = tokens[o].family THEN Family(f) \union {n}
                            ELSE Family(f)
    BY <1>1, <1>3 DEF Family, Issued
  <1> QED
    BY <1>1, <1>2, <1>3, <1>4, <1>5

-----------------------------------------------------------------------------
\* The invariant.

LEMMA SerialInit == Init => SerialInv
  <1> SUFFICES ASSUME Init PROVE SerialInv
    OBVIOUS
  <1>1. Issued = {} /\ Live = {}
    BY DEF Init, Issued, Live, NoToken
  <1>2. TablesInv
    BY <1>1 DEF Init, TablesInv, OneLiveToken, OwnersAreRegistered, UsedWasRequested,
       NoUser, NoReset
  <1>3. CopiesAreCurrent
    BY DEF Init, CopiesAreCurrent, CopyIsCurrent, IdleTxn
  <1> QED
    BY <1>2, <1>3 DEF SerialInv

\* A request is accepted, and one ends, with no other under way.
LEMMA NothingCopied ==
  ASSUME OneSession, NEW s \in Slot, txn'[s].pc = "idle"
  PROVE  CopiesAreCurrent'
  <1>1. \A r \in Slot : txn'[r].pc = "idle"
    BY DEF OneSession
  <1> QED
    BY <1>1 DEF CopiesAreCurrent, CopyIsCurrent

\* What a handler has just read is so.
LEMMA CopiesLoaded ==
  ASSUME OneSession, Typed, SerialInv, NEW s \in Slot,
         \/ \E u \in User : \/ LoadForLogin(s, u)
                            \/ RefusePassword(s, u)
                            \/ StartLogoutAll(s, u)
         \/ \E t \in Token : LoadForRefresh(s, t) \/ LoadRevoked(s, t)
         \/ \E r \in Reset : LoadForReset(s, r)
  PROVE  CopiesAreCurrent'
  <1>1. /\ txn \in [Slot -> Txns] /\ users \in [User -> UserRow]
        /\ tokens \in [Token -> TokenRow] /\ OwnersAreRegistered
    BY DEF Typed, SessionTypeOK, Txns, SerialInv, TablesInv
  <1>2. UNCHANGED <<users, tokens, resets>>
    BY DEF LoadForLogin, RefusePassword, StartLogoutAll, LoadForRefresh, LoadRevoked,
       LoadForReset
  <1>3. SUFFICES CopyIsCurrent(s)'
    BY DEF OneSession, CopiesAreCurrent
  <1>4. ASSUME NEW u \in User, LoadForLogin(s, u)
        PROVE  CopyIsCurrent(s)'
    <2>1. PICK row \in UserRow : row = users[u]
      BY <1>1
    <2>2. [row EXCEPT !.failed = 0, !.locked = FALSE].password = row.password
      BY DEF UserRow
    <2>3. /\ txn'[s].pc = "login" /\ txn'[s].user = u
          /\ txn'[s].account = [row EXCEPT !.failed = 0, !.locked = FALSE]
      BY <1>1, <1>4, <2>1 DEF LoadForLogin, Serve
    <2> QED
      BY <1>2, <1>4, <2>1, <2>2, <2>3 DEF CopyIsCurrent, LoadForLogin, MayLogin, Registered
  <1>5. ASSUME NEW u \in User, RefusePassword(s, u)
        PROVE  CopyIsCurrent(s)'
    <2>1. txn'[s].pc = "refused" /\ txn'[s].user = u
      BY <1>1, <1>5 DEF RefusePassword, Serve
    <2> QED
      BY <1>2, <1>5, <2>1 DEF CopyIsCurrent, RefusePassword, MayLogin, Registered
  <1>6. ASSUME NEW u \in User, StartLogoutAll(s, u)
        PROVE  CopyIsCurrent(s)'
    <2>1. /\ txn'[s].pc = "revoke" /\ txn'[s].user = u /\ txn'[s].reset = Nil
          /\ txn'[s].targets = TokensOf(u)
      BY <1>1, <1>6 DEF StartLogoutAll, Serve
    <2>2. users[u].active /\ Registered(u)
      BY <1>1, <1>6 DEF StartLogoutAll, OwnersAreRegistered
    <2> QED
      BY <1>2, <2>1, <2>2 DEF CopyIsCurrent, Registered, TokensOf
  <1>7. ASSUME NEW t \in Token, LoadForRefresh(s, t)
        PROVE  CopyIsCurrent(s)'
    <2>1. /\ txn'[s].pc = "token" /\ txn'[s].user = tokens[t].user
          /\ txn'[s].token = t
      BY <1>1, <1>7 DEF LoadForRefresh, Serve
    <2>2. t \in Live /\ Registered(tokens[t].user)
      BY <1>1, <1>7 DEF LoadForRefresh, OwnersAreRegistered, Live
    <2> QED
      BY <1>2, <2>1, <2>2 DEF CopyIsCurrent, Registered, Live, Issued
  <1>8. ASSUME NEW t \in Token, LoadRevoked(s, t)
        PROVE  CopyIsCurrent(s)'
    <2>1. txn'[s].pc = "reuse" /\ txn'[s].user = tokens[t].user
      BY <1>1, <1>8 DEF LoadRevoked, Serve
    <2>2. Registered(tokens[t].user)
      BY <1>1, <1>8 DEF LoadRevoked, OwnersAreRegistered
    <2> QED
      BY <1>2, <2>1, <2>2 DEF CopyIsCurrent, Registered
  <1>9. ASSUME NEW r \in Reset, LoadForReset(s, r)
        PROVE  CopyIsCurrent(s)'
    <2>1. /\ txn'[s].pc = "reset" /\ txn'[s].user = resets[r].user
          /\ txn'[s].reset = r
      BY <1>1, <1>9 DEF LoadForReset, Serve
    <2>2. /\ resets[r].user # Nil /\ ~resets[r].used /\ resets[r] \in ResetRow
          /\ Registered(resets[r].user) /\ r # Nil
      BY <1>1, <1>9, SessionConstants
      DEF LoadForReset, OwnersAreRegistered, Typed, SessionTypeOK
    <2>3. resets[r] = [user |-> resets[r].user, used |-> FALSE]
      BY <2>2 DEF ResetRow
    <2> QED
      BY <1>2, <2>1, <2>2, <2>3 DEF CopyIsCurrent, Registered
  <1> QED
    BY <1>4, <1>5, <1>6, <1>7, <1>8, <1>9

\* A reset that is under way selects the tokens to revoke.
LEMMA CopiesSelected ==
  ASSUME OneSession, Typed, SerialInv, NEW s \in Slot, StartReset(s)
  PROVE  CopiesAreCurrent'
  <1>1. SUFFICES CopyIsCurrent(s)'
    BY DEF OneSession, CopiesAreCurrent
  <1>2. PICK t \in BusyTxn : t = txn[s] /\ t.pc = "reset"
    BY Blanks DEF StartReset, Typed, SessionTypeOK
  <1>3. txn' = [txn EXCEPT ![s] = [t EXCEPT !.pc = "revoke",
                                           !.targets = TokensOf(t.user)]]
    BY <1>2 DEF StartReset, ToRevoke
  <1>4. /\ txn'[s].pc = "revoke" /\ txn'[s].user = t.user /\ txn'[s].reset = t.reset
        /\ txn'[s].targets = TokensOf(t.user)
    BY <1>2, <1>3 DEF Typed, SessionTypeOK, BusyTxn
  <1>5. /\ Registered(t.user) /\ t.reset # Nil
        /\ resets[t.reset] = [user |-> t.user, used |-> FALSE]
    BY <1>2 DEF SerialInv, CopiesAreCurrent, CopyIsCurrent
  <1>6. UNCHANGED <<users, tokens, resets>>
    BY DEF StartReset
  <1> QED
    BY <1>4, <1>5, <1>6 DEF CopyIsCurrent, Registered, TokensOf

\* A refresh that is under way finds the user of its token.
LEMMA CopiesFound ==
  ASSUME OneSession, Typed, SerialInv, NEW s \in Slot, FindOwner(s)
  PROVE  CopiesAreCurrent'
  <1>1. SUFFICES CopyIsCurrent(s)'
    BY DEF OneSession, CopiesAreCurrent
  <1>2. PICK t \in BusyTxn : t = txn[s] /\ t.pc = "token"
    BY Blanks DEF FindOwner, Typed, SessionTypeOK
  <1>3. txn' = [txn EXCEPT ![s] = [t EXCEPT !.pc = "refresh",
                                           !.account = users[t.user]]]
    BY <1>2 DEF FindOwner
  <1>4. txn'[s].pc = "refresh" /\ txn'[s].user = t.user /\ txn'[s].token = t.token
    BY <1>2, <1>3 DEF Typed, SessionTypeOK, BusyTxn
  <1>5. Registered(t.user) /\ t.token \in Live /\ users[t.user].active
    BY <1>2 DEF SerialInv, CopiesAreCurrent, CopyIsCurrent, FindOwner
  <1>6. UNCHANGED <<users, tokens, resets>>
    BY DEF FindOwner
  <1> QED
    BY <1>4, <1>5, <1>6 DEF CopyIsCurrent, Registered, Live, Issued

LEMMA CopiesStep ==
  ASSUME OneSession, Typed, SerialInv, [Next]_vars
  PROVE  CopiesAreCurrent'
  <1>1. ASSUME NEW s \in Slot, txn[s].pc = "idle", UNCHANGED txn
        PROVE  CopiesAreCurrent'
    BY <1>1, NothingCopied
  <1>2. ASSUME NEW s \in Slot, Release(s)
        PROVE  CopiesAreCurrent'
    <2>1. txn'[s].pc = "idle"
      BY <1>2, Blanks DEF Release, Typed, SessionTypeOK
    <2> QED
      BY <2>1, NothingCopied
  <1>3. CASE UNCHANGED vars
    BY <1>3 DEF vars, SerialInv, CopiesAreCurrent, CopyIsCurrent, Registered, Live,
       Issued, TokensOf
  <1> QED
    BY <1>1, <1>2, <1>3, CopiesLoaded, CopiesSelected, CopiesFound
    DEF Next, Register, SetActive, Logout, RequestReset, Accept, CommitLogin,
        CommitRefresh, AnswerRefused, CommitLogoutAll, CommitReset, Rollback

\* Who owns a token or a link is a user.
LEMMA Owners ==
  ASSUME Typed
  PROVE  /\ \A t \in Issued : t \in Token /\ tokens[t].user \in User
         /\ \A r \in Reset : resets[r].user # Nil => resets[r].user \in User
         /\ \A u \in User : users[u].password \in Nat /\ users[u].active \in BOOLEAN
  BY DEF Typed, SessionTypeOK, Issued, TokenRow, ResetRow, UserRow

LEMMA TablesStep ==
  ASSUME Typed, Typed', RotationInv, SerialInv, [Next]_vars
  PROVE  TablesInv'
  <1>0. /\ TablesInv /\ OneLiveToken /\ OwnersAreRegistered /\ UsedWasRequested
        /\ \A t \in Issued : t \in Token /\ tokens[t].user \in User
        /\ \A t \in Issued' : t \in Token /\ tokens'[t].user \in User
        /\ \A r \in Reset : resets[r].user # Nil => resets[r].user \in User
        /\ \A u \in User : users[u].password \in Nat /\ users[u].active \in BOOLEAN
    <2>1. \A t \in Issued' : t \in Token /\ tokens'[t].user \in User
      BY DEF Typed, SessionTypeOK, Issued, TokenRow
    <2> QED
      BY <2>1, Owners DEF SerialInv, TablesInv
  <1>1. CASE UNCHANGED <<users, tokens, resets>>
    BY <1>0, <1>1 DEF TablesInv, OneLiveToken, OwnersAreRegistered, UsedWasRequested,
       Live, Issued, Registered
  <1>2. ASSUME NEW s \in Slot, NEW u \in User,
               Register(s, u) \/ \E b \in BOOLEAN : SetActive(s, u, b)
        PROVE  TablesInv'
    <2>1. UNCHANGED <<tokens, resets>>
      BY <1>2 DEF Register, SetActive
    <2>2. \A x \in User : /\ users'[x].active => Registered(x)'
                          /\ Registered(x) => Registered(x)'
      <3>1. CASE Register(s, u)
        BY <1>0, <3>1, RegisterRows DEF OwnersAreRegistered, Registered
      <3>2. ASSUME NEW b \in BOOLEAN, SetActive(s, u, b)
            PROVE  \A x \in User : /\ users'[x].active => Registered(x)'
                                   /\ Registered(x) => Registered(x)'
        <4>1. Registered(u)
          BY <3>2 DEF SetActive
        <4> QED
          BY <1>0, <3>2, <4>1, ActiveRows DEF OwnersAreRegistered, Registered
      <3> QED
        BY <1>2, <3>1, <3>2
    <2> QED
      BY <1>0, <2>1, <2>2
      DEF TablesInv, OneLiveToken, OwnersAreRegistered, UsedWasRequested, Live, Issued,
          Registered
  <1>3. ASSUME NEW g \in SUBSET Token, Revoke(g), UNCHANGED <<users, resets>>
        PROVE  TablesInv'
    <2>1. /\ Issued' = Issued /\ Live' = Live \ g
          /\ \A t \in Token : /\ tokens'[t].user = tokens[t].user
                              /\ tokens'[t].family = tokens[t].family
      BY <1>3, Revoking
    <2>2. OneLiveToken'
      BY <1>0, <2>1 DEF OneLiveToken, Live
    <2> QED
      BY <1>0, <1>3, <2>1, <2>2
      DEF TablesInv, OwnersAreRegistered, UsedWasRequested, Registered
  <1>4. ASSUME NEW s \in Slot, CommitLogoutAll(s)
        PROVE  TablesInv'
    <2>1. PICK g \in SUBSET Token : g = txn[s].targets
      BY <1>4, Blanks DEF CommitLogoutAll, Typed, SessionTypeOK, BusyTxn
    <2> QED
      BY <1>3, <1>4, <2>1 DEF CommitLogoutAll
  <1>5. ASSUME NEW s \in Slot, NEW u \in User, NEW t \in Token, Logout(s, u, t)
        PROVE  TablesInv'
    BY <1>3, <1>5 DEF Logout
  <1>6. ASSUME NEW s \in Slot, NEW u \in User, NEW r \in Reset, RequestReset(s, u, r)
        PROVE  TablesInv'
    <2>1. /\ resets' = [resets EXCEPT ![r].user = u] /\ Registered(u)
          /\ resets[r].user = Nil /\ UNCHANGED <<users, tokens>>
          /\ resets \in [Reset -> ResetRow]
      BY <1>6 DEF RequestReset, Typed, SessionTypeOK
    <2>2. \A x \in Reset : /\ resets'[x].user = IF x = r THEN u ELSE resets[x].user
                           /\ resets'[x].used = resets[x].used
      BY <2>1 DEF ResetRow
    <2> QED
      BY <1>0, <2>1, <2>2, SessionConstants
      DEF TablesInv, OneLiveToken, OwnersAreRegistered, UsedWasRequested, Live, Issued,
          Registered
  <1>7. ASSUME NEW s \in Slot, NEW n \in Token, CommitLogin(s, n)
        PROVE  TablesInv'
    <2>1. /\ SameAccounts /\ resets' = resets
          /\ n \notin Issued /\ Issued' = Issued \union {n} /\ Live' = Live \union {n}
          /\ tokens'[n].family = n /\ tokens'[n].user = txn[s].user
          /\ \A t \in Token \ {n} : tokens'[t] = tokens[t]
      BY <1>7, LoginKeepsAccounts, SigningIn DEF CommitLogin
    <2>2. Registered(txn[s].user)
      BY <1>7 DEF CommitLogin, SerialInv, CopiesAreCurrent, CopyIsCurrent
    <2>3. \A t \in Live : tokens[t].family # n
      BY <2>1 DEF RotationInv, FamiliesAreRooted, Live
    <2>4. OneLiveToken'
      BY <1>0, <2>1, <2>3 DEF OneLiveToken, Live, Issued
    <2> QED
      BY <1>0, <2>1, <2>2, <2>4
      DEF TablesInv, OwnersAreRegistered, UsedWasRequested, Registered, SameAccounts,
          Issued
  <1>8. ASSUME NEW s \in Slot, NEW n \in Token, CommitRefresh(s, n)
        PROVE  TablesInv'
    <2>1. PICK o : o = txn[s].token
      OBVIOUS
    <2>2. /\ o \in Issued /\ n \notin Issued
          /\ Issued' = Issued \union {n} /\ Live' = (Live \ {o}) \union {n}
          /\ tokens'[n].family = tokens[o].family /\ tokens'[n].user = tokens[o].user
          /\ \A t \in Token \ {n} : /\ tokens'[t].user = tokens[t].user
                                    /\ tokens'[t].family = tokens[t].family
      BY <1>8, <2>1, Rotating
    <2>3. UNCHANGED <<users, resets>> /\ o \in Live
      BY <1>8, <2>1 DEF CommitRefresh, SerialInv, CopiesAreCurrent, CopyIsCurrent
    <2>4. OneLiveToken'
      BY <1>0, <2>2, <2>3 DEF OneLiveToken, Live, Issued
    <2> QED
      BY <1>0, <2>2, <2>3, <2>4
      DEF TablesInv, OwnersAreRegistered, UsedWasRequested, Registered, Issued
  <1>9. ASSUME NEW s \in Slot, CommitReset(s)
        PROVE  TablesInv'
    <2>1. PICK u \in User, r \in Reset, g \in SUBSET Token :
             u = txn[s].user /\ r = txn[s].reset /\ g = txn[s].targets
      BY <1>9, ResetRows
    <2>2. /\ \A x \in User :
               /\ users'[x].active <=> users[x].active
               /\ users'[x].password = IF x = u THEN users[x].password + 1
                                       ELSE users[x].password
          /\ \A x \in Reset :
               /\ resets'[x].user = resets[x].user
               /\ resets'[x].used <=> x = r \/ resets[x].used
      BY <1>9, <2>1, ResetRows
    <2>3. /\ Issued' = Issued /\ Live' = Live \ g
          /\ \A t \in Token : /\ tokens'[t].user = tokens[t].user
                              /\ tokens'[t].family = tokens[t].family
      BY <1>9, <2>1, Revoking DEF CommitReset
    <2>4. OneLiveToken'
      BY <1>0, <2>3 DEF OneLiveToken, Live
    <2>5. resets[r].user # Nil
      <3>1. txn[s].pc = "revoke" /\ txn[s].reset # Nil
        BY <1>9 DEF CommitReset
      <3>2. resets[r] = [user |-> u, used |-> FALSE]
        BY <2>1, <3>1 DEF SerialInv, CopiesAreCurrent, CopyIsCurrent
      <3> QED
        BY <3>2, SessionConstants
    <2>6. OwnersAreRegistered'
      <3>1. \A x \in User : Registered(x) => Registered(x)'
        BY <1>0, <2>2 DEF Registered
      <3>2. /\ \A x \in User : users'[x].active => users'[x].password > 0
            /\ \A t \in Issued' : users'[tokens[t].user].password > 0
            /\ \A x \in Reset : resets[x].user # Nil
                                  => users'[resets[x].user].password > 0
        BY <1>0, <2>2, <2>3, <3>1 DEF OwnersAreRegistered, Registered
      <3>3. \A t \in Issued' : tokens'[t].user = tokens[t].user
        BY <1>0, <2>3
      <3> QED
        BY <2>2, <3>2, <3>3 DEF OwnersAreRegistered, Registered
    <2> QED
      BY <1>0, <2>2, <2>4, <2>5, <2>6 DEF TablesInv, UsedWasRequested
  <1>10. ASSUME NEW s \in Slot,
                \/ \E u \in User : \/ LoadForLogin(s, u) \/ RefusePassword(s, u)
                                   \/ StartLogoutAll(s, u)
                \/ \E t \in Token : LoadForRefresh(s, t) \/ LoadRevoked(s, t)
                \/ \E r \in Reset : LoadForReset(s, r)
                \/ FindOwner(s) \/ StartReset(s) \/ AnswerRefused(s) \/ Rollback(s)
         PROVE  UNCHANGED <<users, tokens, resets>>
    BY <1>10 DEF LoadForLogin, RefusePassword, StartLogoutAll, LoadForRefresh,
       LoadRevoked, LoadForReset, FindOwner, StartReset, AnswerRefused, Rollback
  <1>11. CASE UNCHANGED vars
    BY <1>1, <1>11 DEF vars
  <1> QED
    BY <1>1, <1>2, <1>4, <1>5, <1>6, <1>7, <1>8, <1>9, <1>10, <1>11 DEF Next

\* Everything that holds while requests are served one after the other.
SerialStates == Typed /\ RotationInv /\ SerialInv

LEMMA InTurn == ASSUME OneSession PROVE Spec => []SerialStates
  <1>1. Typed /\ Typed' /\ RotationInv /\ SerialInv /\ [Next]_vars => SerialInv'
    BY CopiesStep, TablesStep DEF SerialInv
  <1>2. Spec => []Typed
    BY TypedInit, TypedStep, PTL DEF Spec
  <1> QED
    BY <1>1, <1>2, RotationIsConsistent, SerialInit, PTL DEF Spec, SerialStates

-----------------------------------------------------------------------------
\* Passwords.

\* What a commit of a password reset does, with its links and sessions.
LEMMA Resetting ==
  ASSUME SerialStates, NEW s \in Slot, CommitReset(s)
  PROVE  \E u \in User, r \in Reset :
           /\ u = txn[s].user /\ r = txn[s].reset
           /\ Registered(u) /\ resets[r] = [user |-> u, used |-> FALSE]
           /\ Issued' = Issued /\ Live' = Live \ TokensOf(u)
           /\ \A f : Family(f)' = Family(f)
           /\ \A t \in Token : /\ tokens'[t].user = tokens[t].user
                               /\ tokens'[t].family = tokens[t].family
                               /\ tokens'[t].since = tokens[t].since
  <1>1. Typed /\ txn[s].pc = "revoke" /\ txn[s].reset # Nil
    BY DEF SerialStates, CommitReset
  <1>2. PICK u \in User, r \in Reset : u = txn[s].user /\ r = txn[s].reset
    BY <1>1, ResetRows
  <1>3. /\ Registered(u) /\ resets[r] = [user |-> u, used |-> FALSE]
        /\ txn[s].targets = TokensOf(u)
    BY <1>1, <1>2 DEF SerialStates, SerialInv, CopiesAreCurrent, CopyIsCurrent
  <1>4. TokensOf(u) \in SUBSET Token /\ Revoke(TokensOf(u))
    BY <1>3 DEF CommitReset, TokensOf
  <1> QED
    BY <1>1, <1>2, <1>3, <1>4, Revoking

\* Tokens only retire and accounts keep their passwords.
LEMMA CurrentKept ==
  ASSUME Typed, SessionsAreCurrent, Live' \in SUBSET Live,
         \A t \in Token : /\ tokens'[t].user = tokens[t].user
                          /\ tokens'[t].since = tokens[t].since,
         \A t \in Live' : users'[tokens[t].user].password
                            = users[tokens[t].user].password
  PROVE  SessionsAreCurrent'
  <1>1. \A t \in Live' : t \in Token /\ t \in Live
    BY DEF Live, Issued
  <1> QED
    BY <1>1 DEF SessionsAreCurrent

LEMMA CurrentStep ==
  ASSUME SerialStates, SessionsAreCurrent, [Next]_vars
  PROVE  SessionsAreCurrent'
  <1>0. /\ Typed /\ RotationInv /\ SerialInv
        /\ \A t \in Issued : /\ t \in Token /\ tokens[t].user \in User
                             /\ Registered(tokens[t].user)
        /\ Live \in SUBSET Issued
    BY Owners DEF SerialStates, SerialInv, TablesInv, OwnersAreRegistered, Live
  <1>1. CASE UNCHANGED <<users, tokens>>
    BY <1>1 DEF SessionsAreCurrent, Live, Issued
  <1>2. ASSUME NEW s \in Slot, NEW u \in User,
               Register(s, u) \/ \E b \in BOOLEAN : SetActive(s, u, b)
        PROVE  SessionsAreCurrent'
    <2>1. Live' = Live /\ tokens' = tokens
      BY <1>2 DEF Register, SetActive, Live, Issued
    <2>2. \A x \in User : Registered(x) => users'[x].password = users[x].password
      BY <1>0, <1>2, RegisterRows, ActiveRows DEF Register
    <2> QED
      BY <1>0, <2>1, <2>2, CurrentKept
  <1>3. ASSUME NEW g \in SUBSET Token, Revoke(g), UNCHANGED users
        PROVE  SessionsAreCurrent'
    BY <1>0, <1>3, Revoking, CurrentKept
  <1>4. ASSUME NEW s \in Slot, CommitLogoutAll(s)
        PROVE  SessionsAreCurrent'
    <2>1. PICK g \in SUBSET Token : g = txn[s].targets
      BY <1>0, <1>4, Blanks DEF CommitLogoutAll, Typed, SessionTypeOK, BusyTxn
    <2> QED
      BY <1>3, <1>4, <2>1 DEF CommitLogoutAll
  <1>5. ASSUME NEW s \in Slot, NEW u \in User, NEW t \in Token, Logout(s, u, t)
        PROVE  SessionsAreCurrent'
    BY <1>3, <1>5 DEF Logout
  <1>6. ASSUME NEW s \in Slot, NEW n \in Token, CommitLogin(s, n)
        PROVE  SessionsAreCurrent'
    <2>1. /\ SameAccounts /\ n \notin Issued /\ Live' = Live \union {n}
          /\ tokens'[n].user = txn[s].user
          /\ tokens'[n].since = txn[s].account.password
          /\ \A t \in Token \ {n} : tokens'[t] = tokens[t]
      BY <1>0, <1>6, LoginKeepsAccounts, SigningIn
    <2>2. /\ txn[s].account.password = users[txn[s].user].password
          /\ txn[s].user \in User
      BY <1>0, <1>6, Blanks
      DEF CommitLogin, SerialInv, CopiesAreCurrent, CopyIsCurrent, Typed,
          SessionTypeOK, BusyTxn
    <2> QED
      BY <1>0, <2>1, <2>2 DEF SessionsAreCurrent, SameAccounts
  <1>7. ASSUME NEW s \in Slot, NEW n \in Token, CommitRefresh(s, n)
        PROVE  SessionsAreCurrent'
    <2>1. PICK o : o = txn[s].token
      OBVIOUS
    <2>2. /\ n \notin Issued /\ Live' = (Live \ {o}) \union {n}
          /\ tokens'[n].user = tokens[o].user /\ tokens'[n].since = tokens[o].since
          /\ \A t \in Token \ {n} : /\ tokens'[t].user = tokens[t].user
                                    /\ tokens'[t].since = tokens[t].since
      BY <1>0, <1>7, <2>1, Rotating
    <2>3. users' = users /\ o \in Live
      BY <1>0, <1>7, <2>1 DEF CommitRefresh, SerialInv, CopiesAreCurrent, CopyIsCurrent
    <2> QED
      BY <1>0, <2>2, <2>3 DEF SessionsAreCurrent
  <1>8. ASSUME NEW s \in Slot, CommitReset(s)
        PROVE  SessionsAreCurrent'
    <2>1. PICK u \in User : u = txn[s].user /\ Live' = Live \ TokensOf(u)
      BY <1>8, Resetting
    <2>2. \A t \in Live' : t \in Live /\ tokens[t].user # u
      BY <1>0, <2>1 DEF TokensOf
    <2>3. \A x \in User \ {u} : users'[x].password = users[x].password
      BY <1>0, <1>8, <2>1, ResetRows
    <2>4. \A t \in Token : /\ tokens'[t].user = tokens[t].user
                           /\ tokens'[t].since = tokens[t].since
      BY <1>8, Resetting
    <2> QED
      BY <1>0, <2>1, <2>2, <2>3, <2>4, CurrentKept
  <1>9. ASSUME NEW s \in Slot,
               \/ \E u \in User : \/ LoadForLogin(s, u) \/ RefusePassword(s, u)
                                  \/ StartLogoutAll(s, u)
                                  \/ \E r \in Reset : RequestReset(s, u, r)
               \/ \E t \in Token : LoadForRefresh(s, t) \/ LoadRevoked(s, t)
               \/ \E r \in Reset : LoadForReset(s, r)
               \/ FindOwner(s) \/ StartReset(s) \/ AnswerRefused(s) \/ Rollback(s)
         PROVE  UNCHANGED <<users, tokens>>
    BY <1>9 DEF LoadForLogin, RefusePassword, StartLogoutAll, LoadForRefresh,
       LoadRevoked, LoadForReset, FindOwner, StartReset, AnswerRefused, Rollback, RequestReset
  <1>10. CASE UNCHANGED vars
    BY <1>1, <1>10 DEF vars
  <1> QED
    BY <1>1, <1>2, <1>4, <1>5, <1>6, <1>7, <1>8, <1>9, <1>10 DEF Next

\* Served one after the other, every live token descends from a sign-in with the
\* present password, for all users, tokens and links: a reset reaches the whole
\* of every family of the user (confirm_password_reset).
THEOREM ResetEndsSessions == ASSUME OneSession PROVE Spec => []SessionsAreCurrent
  <1>1. Init => SessionsAreCurrent
    BY DEF Init, SessionsAreCurrent, Live, Issued, NoToken
  <1>2. SerialStates /\ SessionsAreCurrent /\ [Next]_vars => SessionsAreCurrent'
    BY CurrentStep
  <1> QED
    BY InTurn, <1>1, <1>2, PTL DEF Spec

\* The links with which a user has chosen a password, as the property has them.
UsedBy(u) == {r \in Reset : resets[r] = [user |-> u, used |-> TRUE]}

\* They are finitely many, however many links there may be.
UsesInv ==
  \A u \in User :
    /\ IsFiniteSet(UsedBy(u))
    /\ users[u].password = IF Registered(u) THEN 1 + Cardinality(UsedBy(u)) ELSE 0

LEMMA UsesStep ==
  ASSUME SerialStates, UsesInv, [Next]_vars
  PROVE  UsesInv'
  <1>0. /\ Typed /\ RotationInv /\ SerialInv /\ OwnersAreRegistered
        /\ \A u \in User : users[u].password \in Nat
    BY Owners DEF SerialStates, SerialInv, TablesInv
  <1>1. ASSUME \A u \in User : UsedBy(u)' = UsedBy(u),
               \A u \in User : users'[u].password = users[u].password
        PROVE  UsesInv'
    BY <1>1 DEF UsesInv, Registered
  <1>2. CASE UNCHANGED <<users, resets>>
    BY <1>1, <1>2 DEF UsedBy
  <1>3. ASSUME NEW s \in Slot, NEW u \in User, Register(s, u)
        PROVE  UsesInv'
    <2>1. UsedBy(u) = {}
      BY <1>0, <1>3, SessionConstants DEF UsedBy, OwnersAreRegistered, Register
    <2>2. \A x \in User : UsedBy(x)' = UsedBy(x)
      BY <1>3 DEF UsedBy, Register
    <2>3. \A x \in User : users'[x].password = IF x = u THEN 1 ELSE users[x].password
      BY <1>0, <1>3, RegisterRows
    <2> QED
      BY <2>1, <2>2, <2>3, FS_EmptySet DEF UsesInv, Registered
  <1>4. ASSUME NEW s \in Slot, NEW u \in User, NEW b \in BOOLEAN, SetActive(s, u, b)
        PROVE  UsesInv'
    BY <1>0, <1>1, <1>4, ActiveRows DEF UsedBy, SetActive
  <1>5. ASSUME NEW s \in Slot, NEW n \in Token, CommitLogin(s, n)
        PROVE  UsesInv'
    BY <1>0, <1>1, <1>5, LoginKeepsAccounts DEF UsedBy, CommitLogin, SameAccounts
  <1>6. ASSUME NEW s \in Slot, NEW u \in User, NEW r \in Reset, RequestReset(s, u, r)
        PROVE  UsesInv'
    <2>1. /\ resets' = [resets EXCEPT ![r].user = u] /\ resets[r].user = Nil
          /\ users' = users /\ resets \in [Reset -> ResetRow] /\ ~resets[r].used
      BY <1>0, <1>6
      DEF RequestReset, Typed, SessionTypeOK, SerialInv, TablesInv, UsedWasRequested
    <2>2. ~resets'[r].used
      BY <2>1 DEF ResetRow
    <2>3. \A x \in Reset : resets[x] # resets'[x] => ~resets[x].used /\ ~resets'[x].used
      BY <2>1, <2>2
    <2>4. \A x \in User : UsedBy(x)' = UsedBy(x)
      BY <2>3 DEF UsedBy
    <2> QED
      BY <1>1, <2>1, <2>4
  <1>7. ASSUME NEW s \in Slot, CommitReset(s)
        PROVE  UsesInv'
    <2>1. PICK u \in User, r \in Reset :
            /\ u = txn[s].user /\ r = txn[s].reset
            /\ Registered(u) /\ resets[r] = [user |-> u, used |-> FALSE]
      BY <1>7, Resetting
    <2>2. resets'[r] = [user |-> u, used |-> TRUE]
      <3>1. resets'[r] \in ResetRow
        BY <1>0, TypedStep DEF Typed, SessionTypeOK
      <3>2. resets'[r].user = u /\ resets'[r].used
        BY <1>0, <1>7, <2>1, ResetRows
      <3> QED
        BY <3>1, <3>2 DEF ResetRow
    <2>3. \A x \in Reset \ {r} : resets'[x] = resets[x]
      BY <1>0, <1>7, <2>1 DEF CommitReset, Typed, SessionTypeOK
    <2>4. UsedBy(u)' = UsedBy(u) \union {r} /\ r \notin UsedBy(u)
      BY <2>1, <2>2, <2>3 DEF UsedBy
    <2>5. \A x \in User \ {u} : UsedBy(x)' = UsedBy(x)
      BY <2>1, <2>2, <2>3 DEF UsedBy
    <2>6. \A x \in User : users'[x].password = IF x = u THEN users[x].password + 1
                                               ELSE users[x].password
      BY <1>0, <1>7, <2>1, ResetRows
    <2>7. /\ IsFiniteSet(UsedBy(u)') /\ Cardinality(UsedBy(u)) \in Nat
          /\ Cardinality(UsedBy(u)') = Cardinality(UsedBy(u)) + 1
      BY <2>4, FS_AddElement, FS_CardinalityType DEF UsesInv
    <2>8. /\ users[u].password = 1 + Cardinality(UsedBy(u))
          /\ users'[u].password = 1 + Cardinality(UsedBy(u)') /\ Registered(u)'
      BY <2>1, <2>6, <2>7 DEF UsesInv, Registered
    <2>9. ASSUME NEW x \in User, x # u
          PROVE  /\ IsFiniteSet(UsedBy(x)')
                 /\ users'[x].password = IF Registered(x)' THEN 1 + Cardinality(UsedBy(x)')
                                         ELSE 0
      BY <2>5, <2>6, <2>9 DEF UsesInv, Registered
    <2> QED
      BY <2>7, <2>8, <2>9 DEF UsesInv
  <1>8. ASSUME NEW s \in Slot,
               \/ \E u \in User : \/ LoadForLogin(s, u) \/ RefusePassword(s, u)
                                  \/ StartLogoutAll(s, u)
                                  \/ \E t \in Token : Logout(s, u, t)
               \/ \E t \in Token : \/ LoadForRefresh(s, t) \/ LoadRevoked(s, t)
                                   \/ CommitRefresh(s, t)
               \/ \E r \in Reset : LoadForReset(s, r)
               \/ FindOwner(s) \/ StartReset(s) \/ AnswerRefused(s)
               \/ CommitLogoutAll(s) \/ Rollback(s)
         PROVE  UNCHANGED <<users, resets>>
    BY <1>8 DEF LoadForLogin, RefusePassword, StartLogoutAll, Logout, LoadForRefresh,
       LoadRevoked, CommitRefresh, LoadForReset, FindOwner, StartReset, AnswerRefused,
       CommitLogoutAll, Rollback
  <1>9. CASE UNCHANGED vars
    BY <1>2, <1>9 DEF vars
  <1> QED
    BY <1>2, <1>3, <1>4, <1>5, <1>6, <1>7, <1>8, <1>9 DEF Next

\* Served one after the other, a link changes a password once: the version of a
\* password counts the links used, for any number of links.
THEOREM LinksAreUsedOnce == ASSUME OneSession PROVE Spec => []ResetIsSingleUse
  <1>1. Init => UsesInv
    <2> SUFFICES ASSUME Init, NEW u \in User
                 PROVE  /\ IsFiniteSet(UsedBy(u))
                        /\ users[u].password = 0 /\ ~Registered(u)
      BY DEF UsesInv
    <2>1. UsedBy(u) = {}
      BY DEF Init, UsedBy, NoReset
    <2> QED
      BY <2>1, FS_EmptySet DEF Init, NoUser, Registered
  <1>2. SerialStates /\ UsesInv /\ [Next]_vars => UsesInv'
    BY UsesStep
  <1>3. UsesInv => ResetIsSingleUse
    BY DEF UsesInv, UsedBy, ResetIsSingleUse
  <1> QED
    BY InTurn, <1>1, <1>2, <1>3, PTL DEF Spec

-----------------------------------------------------------------------------
\* The mapping to SessionStore, component by component.

Owner(f) == IF tokens[f].family = f THEN tokens[f].user ELSE Nil

TheOne(S) == IF S = {} THEN Nil ELSE CHOOSE t \in S : TRUE

Current(f) == TheOne(Live \intersect Family(f))

Pending(r) == IF resets[r].used THEN Nil ELSE resets[r].user

ActiveNow == {u \in User : users[u].active}
PasswordNow == [u \in User |-> users[u].password]
OwnerNow == [f \in Token |-> Owner(f)]
CurrentNow == [f \in Token |-> Current(f)]
PendingNow == [r \in Reset |-> Pending(r)]

\* The store's actions are stated about these values.
LEMMA Mapped ==
  /\ UNCHANGED Promise!vars <=>
       UNCHANGED <<ActiveNow, PasswordNow, OwnerNow, CurrentNow, Issued, PendingNow>>
  /\ \A f, n : Promise!Issue(f, n) <=>
       /\ n \notin Issued
       /\ Issued' = Issued \union {n}
       /\ CurrentNow' = [CurrentNow EXCEPT ![f] = n]
  /\ \A u : Promise!End(u) <=>
       CurrentNow' = [f \in Token |-> IF OwnerNow[f] = u THEN Nil ELSE CurrentNow[f]]
  BY Zenon DEF Promise!vars, Promise!Issue, Promise!End, ActiveNow, PasswordNow,
     OwnerNow, CurrentNow, PendingNow, Owner, Current, Pending, TheOne

LEMMA MappedAccounts ==
  /\ \A u : Promise!Register(u) <=>
       /\ PasswordNow[u] = 0
       /\ PasswordNow' = [PasswordNow EXCEPT ![u] = 1]
       /\ ActiveNow' = ActiveNow \union {u}
       /\ UNCHANGED <<OwnerNow, CurrentNow, Issued, PendingNow>>
  /\ \A u, b : Promise!SetActive(u, b) <=>
       /\ PasswordNow[u] > 0
       /\ ActiveNow' = IF b THEN ActiveNow \union {u} ELSE ActiveNow \ {u}
       /\ UNCHANGED <<PasswordNow, OwnerNow, CurrentNow, Issued, PendingNow>>
  /\ \A u, r : Promise!Forget(u, r) <=>
       /\ PasswordNow[u] > 0
       /\ PendingNow[r] = Nil
       /\ PendingNow' = [PendingNow EXCEPT ![r] = u]
       /\ UNCHANGED <<ActiveNow, PasswordNow, OwnerNow, CurrentNow, Issued>>
  /\ \A r : Promise!NewPassword(r) <=>
       /\ PendingNow[r] # Nil
       /\ PasswordNow' = [PasswordNow EXCEPT ![PendingNow[r]] = @ + 1]
       /\ PendingNow' = [PendingNow EXCEPT ![r] = Nil]
       /\ Promise!End(PendingNow[r])
       /\ UNCHANGED <<ActiveNow, OwnerNow, Issued>>
  BY Zenon DEF Promise!Register, Promise!SetActive, Promise!Forget, Promise!NewPassword,
     ActiveNow, PasswordNow, OwnerNow, CurrentNow, PendingNow, Owner, Current, Pending,
     TheOne

LEMMA MappedSessions ==
  /\ \A u, f : Promise!SignIn(u, f) <=>
       /\ u \in ActiveNow
       /\ OwnerNow' = [OwnerNow EXCEPT ![f] = u]
       /\ Promise!Issue(f, f)
       /\ UNCHANGED <<ActiveNow, PasswordNow, PendingNow>>
  /\ \A f, n : Promise!Rotate(f, n) <=>
       /\ CurrentNow[f] # Nil
       /\ OwnerNow[f] \in ActiveNow
       /\ Promise!Issue(f, n)
       /\ UNCHANGED <<ActiveNow, PasswordNow, OwnerNow, PendingNow>>
  /\ \A f : Promise!SignOut(f) <=>
       /\ OwnerNow[f] \in ActiveNow
       /\ CurrentNow' = [CurrentNow EXCEPT ![f] = Nil]
       /\ UNCHANGED <<ActiveNow, PasswordNow, OwnerNow, Issued, PendingNow>>
  /\ \A u : Promise!SignOutAll(u) <=>
       /\ u \in ActiveNow
       /\ Promise!End(u)
       /\ UNCHANGED <<ActiveNow, PasswordNow, OwnerNow, Issued, PendingNow>>
  BY Zenon DEF Promise!SignIn, Promise!Rotate, Promise!SignOut, Promise!SignOutAll,
     ActiveNow, PasswordNow, OwnerNow, CurrentNow, PendingNow, Owner, Current, Pending,
     TheOne

\* Tables that do not change leave the values that come from them.
LEMMA SameTokens ==
  UNCHANGED tokens => UNCHANGED <<OwnerNow, CurrentNow, Issued>>
  BY DEF OwnerNow, CurrentNow, Owner, Current, Issued, Live, Family

LEMMA SameUsers == UNCHANGED users => UNCHANGED <<ActiveNow, PasswordNow>>
  BY DEF ActiveNow, PasswordNow

LEMMA SameResets == UNCHANGED resets => UNCHANGED PendingNow
  BY DEF PendingNow, Pending

LEMMA OnlyOne == TheOne({}) = Nil /\ \A t : TheOne({t}) = t
  BY DEF TheOne

\* A live token is the current token of its family, which its user owns.
LEMMA LiveIsCurrent ==
  ASSUME SerialStates, NEW t \in Live
  PROVE  /\ tokens[t].family \in Token
         /\ Owner(tokens[t].family) = tokens[t].user
         /\ Live \intersect Family(tokens[t].family) = {t}
         /\ Current(tokens[t].family) = t /\ t # Nil
  <1>1. t \in Issued /\ t \in Token /\ t # Nil
    BY SessionConstants DEF Live, Issued
  <1>2. /\ tokens[t].family \in Token
        /\ Owner(tokens[t].family) = tokens[t].user
    BY <1>1 DEF SerialStates, RotationInv, FamiliesAreRooted, Owner, Issued
  <1>3. Live \intersect Family(tokens[t].family) = {t}
    BY <1>1 DEF SerialStates, SerialInv, TablesInv, OneLiveToken, Family
  <1> QED
    BY <1>1, <1>2, <1>3, OnlyOne DEF Current

\* Ending a user's sessions leaves those of the others.
LEMMA Ending ==
  ASSUME SerialStates, NEW u \in User,
         Issued' = Issued, Live' = Live \ TokensOf(u),
         \A f : Family(f)' = Family(f),
         \A t \in Token : /\ tokens'[t].user = tokens[t].user
                          /\ tokens'[t].family = tokens[t].family
  PROVE  \A f \in Token :
           /\ Owner(f)' = Owner(f)
           /\ Current(f)' = IF Owner(f) = u THEN Nil ELSE Current(f)
  <1> SUFFICES ASSUME NEW f \in Token
               PROVE  /\ Owner(f)' = Owner(f)
                      /\ Current(f)' = IF Owner(f) = u THEN Nil ELSE Current(f)
    OBVIOUS
  <1>1. Owner(f)' = Owner(f)
    BY DEF Owner
  <1>2. \A t \in Family(f) : t \in Token /\ tokens[t].user = Owner(f)
    BY DEF SerialStates, RotationInv, FamiliesAreRooted, Family, Owner, Issued
  <1>3. CASE Owner(f) = u
    <2>1. Live' \intersect Family(f)' = {}
      BY <1>2, <1>3 DEF TokensOf
    <2> QED
      BY <1>1, <1>3, <2>1, OnlyOne DEF Current
  <1>4. CASE Owner(f) # u
    <2>1. Live' \intersect Family(f)' = Live \intersect Family(f)
      BY <1>2, <1>4 DEF TokensOf
    <2> QED
      BY <1>1, <1>4, <2>1 DEF Current
  <1> QED
    BY <1>3, <1>4, <1>1

-----------------------------------------------------------------------------
\* The steps of the service as steps of the store.

LEMMA RefineInit == Init => Promise!Init
  <1> SUFFICES ASSUME Init PROVE Promise!Init
    OBVIOUS
  <1>1. Issued = {} /\ Live = {}
    BY DEF Init, Issued, Live, NoToken
  <1>2. /\ \A u \in User : ~users[u].active /\ users[u].password = 0
        /\ \A f \in Token : Owner(f) = Nil
        /\ \A r \in Reset : Pending(r) = Nil
    BY DEF Init, NoUser, NoToken, NoReset, Owner, Pending
  <1>3. \A f \in Token : Live \intersect Family(f) = {}
    BY <1>1
  <1> QED
    BY <1>1, <1>2, <1>3 DEF Promise!Init, Owner, Pending

LEMMA RefineStutter ==
  ASSUME UNCHANGED <<users, tokens, resets>>
  PROVE  UNCHANGED Promise!vars
  BY SameUsers, SameTokens, SameResets, Mapped

\* register_user, and is_active.
LEMMA RefineRegister ==
  ASSUME Typed, NEW s \in Slot, NEW u \in User, Register(s, u)
  PROVE  Promise!Register(u)
  <1>1. users[u].password \in Nat /\ ~Registered(u)
    BY Owners DEF Register
  <1>2. /\ {x \in User : users'[x].active} = {x \in User : users[x].active} \union {u}
        /\ \A x \in User : users'[x].password = IF x = u THEN 1 ELSE users[x].password
    BY RegisterRows
  <1>3. PasswordNow[u] = 0 /\ PasswordNow' = [PasswordNow EXCEPT ![u] = 1]
    <2>1. users[u].password = 0
      BY <1>1 DEF Registered
    <2>2. \A x \in User : users'[x].password = IF x = u THEN 1 ELSE users[x].password
      BY <1>2
    <2> QED
      BY <2>1, <2>2 DEF PasswordNow
  <1>4. ActiveNow' = ActiveNow \union {u}
    BY <1>2 DEF ActiveNow
  <1>5. UNCHANGED <<OwnerNow, CurrentNow, Issued, PendingNow>>
    BY SameTokens, SameResets DEF Register
  <1> QED
    BY <1>3, <1>4, <1>5, MappedAccounts

LEMMA RefineActive ==
  ASSUME Typed, NEW s \in Slot, NEW u \in User, NEW b \in BOOLEAN, SetActive(s, u, b)
  PROVE  Promise!SetActive(u, b)
  <1>1. {x \in User : users'[x].active} =
          IF b THEN {x \in User : users[x].active} \union {u}
          ELSE {x \in User : users[x].active} \ {u}
    BY ActiveRows
  <1>2. /\ \A x \in User : users'[x].password = users[x].password
        /\ UNCHANGED <<tokens, resets>> /\ Registered(u)
    BY ActiveRows DEF SetActive
  <1>3. /\ PasswordNow[u] > 0 /\ PasswordNow' = PasswordNow
        /\ ActiveNow' = IF b THEN ActiveNow \union {u} ELSE ActiveNow \ {u}
    BY <1>1, <1>2 DEF PasswordNow, ActiveNow, Registered
  <1> QED
    BY <1>2, <1>3, SameTokens, SameResets, MappedAccounts

\* authenticate, at its commit.
LEMMA RefineLogin ==
  ASSUME SerialStates, NEW s \in Slot, NEW n \in Token, CommitLogin(s, n)
  PROVE  \E u \in User : Promise!SignIn(u, n)
  <1>0. Typed /\ RotationInv /\ txn[s].pc = "login"
    BY DEF SerialStates, CommitLogin
  <1>1. PICK u \in User : u = txn[s].user /\ users[u].active
    BY <1>0, Blanks
    DEF Typed, SessionTypeOK, BusyTxn, SerialStates, SerialInv, CopiesAreCurrent,
        CopyIsCurrent
  <1>2. /\ n \notin Issued /\ Issued' = Issued \union {n} /\ Live' = Live \union {n}
        /\ \A f : Family(f)' = IF f = n THEN {n} ELSE Family(f)
        /\ tokens'[n].user = u /\ tokens'[n].family = n
        /\ \A t \in Token \ {n} : tokens'[t] = tokens[t]
    BY <1>0, <1>1, SigningIn
  <1>3. \A f \in Token : Owner(f)' = IF f = n THEN u ELSE Owner(f)
    BY <1>2 DEF Owner
  <1>4. ASSUME NEW f \in Token
        PROVE  Current(f)' = IF f = n THEN n ELSE Current(f)
    <2>1. Live' \intersect Family(f)' = IF f = n THEN {n} ELSE Live \intersect Family(f)
      BY <1>2 DEF Family
    <2> QED
      BY <2>1, OnlyOne DEF Current
  <1>5. /\ {x \in User : users'[x].active} = {x \in User : users[x].active}
        /\ \A x \in User : users'[x].password = users[x].password
        /\ resets' = resets
    BY <1>0, LoginKeepsAccounts DEF SameAccounts, CommitLogin
  <1>6. /\ OwnerNow' = [OwnerNow EXCEPT ![n] = u]
        /\ CurrentNow' = [CurrentNow EXCEPT ![n] = n]
    BY <1>3, <1>4 DEF OwnerNow, CurrentNow
  <1>7. u \in ActiveNow /\ UNCHANGED <<ActiveNow, PasswordNow, PendingNow>>
    BY <1>1, <1>5, SameResets DEF ActiveNow, PasswordNow
  <1> QED
    BY <1>2, <1>6, <1>7, Mapped, MappedSessions

\* refresh_session, at its commit.
LEMMA RefineRefresh ==
  ASSUME SerialStates, NEW s \in Slot, NEW n \in Token, CommitRefresh(s, n)
  PROVE  \E f \in Token : Promise!Rotate(f, n)
  <1>0. Typed /\ RotationInv /\ txn[s].pc = "refresh"
    BY DEF SerialStates, CommitRefresh
  <1>1. PICK o \in Live : o = txn[s].token /\ users[tokens[o].user].active
    BY <1>0
    DEF Typed, PresentedIsStored, SerialStates, SerialInv, CopiesAreCurrent,
        CopyIsCurrent
  <1>2. /\ o \in Issued /\ n \notin Issued
        /\ Issued' = Issued \union {n} /\ Live' = (Live \ {o}) \union {n}
        /\ \A f : Family(f)' = IF f = tokens[o].family THEN Family(f) \union {n}
                               ELSE Family(f)
        /\ tokens'[n].user = tokens[o].user /\ tokens'[n].family = tokens[o].family
        /\ \A t \in Token \ {n} : /\ tokens'[t].user = tokens[t].user
                                  /\ tokens'[t].family = tokens[t].family
    BY <1>0, <1>1, Rotating
  <1>3. PICK g \in Token : /\ g = tokens[o].family /\ Owner(g) = tokens[o].user
                           /\ Live \intersect Family(g) = {o}
                           /\ Current(g) = o /\ o # Nil
    BY LiveIsCurrent
  <1>4. g \in Issued /\ Owner(g) \in User /\ users[Owner(g)].active
    BY <1>0, <1>1, <1>2, <1>3, Owners DEF RotationInv, FamiliesAreRooted
  <1>5. \A f \in Token : Owner(f)' = Owner(f)
    BY <1>2, <1>3, <1>4 DEF Owner, Issued
  <1>6. ASSUME NEW f \in Token
        PROVE  Current(f)' = IF f = g THEN n ELSE Current(f)
    <2>1. Live' \intersect Family(f)' = IF f = g THEN {n} ELSE Live \intersect Family(f)
      BY <1>2, <1>3 DEF Family
    <2> QED
      BY <2>1, OnlyOne DEF Current
  <1>7. UNCHANGED <<users, resets>>
    BY DEF CommitRefresh
  <1>8. /\ OwnerNow' = OwnerNow /\ CurrentNow' = [CurrentNow EXCEPT ![g] = n]
        /\ OwnerNow[g] \in ActiveNow /\ CurrentNow[g] # Nil
    BY <1>3, <1>4, <1>5, <1>6 DEF OwnerNow, CurrentNow, ActiveNow
  <1> QED
    BY <1>2, <1>7, <1>8, SameUsers, SameResets, Mapped, MappedSessions

\* logout ends the session of a live token; of a revoked one it changes nothing.
LEMMA RefineLogout ==
  ASSUME SerialStates, NEW s \in Slot, NEW u \in User, NEW t \in Token,
         Logout(s, u, t)
  PROVE  \/ \E f \in Token : Promise!SignOut(f)
         \/ UNCHANGED Promise!vars
  <1>1. /\ Issued' = Issued /\ Live' = Live \ {t}
        /\ \A f : Family(f)' = Family(f)
        /\ \A x \in Token : /\ tokens'[x].user = tokens[x].user
                            /\ tokens'[x].family = tokens[x].family
    BY Revoking DEF Logout, SerialStates
  <1>2. /\ UNCHANGED <<users, resets>>
        /\ tokens[t].user = u /\ users[u].active
    BY DEF Logout, TokensOf
  <1>3. OwnerNow' = OwnerNow
    BY <1>1 DEF Owner, OwnerNow
  <1>4. CASE t \in Live
    <2>1. PICK g \in Token : /\ g = tokens[t].family /\ Owner(g) = u
                             /\ Live \intersect Family(g) = {t}
      BY <1>2, <1>4, LiveIsCurrent
    <2>2. ASSUME NEW f \in Token
          PROVE  Current(f)' = IF f = g THEN Nil ELSE Current(f)
      <3>1. Live' \intersect Family(f)' = IF f = g THEN {} ELSE Live \intersect Family(f)
        BY <1>1, <2>1 DEF Family
      <3> QED
        BY <3>1, OnlyOne DEF Current
    <2>3. Promise!SignOut(g)
      <3>1. CurrentNow' = [CurrentNow EXCEPT ![g] = Nil]
        BY <2>2 DEF CurrentNow
      <3>2. OwnerNow[g] \in ActiveNow
        BY <1>2, <2>1 DEF OwnerNow, ActiveNow
      <3> QED
        BY <1>1, <1>2, <1>3, <3>1, <3>2, SameUsers, SameResets, MappedSessions
    <2> QED
      BY <2>3
  <1>5. CASE t \notin Live
    <2>1. CurrentNow' = CurrentNow
      <3>1. Live' = Live
        BY <1>1, <1>5
      <3>2. \A f : Current(f)' = Current(f)
        BY <1>1, <3>1 DEF Current
      <3> QED
        BY <3>2 DEF CurrentNow
    <2> QED
      BY <1>1, <1>2, <1>3, <2>1, SameUsers, SameResets, Mapped
  <1> QED
    BY <1>4, <1>5

\* logout_all, at its commit.
LEMMA RefineLogoutAll ==
  ASSUME SerialStates, NEW s \in Slot, CommitLogoutAll(s)
  PROVE  \E u \in User : Promise!SignOutAll(u)
  <1>0. Typed /\ txn[s].pc = "revoke" /\ txn[s].reset = Nil
    BY DEF SerialStates, CommitLogoutAll
  <1>1. PICK u \in User : /\ u = txn[s].user /\ users[u].active
                          /\ txn[s].targets = TokensOf(u)
    BY <1>0, Blanks
    DEF Typed, SessionTypeOK, BusyTxn, SerialStates, SerialInv, CopiesAreCurrent,
        CopyIsCurrent
  <1>2. TokensOf(u) \in SUBSET Token /\ Revoke(TokensOf(u))
    BY <1>1 DEF CommitLogoutAll, TokensOf
  <1>3. /\ Issued' = Issued
        /\ \A f \in Token : /\ Owner(f)' = Owner(f)
                            /\ Current(f)' = IF Owner(f) = u THEN Nil ELSE Current(f)
    BY <1>0, <1>2, Revoking, Ending
  <1>4. UNCHANGED <<users, resets>>
    BY DEF CommitLogoutAll
  <1>5. /\ OwnerNow' = OwnerNow
        /\ CurrentNow' = [f \in Token |-> IF OwnerNow[f] = u THEN Nil ELSE CurrentNow[f]]
    BY <1>3 DEF OwnerNow, CurrentNow
  <1>6. u \in ActiveNow
    BY <1>1 DEF ActiveNow
  <1> QED
    BY <1>3, <1>4, <1>5, <1>6, SameUsers, SameResets, Mapped, MappedSessions

\* request_password_reset.
LEMMA RefineRequest ==
  ASSUME SerialStates, NEW s \in Slot, NEW u \in User, NEW r \in Reset,
         RequestReset(s, u, r)
  PROVE  Promise!Forget(u, r)
  <1>1. /\ resets' = [resets EXCEPT ![r].user = u] /\ resets[r].user = Nil
        /\ Registered(u) /\ UNCHANGED <<users, tokens>>
        /\ resets \in [Reset -> ResetRow] /\ ~resets[r].used
    BY DEF RequestReset, SerialStates, Typed, SessionTypeOK, SerialInv, TablesInv,
       UsedWasRequested
  <1>2. \A x \in Reset : /\ resets'[x].user = IF x = r THEN u ELSE resets[x].user
                         /\ resets'[x].used <=> resets[x].used
    BY <1>1 DEF ResetRow
  <1>3. \A x \in Reset : Pending(x)' = IF x = r THEN u ELSE Pending(x)
    BY <1>1, <1>2 DEF Pending
  <1>4. Pending(r) = Nil
    BY <1>1 DEF Pending
  <1>5. /\ PasswordNow[u] > 0 /\ PendingNow[r] = Nil
        /\ PendingNow' = [PendingNow EXCEPT ![r] = u]
    BY <1>1, <1>3, <1>4 DEF PasswordNow, PendingNow, Registered
  <1> QED
    BY <1>1, <1>5, SameUsers, SameTokens, MappedAccounts

\* confirm_password_reset, at its commit.
LEMMA RefineReset ==
  ASSUME SerialStates, NEW s \in Slot, CommitReset(s)
  PROVE  \E r \in Reset : Promise!NewPassword(r)
  <1>1. PICK u \in User, r \in Reset :
           /\ u = txn[s].user /\ r = txn[s].reset
           /\ resets[r] = [user |-> u, used |-> FALSE]
           /\ Issued' = Issued /\ Live' = Live \ TokensOf(u)
           /\ \A f : Family(f)' = Family(f)
           /\ \A t \in Token : /\ tokens'[t].user = tokens[t].user
                               /\ tokens'[t].family = tokens[t].family
    BY Resetting
  <1>2. \A f \in Token : /\ Owner(f)' = Owner(f)
                         /\ Current(f)' = IF Owner(f) = u THEN Nil ELSE Current(f)
    BY <1>1, Ending
  <1>3. /\ {x \in User : users'[x].active} = {x \in User : users[x].active}
        /\ \A x \in User : users'[x].password = IF x = u THEN users[x].password + 1
                                                ELSE users[x].password
        /\ \A x \in Reset : /\ resets'[x].user = resets[x].user
                            /\ resets'[x].used <=> x = r \/ resets[x].used
    BY <1>1, ResetRows DEF SerialStates
  <1>4. \A x \in Reset : Pending(x)' = IF x = r THEN Nil ELSE Pending(x)
    BY <1>3 DEF Pending
  <1>5. Pending(r) = u /\ u # Nil
    BY <1>1, SessionConstants DEF Pending
  <1>6. /\ OwnerNow' = OwnerNow
        /\ CurrentNow' = [f \in Token |-> IF OwnerNow[f] = u THEN Nil ELSE CurrentNow[f]]
    BY <1>2 DEF OwnerNow, CurrentNow
  <1>7. /\ PendingNow[r] = u /\ u # Nil
        /\ PendingNow' = [PendingNow EXCEPT ![r] = Nil]
        /\ ActiveNow' = ActiveNow
        /\ PasswordNow' = [PasswordNow EXCEPT ![u] = @ + 1]
    BY <1>3, <1>4, <1>5 DEF PendingNow, ActiveNow, PasswordNow
  <1>8. Promise!End(PendingNow[r])
    BY <1>6, <1>7, Mapped
  <1>9. PasswordNow' = [PasswordNow EXCEPT ![PendingNow[r]] = @ + 1]
    BY <1>7
  <1>10. Promise!NewPassword(r)
    BY <1>1, <1>6, <1>7, <1>8, <1>9, MappedAccounts
  <1> QED
    BY <1>10

LEMMA RefineStep ==
  ASSUME SerialStates, [Next]_vars
  PROVE  [Promise!Next]_(Promise!vars)
  <1>0. Typed
    BY DEF SerialStates
  <1>1. ASSUME NEW s \in Slot,
               \/ \E u \in User : \/ LoadForLogin(s, u) \/ RefusePassword(s, u)
                                  \/ StartLogoutAll(s, u)
               \/ \E t \in Token : LoadForRefresh(s, t) \/ LoadRevoked(s, t)
               \/ \E r \in Reset : LoadForReset(s, r)
               \/ FindOwner(s) \/ StartReset(s) \/ AnswerRefused(s) \/ Rollback(s)
         PROVE  UNCHANGED <<users, tokens, resets>>
    BY <1>1 DEF LoadForLogin, RefusePassword, StartLogoutAll, LoadForRefresh,
       LoadRevoked, LoadForReset, FindOwner, StartReset, AnswerRefused, Rollback
  <1>2. CASE UNCHANGED vars
    BY <1>2, RefineStutter DEF vars
  <1>3. ASSUME NEW s \in Slot, NEW u \in User,
               \/ Register(s, u)
               \/ \E b \in BOOLEAN : SetActive(s, u, b)
               \/ \E r \in Reset : RequestReset(s, u, r)
        PROVE  Promise!Next
    BY <1>0, <1>3, RefineRegister, RefineActive, RefineRequest DEF Promise!Next
  <1>4. ASSUME NEW s \in Slot, NEW n \in Token, CommitLogin(s, n) \/ CommitRefresh(s, n)
        PROVE  Promise!Next
    BY <1>4, RefineLogin, RefineRefresh DEF Promise!Next
  <1>5. ASSUME NEW s \in Slot, NEW u \in User, NEW t \in Token, Logout(s, u, t)
        PROVE  [Promise!Next]_(Promise!vars)
    BY <1>5, RefineLogout DEF Promise!Next
  <1>6. ASSUME NEW s \in Slot, CommitLogoutAll(s) \/ CommitReset(s)
        PROVE  Promise!Next
    BY <1>6, RefineLogoutAll, RefineReset DEF Promise!Next
  <1> QED
    BY <1>1, <1>2, <1>3, <1>4, <1>5, <1>6, RefineStutter DEF Next

\* Requests served one after the other implement the session store, for any
\* number of users, tokens and links: one token at a time, rotation, sign-out,
\* and reset links that work once.
THEOREM SessionsServedInTurn ==
  ASSUME OneSession PROVE Spec => ImplementsSessionStore
  <1>1. SerialStates /\ [Next]_vars => [Promise!Next]_(Promise!vars)
    BY RefineStep
  <1> QED
    BY InTurn, RefineInit, <1>1, PTL DEF Spec, ImplementsSessionStore, Promise!Spec

=============================================================================
