----------------------------- MODULE WebClient -----------------------------
(***************************************************************************)
(* The web client's session: the tokens a browser tab holds in memory, the *)
(* copy that all tabs persist in one place, and the calls a tab makes to   *)
(* the API.  A call that is refused presents the refresh token of its tab  *)
(* once, stores the pair it gets, and is sent again.  The requests of a    *)
(* call are served by the authentication service as Sessions has it, in a  *)
(* database session of its own, so a slot stands for a call and for the    *)
(* session that serves it.                                                 *)
(*                                                                         *)
(* An access token is named by the refresh token it was issued with.  What *)
(* a call asks of the API, apart from signing in and out, is left out.     *)
(***************************************************************************)
EXTENDS Sessions

CONSTANTS Tab,
          MaxCalls,     \* bound: calls made in one behaviour
          MaxReloads    \* bound: reloads of tabs in one behaviour

ASSUME WebConstants ==
  /\ Nil \notin Tab \union {"api", "me", "login", "signout", "ok", "refused"}
  /\ User # {}
  /\ Token # {} /\ Token \subseteq Nat
  /\ Slot \subseteq Nat
  /\ MaxCalls \in Nat /\ MaxReloads \in Nat

VARIABLES
  store,     \* tab -> the state of useAuthStore in its memory
  disk,      \* the state that persist has written, shared by the tabs
  call,      \* slot -> the call of which it serves the requests
  expired,   \* access tokens whose time is over
  told,      \* auxiliary: tab -> refresh tokens it knows to be replaced
  reloads,   \* reloads so far
  calls      \* calls made so far

clientVars == <<store, disk, call, told, reloads, calls>>
webVars == <<vars, clientVars, expired>>

-----------------------------------------------------------------------------
\* useAuthStore.  ask: the effect of App has not run yet for this access token.

SignedOut == [access |-> Nil, refresh |-> Nil, user |-> Nil, ask |-> FALSE]

\* Mutant of WithTokens: only the access token is stored.
WithAccess(s, n) ==
  [s EXCEPT !.access = n, !.ask = TRUE,
            !.refresh = IF s.refresh = Nil THEN n ELSE s.refresh]

\* setTokens.
WithTokens(s, n) == [s EXCEPT !.access = n, !.refresh = n, !.ask = TRUE]

\* Every change of a tab's state is persisted whole.
Set(tab, s) ==
  /\ store' = [store EXCEPT ![tab] = s]
  /\ disk' = s

Keep == UNCHANGED <<store, disk>>

-----------------------------------------------------------------------------
\* Calls.  pc: the request itself has been sent, or the one that renews the
\* tokens.  answer: Nil, "ok" or "refused" (401); issued: the tokens in it.

NoCall == [pc |-> "idle", tab |-> Nil, kind |-> Nil, access |-> Nil,
           presented |-> Nil, retried |-> FALSE, answer |-> Nil,
           issued |-> Nil]

Kind == {"api", "me", "login", "signout"}

Request(tab, kind, access) ==
  [pc |-> "sent", tab |-> tab, kind |-> kind, access |-> access,
   presented |-> Nil, retried |-> FALSE, answer |-> Nil, issued |-> Nil]

\* The pages behind Protected need a user; the effect asks who the user is.
MayCall(tab, kind) ==
  LET s == store[tab] IN
    CASE kind = "login" -> s.user = Nil
      [] kind = "me"    -> s.ask
      [] OTHER          -> s.access # Nil /\ s.user # Nil

\* Calls take the first slot that is free.
Free(k) == call[k] = NoCall /\ txn[k].pc = "idle"

Call(k, tab, kind) ==
  /\ Free(k)
  /\ \A j \in Slot : Free(j) => k <= j
  /\ calls < MaxCalls
  /\ MayCall(tab, kind)
  /\ call' = [call EXCEPT ![k] = Request(tab, kind, store[tab].access)]
  /\ store' = [store EXCEPT ![tab].ask = @ /\ kind # "me"]
  /\ calls' = calls + 1
  /\ UNCHANGED <<vars, disk, expired, told, reloads>>

-----------------------------------------------------------------------------
\* The server's side of a call.

Awaits(k, pc) == call[k].pc = pc /\ call[k].answer = Nil /\ txn[k].pc = "idle"

\* get_current_user.
Authorised(k) ==
  /\ call[k].access # Nil
  /\ call[k].access \notin expired
  /\ users[tokens[call[k].access].user].active

\* The answer of a request that the client has given up reaches nobody.
Reply(k, answer, n) ==
  /\ call' = IF call[k] = NoCall THEN call
             ELSE [call EXCEPT ![k].answer = answer, ![k].issued = n]
  /\ UNCHANGED <<store, disk, expired, told, reloads, calls>>

\* Tokens are numbered in the order in which they are issued.
IsNext(n) == Fresh(n) /\ \A m \in Token : Fresh(m) => n <= m

ServeSimple(k) ==
  /\ Awaits(k, "sent")
  /\ call[k].kind # "login"
  /\ call[k].kind = "signout" => ~Authorised(k)
  /\ Reply(k, IF Authorised(k) THEN "ok" ELSE "refused", Nil)
  /\ UNCHANGED vars

StartServing(k) ==
  /\ \/ /\ Awaits(k, "sent") /\ call[k].kind = "login"
        /\ \E u \in User : LoadForLogin(k, u) \/ RefusePassword(k, u)
     \/ /\ Awaits(k, "sent") /\ call[k].kind = "signout" /\ Authorised(k)
        /\ StartLogoutAll(k, tokens[call[k].access].user)
     \/ /\ Awaits(k, "renewing")
        /\ LoadForRefresh(k, call[k].presented) \/ LoadRevoked(k, call[k].presented)
  /\ UNCHANGED <<clientVars, expired>>

\* refresh_session goes on with the user, who is active: nobody is deactivated here.
GoOnServing(k) ==
  /\ FindOwner(k)
  /\ UNCHANGED <<clientVars, expired>>

FinishServing(k) ==
  \/ \E n \in Token :
       /\ IsNext(n)
       /\ CommitLogin(k, n) \/ CommitRefresh(k, n)
       /\ Reply(k, "ok", n)
  \/ CommitLogoutAll(k) /\ Reply(k, "ok", Nil)
  \/ AnswerRefused(k) /\ Reply(k, "refused", Nil)
  \/ txn[k].pc = "reuse" /\ Rollback(k) /\ Reply(k, "refused", Nil)

\* An error other than 401 is to the client what a lost answer is: the call
\* has been given up when its request is rolled back.
ServerFails(k) ==
  /\ call[k] = NoCall
  /\ Rollback(k)
  /\ UNCHANGED <<clientVars, expired>>

Serve1(k) == ServeSimple(k) \/ StartServing(k) \/ GoOnServing(k) \/ FinishServing(k)

\* A token of fifteen minutes runs out; it matters when it is looked at.
Expire(t) ==
  /\ t \notin expired
  /\ \E k \in Slot : Awaits(k, "sent") /\ call[k].access = t
  /\ expired' = expired \union {t}
  /\ UNCHANGED <<vars, clientVars>>

-----------------------------------------------------------------------------
\* The client's side: an answer arrives.

\* Mutant of SignsOutOnError: signOut clears the tab after a success only.
CheckSignsOut == {"me", "login"}

\* Calls whose error clears the tab: the effect of App, the sign-in form, and
\* signOut, which clears it in any case.
SignsOutOnError == {"me", "login", "signout"}

Done(k) == call' = [call EXCEPT ![k] = NoCall]

Succeed(k) ==
  /\ call[k].pc = "sent" /\ call[k].answer = "ok" /\ call[k].kind # "login"
  /\ LET tab == call[k].tab IN
       CASE call[k].kind = "me" ->
              Set(tab, [store[tab] EXCEPT !.user = tokens[call[k].access].user])
         [] call[k].kind = "signout" -> Set(tab, SignedOut)
         [] OTHER -> Keep
  /\ Done(k)
  /\ UNCHANGED told

\* The sign-in form stores the tokens and asks who the user is.
SignIn(k) ==
  /\ call[k].pc = "sent" /\ call[k].answer = "ok" /\ call[k].kind = "login"
  /\ LET tab == call[k].tab IN
       /\ Set(tab, WithTokens(store[tab], call[k].issued))
       /\ call' = [call EXCEPT ![k] = Request(tab, "me", call[k].issued)]
  /\ UNCHANGED told

MayRenew(k) == ~call[k].retried /\ store[call[k].tab].refresh # Nil

\* The refresh token is the one the tab holds when the answer arrives.
Renew(k) ==
  /\ call[k].pc = "sent" /\ call[k].answer = "refused"
  /\ MayRenew(k)
  /\ call' = [call EXCEPT ![k].pc = "renewing", ![k].answer = Nil,
                          ![k].presented = store[call[k].tab].refresh,
                          ![k].retried = TRUE]
  /\ Keep
  /\ UNCHANGED told

Renewed(k) ==
  /\ call[k].pc = "renewing" /\ call[k].answer = "ok"
  /\ LET tab == call[k].tab
         n   == call[k].issued IN
       /\ Set(tab, WithTokens(store[tab], n))
       /\ told' = [told EXCEPT ![tab] = @ \union {call[k].presented}]
       /\ call' = [call EXCEPT ![k].pc = "sent", ![k].access = n,
                               ![k].answer = Nil, ![k].issued = Nil]

\* The call is rejected: no renewal, or a renewal that failed.
Reject(k) ==
  /\ IF call[k].pc = "renewing" \/ call[k].kind \in SignsOutOnError
     THEN Set(call[k].tab, SignedOut) ELSE Keep
  /\ Done(k)
  /\ UNCHANGED told

\* Mutant of Fail: without a refresh token the error is not passed on.
FailHolding(k) ==
  /\ call[k].answer = "refused"
  /\ call[k].pc = "sent" => ~MayRenew(k)
  /\ store[call[k].tab].refresh # Nil
  /\ Reject(k)

Fail(k) ==
  /\ call[k].answer = "refused"
  /\ call[k].pc = "sent" => ~MayRenew(k)
  /\ Reject(k)

\* No answer, or an error: a lost connection, the time-out of a call.
Lose(k) ==
  /\ call[k].pc # "idle"
  /\ Reject(k)

Receive(k) ==
  /\ Succeed(k) \/ SignIn(k) \/ Renew(k) \/ Renewed(k) \/ Fail(k)
  /\ UNCHANGED <<vars, expired, reloads, calls>>

LoseAnswer(k) == Lose(k) /\ UNCHANGED <<vars, expired, reloads, calls>>

\* A tab that is loaded again, or opened, takes its state from the disk.
Reload(tab) ==
  /\ reloads < MaxReloads
  /\ reloads' = reloads + 1
  /\ store' = [store EXCEPT ![tab] = [disk EXCEPT !.ask = disk.access # Nil]]
  /\ call' = [k \in Slot |-> IF call[k].tab = tab THEN NoCall ELSE call[k]]
  /\ told' = [told EXCEPT ![tab] = {}]
  /\ UNCHANGED <<vars, disk, expired, calls>>

-----------------------------------------------------------------------------
\* A user who has signed in, and whose tabs are loaded.
WebInit ==
  LET u == CHOOSE x \in User : TRUE
      t == CHOOSE n \in Token : \A m \in Token : n <= m
      s == [access |-> t, refresh |-> t, user |-> u, ask |-> FALSE]
  IN
  /\ users = [x \in User |-> [active |-> TRUE, password |-> 1, failed |-> 0,
                              locked |-> FALSE]]
  /\ tokens = [n \in Token |->
       IF n = t THEN [user |-> u, family |-> t, revoked |-> FALSE,
                      next |-> Nil, since |-> 1]
       ELSE NoToken]
  /\ resets = [r \in Reset |-> NoReset]
  /\ txn = [k \in Slot |-> IdleTxn]
  /\ refused = [x \in User |-> 0]
  /\ requests = 0
  /\ store = [tab \in Tab |-> s]
  /\ disk = s
  /\ call = [k \in Slot |-> NoCall]
  /\ expired = {}
  /\ told = [tab \in Tab |-> {}]
  /\ reloads = 0
  /\ calls = 0

WebNext ==
  \/ \E k \in Slot :
       \/ \E tab \in Tab, kind \in Kind : Call(k, tab, kind)
       \/ Serve1(k)
       \/ ServerFails(k)
       \/ Receive(k)
       \/ LoseAnswer(k)
  \/ \E tab \in Tab : Reload(tab)
  \/ \E t \in Token : Expire(t)

\* The server serves and answers what it has received, and an answer that has
\* arrived is handled.  Nothing else is fair.
WebFairness ==
  \A k \in Slot : WF_webVars(Serve1(k)) /\ WF_webVars(Receive(k))

WebSpec == WebInit /\ [][WebNext]_webVars /\ WebFairness

-----------------------------------------------------------------------------
\* Properties.

\* A tab never holds, and never goes back to, a refresh token that it knows to
\* be replaced, in whatever order the answers of its calls arrive and whatever
\* other tabs store meanwhile; presenting it would end the session of the tab
\* (the interceptor, setTokens).
ReplacedTokensAreDropped ==
  \A tab \in Tab : store[tab].refresh \notin told[tab]

\* "Local sign-out must still happen even if the server session is already
\* expired" (AppShell.tsx line 53): however often the call of a sign-out is
\* refused, renewed or lost, the tab is cleared when it ends (and it ends, by
\* CallsEnd), unless the tab is loaded again meanwhile.
SignOutClears ==
  [][\A k \in Slot :
       /\ call[k].kind = "signout"
       /\ call'[k].kind # "signout"
       /\ reloads' = reloads
       => store'[call[k].tab].access = Nil]_webVars

\* Every call ends: a call is renewed and sent again once, and does not go
\* round in refusals and renewals while its tokens keep expiring.
CallsEnd == \A k \in Slot : call[k].pc # "idle" ~> call[k].pc = "idle"

=============================================================================
