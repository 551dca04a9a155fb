-------------------------- MODULE WebClient_proofs --------------------------
(***************************************************************************)
(* The web client's session against the authentication service, for any    *)
(* number of tabs, calls, users and tokens.  The token table of Sessions   *)
(* stays consistent, because every request of a client is a request that   *)
(* Sessions has.  A tab never holds a token that it knows to be replaced:  *)
(* that is inductive together with where a token may be before its answer  *)
(* has arrived, which is nowhere but in the answer.  The second part is    *)
(* the claim form and the claims it leaves behind, for any photos, any     *)
(* number of attempts and any requests that are served late.               *)
(***************************************************************************)
EXTENDS WebClient, Sessions_proofs, NewClaimPage, SequenceTheorems, WellFoundedInduction

Some == Token \union {Nil}

TabStates == [access : Some, refresh : Some, user : User \union {Nil}, ask : BOOLEAN]

Sent == [pc : {"sent", "renewing"}, tab : Tab, kind : Kind, access : Some,
         presented : Some, retried : BOOLEAN, answer : {Nil, "ok", "refused"},
         issued : Some]

ClientTyped ==
  /\ store \in [Tab -> TabStates]
  /\ disk \in TabStates
  /\ call \in [Slot -> Sent \union {NoCall}]
  /\ told \in [Tab -> SUBSET Token]

\* The refresh tokens that tabs, their disk and their calls have had in hand.
Seen ==
  {t \in Token :
     \/ t = disk.refresh
     \/ \E tab \in Tab : t = store[tab].refresh \/ t \in told[tab]
     \/ \E k \in Slot : t = call[k].presented}

\* Every token that the client mentions has been issued.
Accessed ==
  {t \in Token :
     \/ t = disk.access
     \/ \E tab \in Tab : t = store[tab].access
     \/ \E k \in Slot : t = call[k].access \/ t = call[k].issued}

MentionedAreIssued == Seen \union Accessed \subseteq Issued

\* A token in an answer that has not been handled is nowhere else.
AnswersAreNew ==
  \A k \in Slot : call[k].issued # Nil =>
    /\ call[k].issued \notin Seen
    /\ \A j \in Slot \ {k} : call[j].issued # call[k].issued

\* A database session works for the request of its slot, unless the client has
\* given that up.
SlotsCorrespond ==
  \A k \in Slot : txn[k].pc # "idle" /\ call[k] # NoCall =>
    /\ call[k].answer = Nil
    /\ txn[k].pc \in {"login", "refused"} => call[k].pc = "sent" /\ call[k].kind = "login"
    /\ txn[k].pc = "revoke" => call[k].pc = "sent" /\ call[k].access # Nil
    /\ txn[k].pc \in {"token", "refresh", "reuse"} =>
         call[k].pc = "renewing" /\ call[k].presented = txn[k].token

\* What a good answer says: the request was authorised, or the token that it
\* presented is now revoked.
AnswersAreTrue ==
  \A k \in Slot : call[k].answer = "ok" =>
    /\ call[k].pc = "sent" /\ call[k].kind # "login" => call[k].access # Nil
    /\ call[k].pc = "renewing" => tokens[call[k].presented].revoked

Renewals ==
  \A k \in Slot : call[k].pc = "renewing" => call[k].presented # Nil

ToldAreRetired == \A tab \in Tab : \A t \in told[tab] : tokens[t].revoked

ClientInv ==
  /\ ClientTyped /\ MentionedAreIssued /\ AnswersAreNew /\ SlotsCorrespond
  /\ AnswersAreTrue /\ Renewals /\ ToldAreRetired /\ ReplacedTokensAreDropped

-----------------------------------------------------------------------------
\* The initial states.

LEMMA LeastToken == \E t \in Token : \A m \in Token : t <= m
<1>1. IsWellFoundedOn(OpToRel(<, Nat), Nat)
  BY NatLessThanWellFounded
<1>2. \E t \in Token : \A m \in Token : ~(<<m, t>> \in OpToRel(<, Nat))
  BY <1>1, WFMin, WebConstants, Zenon
<1>3. PICK t \in Token : \A m \in Token : ~(<<m, t>> \in OpToRel(<, Nat))
  BY <1>2
<1>4. \A m \in Token : ~(m < t)
  BY <1>3, WebConstants, Zenon DEF OpToRel
<1>5. t \in Nat /\ \A m \in Token : m \in Nat
  BY <1>3, WebConstants
<1>6. \A m \in Token : t <= m
  BY <1>4, <1>5, SMT
<1> QED BY <1>3, <1>6, Zenon

LEMMA WebTypedInit == WebInit => Typed /\ RotationInv /\ ClientInv
<1> SUFFICES ASSUME WebInit PROVE Typed /\ RotationInv /\ ClientInv
  OBVIOUS
<1>1. PICK u \in User, t \in Token :
        /\ users = [x \in User |-> [active |-> TRUE, password |-> 1, failed |-> 0,
                                    locked |-> FALSE]]
        /\ tokens = [n \in Token |->
             IF n = t THEN [user |-> u, family |-> t, revoked |-> FALSE,
                            next |-> Nil, since |-> 1]
             ELSE NoToken]
        /\ resets = [r \in Reset |-> NoReset]
        /\ txn = [k \in Slot |-> IdleTxn]
        /\ refused = [x \in User |-> 0]
        /\ requests = 0
        /\ disk = [access |-> t, refresh |-> t, user |-> u, ask |-> FALSE]
        /\ store = [tab \in Tab |-> disk]
        /\ call = [k \in Slot |-> NoCall]
        /\ told = [tab \in Tab |-> {}]
  <2>1. (CHOOSE x \in User : TRUE) \in User
    BY WebConstants
  <2>2. (CHOOSE n \in Token : \A m \in Token : n <= m) \in Token
    BY LeastToken
  <2> QED BY <2>1, <2>2 DEF WebInit
<1>2. /\ tokens \in [Token -> TokenRow]
      /\ tokens[t].user = u /\ tokens[t].family = t /\ tokens[t].next = Nil
      /\ \A n \in Token \ {t} : tokens[n].user = Nil
  <2>1. [user |-> u, family |-> t, revoked |-> FALSE, next |-> Nil, since |-> 1] \in TokenRow
    BY DEF TokenRow
  <2> QED BY <1>1, <2>1, Blanks DEF NoToken
<1>3. Issued = {t}
  BY <1>2, SessionConstants DEF Issued
<1>4. Typed
  <2>1. [active |-> TRUE, password |-> 1, failed |-> 0, locked |-> FALSE] \in UserRow
    BY DEF UserRow
  <2>2. users \in [User -> UserRow]
    BY <1>1, <2>1
  <2> QED BY <1>1, <1>2, <2>2, Blanks DEF Typed, SessionTypeOK, PresentedIsStored
<1>5. RotationInv
  BY <1>2, <1>3 DEF RotationInv, FamiliesAreRooted, ReplacedIsConsistent
<1>6. ClientTyped
  <2>1. disk \in TabStates
    BY <1>1 DEF TabStates, Some
  <2> QED BY <1>1, <2>1 DEF ClientTyped
<1>7. /\ \A k \in Slot : call[k] = NoCall /\ txn[k].pc = "idle"
      /\ \A tab \in Tab : store[tab] = disk /\ told[tab] = {}
      /\ disk.access = t /\ disk.refresh = t
  BY <1>1, Blanks
<1>8. /\ NoCall.issued = Nil /\ NoCall.presented = Nil /\ NoCall.access = Nil
      /\ NoCall.answer = Nil /\ NoCall.pc = "idle"
  BY DEF NoCall
<1>9. MentionedAreIssued
  BY <1>3, <1>7, <1>8, SessionConstants DEF MentionedAreIssued, Seen, Accessed
<1>10. /\ AnswersAreNew /\ SlotsCorrespond /\ AnswersAreTrue /\ Renewals
       /\ ToldAreRetired /\ ReplacedTokensAreDropped
  BY <1>7, <1>8, WebConstants
     DEF AnswersAreNew, SlotsCorrespond, AnswersAreTrue, Renewals, ToldAreRetired,
         ReplacedTokensAreDropped
<1> QED BY <1>4, <1>5, <1>6, <1>9, <1>10 DEF ClientInv

-----------------------------------------------------------------------------
\* The fields of a call and of a tab.

LEMMA Fields ==
  ASSUME ClientTyped
  PROVE  /\ \A k \in Slot :
              /\ call[k].access \in Some /\ call[k].presented \in Some
              /\ call[k].issued \in Some /\ call[k].answer \in {Nil, "ok", "refused"}
              /\ call[k] = NoCall \/ call[k] \in Sent
              /\ call[k].pc = "idle" <=> call[k] = NoCall
         /\ \A k \in Slot : call[k] # NoCall => call[k].tab \in Tab /\ call[k].kind \in Kind
         /\ \A tab \in Tab : store[tab].access \in Some /\ store[tab].refresh \in Some
         /\ disk.access \in Some /\ disk.refresh \in Some
  BY DEF ClientTyped, Sent, NoCall, TabStates, Some

LEMMA Blank ==
  /\ NoCall.issued = Nil /\ NoCall.presented = Nil /\ NoCall.access = Nil
  /\ NoCall.answer = Nil /\ NoCall.pc = "idle" /\ NoCall.kind = Nil
  /\ SignedOut.access = Nil /\ SignedOut.refresh = Nil /\ SignedOut \in TabStates
  BY DEF NoCall, SignedOut, TabStates, Some

-----------------------------------------------------------------------------
\* Steps of the client alone: no new token is seen, or one that an answer hands
\* over.

NothingNew ==
  /\ Seen' \subseteq Seen
  /\ \A k \in Slot : call'[k].issued \in {call[k].issued, Nil}

HandedOver(k) ==
  /\ Seen' \subseteq Seen \union {call[k].issued}
  /\ call'[k].issued = Nil
  /\ \A j \in Slot \ {k} : call'[j].issued = call[j].issued

LEMMA ClientStep ==
  ASSUME ClientInv, ClientTyped', UNCHANGED vars,
         \A j \in Slot :
           \/ call'[j] = call[j]
           \/ call'[j] = NoCall
           \/ /\ txn[j].pc = "idle"
              /\ call'[j].answer = Nil
              /\ call'[j].pc = "renewing" => call'[j].presented # Nil,
         \A tab \in Tab : \A t \in told'[tab] : tokens[t].revoked,
         \A tab \in Tab : store'[tab].refresh \notin told'[tab],
         Accessed' \subseteq Accessed,
         NothingNew \/ \E k \in Slot : HandedOver(k)
  PROVE  ClientInv'
<1>1. Issued' = Issued /\ tokens' = tokens /\ txn' = txn
  BY DEF vars, Issued
<1>2. \A k \in Slot : call[k].issued \in Accessed \union {Nil}
  BY Fields DEF ClientInv, Accessed, Some
<1>3. MentionedAreIssued'
  <2>1. Seen \union Accessed \subseteq Issued
    BY DEF ClientInv, MentionedAreIssued
  <2>2. Seen' \subseteq Issued
    <3>1. ASSUME NEW k \in Slot, HandedOver(k) PROVE Seen' \subseteq Issued
      <4>1. Nil \notin Seen'
        BY SessionConstants DEF Seen
      <4> QED BY <1>2, <2>1, <3>1, <4>1 DEF HandedOver
    <3> QED BY <2>1, <3>1 DEF NothingNew
  <2> QED BY <1>1, <2>1, <2>2 DEF MentionedAreIssued
<1>4. AnswersAreNew'
  <2>1. CASE NothingNew
    BY <2>1 DEF ClientInv, AnswersAreNew, NothingNew
  <2>2. ASSUME NEW k \in Slot, HandedOver(k) PROVE AnswersAreNew'
    BY <2>2 DEF ClientInv, AnswersAreNew, HandedOver
  <2> QED BY <2>1, <2>2
<1>5. SlotsCorrespond'
  BY <1>1, Blank DEF ClientInv, SlotsCorrespond
<1>6. AnswersAreTrue'
  BY <1>1, Blank, WebConstants DEF ClientInv, AnswersAreTrue
<1>7. Renewals'
  BY Blank DEF ClientInv, Renewals
<1>8. ToldAreRetired' /\ ReplacedTokensAreDropped'
  BY <1>1 DEF ToldAreRetired, ReplacedTokensAreDropped
<1> QED BY <1>3, <1>4, <1>5, <1>6, <1>7, <1>8 DEF ClientInv

LEMMA CallStep ==
  ASSUME ClientInv, NEW k \in Slot, NEW tab \in Tab, NEW kind \in Kind,
         Call(k, tab, kind)
  PROVE  ClientInv'
<1> DEFINE request == Request(tab, kind, store[tab].access)
<1>1. ClientTyped /\ ToldAreRetired /\ ReplacedTokensAreDropped
  BY DEF ClientInv
<1>2. /\ request \in Sent /\ request.answer = Nil /\ request.pc = "sent"
      /\ request.issued = Nil /\ request.presented = Nil
      /\ request.access = store[tab].access
  BY <1>1, Fields DEF Request, Sent, Some
<1>3. /\ call' = [call EXCEPT ![k] = request]
      /\ call[k] = NoCall /\ txn[k].pc = "idle"
      /\ disk' = disk /\ told' = told
      /\ UNCHANGED vars
  BY DEF Call, Free
<1>4. PICK b \in BOOLEAN : store' = [store EXCEPT ![tab] = [@ EXCEPT !.ask = b]]
  <2>1. (store[tab].ask /\ kind # "me") \in BOOLEAN
    OBVIOUS
  <2> QED BY <2>1 DEF Call
<1> HIDE DEF request
<1>5. /\ store' \in [Tab -> TabStates]
      /\ \A x \in Tab : store'[x].refresh = store[x].refresh
                        /\ store'[x].access = store[x].access
  BY <1>1, <1>4 DEF ClientTyped, TabStates
<1>6. ClientTyped'
  BY <1>1, <1>2, <1>3, <1>5 DEF ClientTyped
<1>7. /\ call'[k] = request
      /\ \A j \in Slot \ {k} : call'[j] = call[j]
  BY <1>1, <1>3 DEF ClientTyped
<1>8. Accessed' \subseteq Accessed
  BY <1>2, <1>3, <1>5, <1>7, Blank, SessionConstants DEF Accessed
<1>9. NothingNew
  BY <1>2, <1>3, <1>5, <1>7, Blank, SessionConstants DEF NothingNew, Seen
<1>10. \A x \in Tab : store'[x].refresh \notin told'[x]
  BY <1>1, <1>3, <1>5 DEF ReplacedTokensAreDropped
<1>11. \A x \in Tab : \A t \in told'[x] : tokens[t].revoked
  BY <1>1, <1>3 DEF ToldAreRetired
<1> QED BY <1>2, <1>3, <1>6, <1>7, <1>8, <1>9, <1>10, <1>11, ClientStep

LEMMA SetTab ==
  ASSUME ClientTyped, NEW tab \in Tab, NEW s \in TabStates, Set(tab, s)
  PROVE  /\ store' \in [Tab -> TabStates] /\ disk' \in TabStates
         /\ store'[tab] = s /\ disk' = s
         /\ \A x \in Tab \ {tab} : store'[x] = store[x]
  BY DEF ClientTyped, Set

LEMMA DoneCall ==
  ASSUME ClientTyped, NEW k \in Slot, Done(k)
  PROVE  /\ call' \in [Slot -> Sent \union {NoCall}]
         /\ call'[k] = NoCall
         /\ \A j \in Slot \ {k} : call'[j] = call[j]
  BY DEF ClientTyped, Done

\* A call that ends leaves its tab as it is, clears it, or names its user.
LEMMA DoneStep ==
  ASSUME ClientInv, NEW k \in Slot, Done(k), UNCHANGED vars, UNCHANGED told,
         \/ Keep
         \/ \E tab \in Tab, s \in TabStates :
              /\ Set(tab, s)
              /\ s.refresh \in {Nil, store[tab].refresh}
              /\ s.access \in {Nil, store[tab].access}
  PROVE  ClientInv'
<1>1. ClientTyped /\ ToldAreRetired /\ ReplacedTokensAreDropped
  BY DEF ClientInv
<1>2. /\ call' \in [Slot -> Sent \union {NoCall}]
      /\ call'[k] = NoCall
      /\ \A j \in Slot \ {k} : call'[j] = call[j]
  BY <1>1, DoneCall
<1> DEFINE NoMore ==
             /\ store' \in [Tab -> TabStates] /\ disk' \in TabStates
             /\ \A x \in Tab : /\ store'[x].refresh \in {Nil, store[x].refresh}
                               /\ store'[x].access \in {Nil, store[x].access}
             /\ disk'.refresh \in {Nil, disk.refresh} \union {store[x].refresh : x \in Tab}
             /\ disk'.access \in {Nil, disk.access} \union {store[x].access : x \in Tab}
<1>3. NoMore
  <2>1. CASE Keep
    BY <1>1, <2>1 DEF Keep, ClientTyped
  <2>2. ASSUME NEW tab \in Tab, NEW s \in TabStates, Set(tab, s),
               s.refresh \in {Nil, store[tab].refresh},
               s.access \in {Nil, store[tab].access}
        PROVE  NoMore
    BY <1>1, <2>2, SetTab
  <2> QED BY <2>1, <2>2
<1>4. ClientTyped'
  BY <1>1, <1>2, <1>3 DEF ClientTyped
<1>5. Accessed' \subseteq Accessed
  BY <1>2, <1>3, Blank, SessionConstants DEF Accessed
<1>6. NothingNew
  BY <1>2, <1>3, Blank, SessionConstants DEF NothingNew, Seen
<1>7. \A x \in Tab : store'[x].refresh \notin told'[x]
  BY <1>1, <1>3, SessionConstants DEF ReplacedTokensAreDropped, ClientTyped
<1>8. \A x \in Tab : \A t \in told'[x] : tokens[t].revoked
  BY <1>1 DEF ToldAreRetired
<1> QED BY <1>2, <1>4, <1>5, <1>6, <1>7, <1>8, ClientStep

LEMMA SucceedStep ==
  ASSUME Typed, ClientInv, NEW k \in Slot, Succeed(k), UNCHANGED vars
  PROVE  ClientInv'
<1> DEFINE tab == call[k].tab
           named == [store[tab] EXCEPT !.user = tokens[call[k].access].user]
<1>1. /\ ClientTyped /\ AnswersAreTrue
      /\ Done(k) /\ told' = told
      /\ call[k].pc = "sent" /\ call[k].answer = "ok" /\ call[k].kind # "login"
  BY DEF ClientInv, Succeed
<1>2. tab \in Tab /\ call[k].access \in Token
  BY <1>1, Fields, Blank DEF AnswersAreTrue, Some
<1>3. CASE call[k].kind = "me"
  <2>1. tokens[call[k].access].user \in User \union {Nil}
    BY <1>2 DEF Typed, SessionTypeOK, TokenRow
  <2>2. /\ named \in TabStates
        /\ named.refresh = store[tab].refresh /\ named.access = store[tab].access
    BY <1>1, <1>2, <2>1 DEF ClientTyped, TabStates
  <2>3. Set(tab, named)
    BY <1>3 DEF Succeed
  <2> HIDE DEF tab, named
  <2> QED BY <1>1, <1>2, <2>2, <2>3, DoneStep
<1>4. CASE call[k].kind = "signout"
  <2>1. Set(tab, SignedOut)
    BY <1>4 DEF Succeed
  <2> HIDE DEF tab
  <2> QED BY <1>1, <1>2, <2>1, Blank, DoneStep
<1>5. CASE call[k].kind \notin {"me", "signout"}
  <2>1. Keep
    BY <1>5 DEF Succeed
  <2> QED BY <1>1, <2>1, DoneStep
<1> QED BY <1>3, <1>4, <1>5

LEMMA RejectStep ==
  ASSUME ClientInv, NEW k \in Slot, call[k] # NoCall, Reject(k), UNCHANGED vars
  PROVE  ClientInv'
<1>1. call[k].tab \in Tab
  BY Fields DEF ClientInv
<1>2. Set(call[k].tab, SignedOut) \/ Keep
  BY DEF Reject
<1>3. Done(k) /\ told' = told
  BY DEF Reject
<1> QED BY <1>1, <1>2, <1>3, Blank, DoneStep

LEMMA RenewStep ==
  ASSUME ClientInv, NEW k \in Slot, Renew(k), UNCHANGED vars
  PROVE  ClientInv'
<1> DEFINE token == store[call[k].tab].refresh
           renewing == [call[k] EXCEPT !.pc = "renewing", !.answer = Nil,
                                       !.presented = token, !.retried = TRUE]
<1>1. /\ ClientTyped /\ SlotsCorrespond /\ ToldAreRetired /\ ReplacedTokensAreDropped
      /\ store' = store /\ disk' = disk /\ told' = told
      /\ call' = [call EXCEPT ![k] = renewing]
      /\ call[k].answer = "refused" /\ token # Nil
  BY DEF ClientInv, Renew, MayRenew, Keep
<1>2. call[k] \in Sent /\ call[k].tab \in Tab /\ token \in Some
  BY <1>1, Fields, Blank, WebConstants
<1>3. /\ renewing \in Sent /\ renewing.pc = "renewing" /\ renewing.answer = Nil
      /\ renewing.presented = token
      /\ renewing.issued = call[k].issued /\ renewing.access = call[k].access
  BY <1>2 DEF Sent, Some
<1>4. PICK tab \in Tab : token = store[tab].refresh
  BY <1>2
<1> HIDE DEF renewing, token
<1>5. /\ call'[k] = renewing
      /\ \A j \in Slot \ {k} : call'[j] = call[j]
  BY <1>1 DEF ClientTyped
<1>6. ClientTyped'
  BY <1>1, <1>3 DEF ClientTyped
<1>7. txn[k].pc = "idle"
  BY <1>1, Blank, WebConstants DEF SlotsCorrespond
<1>8. Accessed' \subseteq Accessed
  BY <1>1, <1>3, <1>5 DEF Accessed
<1>9. NothingNew
  BY <1>1, <1>3, <1>4, <1>5 DEF NothingNew, Seen
<1> QED
  BY <1>1, <1>3, <1>5, <1>6, <1>7, <1>8, <1>9, ClientStep
     DEF ToldAreRetired, ReplacedTokensAreDropped

\* An answer with tokens: they go from the answer into the tab and to the disk.
LEMMA StoreTokens ==
  ASSUME ClientTyped, NEW k \in Slot, NEW tab \in Tab, NEW c \in Sent,
         Set(tab, WithTokens(store[tab], call[k].issued)),
         call' \in [Slot -> Sent \union {NoCall}],
         call'[k] = c, \A j \in Slot \ {k} : call'[j] = call[j],
         c.issued = Nil,
         c.access = call[k].issued,
         c.presented \in {Nil, call[k].presented},
         told' \in [Tab -> SUBSET Token],
         \A x \in Tab : told'[x] \subseteq told[x] \union {call[k].presented}
  PROVE  /\ ClientTyped'
         /\ Accessed' \subseteq Accessed
         /\ HandedOver(k)
         /\ store'[tab].refresh = call[k].issued
         /\ \A x \in Tab \ {tab} : store'[x] = store[x]
<1> DEFINE s == WithTokens(store[tab], call[k].issued)
<1>1. s \in TabStates /\ s.refresh = call[k].issued /\ s.access = call[k].issued
  BY Fields DEF WithTokens, ClientTyped, TabStates
<1>2. Set(tab, s)
  OBVIOUS
<1> HIDE DEF s
<1>3. /\ store' \in [Tab -> TabStates] /\ disk' \in TabStates
      /\ store'[tab] = s /\ disk' = s
      /\ \A x \in Tab \ {tab} : store'[x] = store[x]
  BY <1>1, <1>2, SetTab
<1>4. ClientTyped'
  BY <1>3 DEF ClientTyped
<1>5. Accessed' \subseteq Accessed
  BY <1>1, <1>3, SessionConstants DEF Accessed
<1>6. Seen' \subseteq Seen \union {call[k].issued}
  BY <1>1, <1>3, SessionConstants DEF Seen
<1>7. HandedOver(k)
  BY <1>6 DEF HandedOver
<1> QED BY <1>1, <1>3, <1>4, <1>5, <1>7

LEMMA SignInStep ==
  ASSUME ClientInv, NEW k \in Slot, SignIn(k), UNCHANGED vars
  PROVE  ClientInv'
<1> DEFINE c == Request(call[k].tab, "me", call[k].issued)
<1>1. /\ ClientTyped /\ SlotsCorrespond /\ ToldAreRetired /\ ReplacedTokensAreDropped
      /\ AnswersAreNew
      /\ Set(call[k].tab, WithTokens(store[call[k].tab], call[k].issued))
      /\ call' = [call EXCEPT ![k] = c]
      /\ told' = told /\ call[k].answer = "ok"
  BY DEF ClientInv, SignIn
<1>2. PICK tab \in Tab : tab = call[k].tab
  BY <1>1, Fields, Blank, WebConstants
<1>3. /\ c \in Sent /\ c.issued = Nil /\ c.presented = Nil /\ c.answer = Nil
      /\ c.pc = "sent" /\ c.access = call[k].issued
  BY <1>1, <1>2, Fields DEF Request, Sent, Kind, Some
<1> HIDE DEF c
<1>4. /\ call' \in [Slot -> Sent \union {NoCall}]
      /\ call'[k] = c /\ \A j \in Slot \ {k} : call'[j] = call[j]
  BY <1>1, <1>3 DEF ClientTyped
<1>5. /\ ClientTyped' /\ Accessed' \subseteq Accessed /\ HandedOver(k)
      /\ store'[tab].refresh = call[k].issued
      /\ \A x \in Tab \ {tab} : store'[x] = store[x]
  <2>1. Set(tab, WithTokens(store[tab], call[k].issued))
    BY <1>1, <1>2
  <2>2. c.presented \in {Nil, call[k].presented}
    BY <1>3
  <2>3. /\ told' \in [Tab -> SUBSET Token]
        /\ \A x \in Tab : told'[x] \subseteq told[x] \union {call[k].presented}
    BY <1>1 DEF ClientTyped
  <2> QED BY <1>1, <1>3, <2>1, <2>2, <2>3, <1>4, StoreTokens
<1>6. txn[k].pc = "idle"
  BY <1>1, Blank, WebConstants DEF SlotsCorrespond
<1>7. call[k].issued \notin told[tab]
  BY <1>1, SessionConstants DEF AnswersAreNew, Seen, ClientTyped
<1>8. \A x \in Tab : store'[x].refresh \notin told'[x]
  BY <1>1, <1>5, <1>7 DEF ReplacedTokensAreDropped
<1>9. \A x \in Tab : \A t \in told'[x] : tokens[t].revoked
  BY <1>1 DEF ToldAreRetired
<1>10. \A j \in Slot : \/ call'[j] = call[j]
                      \/ call'[j] = NoCall
                      \/ /\ txn[j].pc = "idle" /\ call'[j].answer = Nil
                         /\ call'[j].pc = "renewing" => call'[j].presented # Nil
  BY <1>3, <1>4, <1>6
<1> QED BY <1>5, <1>8, <1>9, <1>10, ClientStep

\* The token of an answer is not the one that the call presented for it.
LEMMA RenewedStep ==
  ASSUME ClientInv, NEW k \in Slot, Renewed(k), UNCHANGED vars
  PROVE  ClientInv'
<1> DEFINE c == [call[k] EXCEPT !.pc = "sent", !.access = call[k].issued,
                                !.answer = Nil, !.issued = Nil]
<1>1. /\ ClientTyped /\ SlotsCorrespond /\ ToldAreRetired /\ ReplacedTokensAreDropped
      /\ AnswersAreNew /\ AnswersAreTrue /\ Renewals
      /\ Set(call[k].tab, WithTokens(store[call[k].tab], call[k].issued))
      /\ call' = [call EXCEPT ![k] = c]
      /\ told' = [told EXCEPT ![call[k].tab] = @ \union {call[k].presented}]
      /\ call[k].pc = "renewing" /\ call[k].answer = "ok"
  BY DEF ClientInv, Renewed
<1>2. PICK tab \in Tab : tab = call[k].tab
  BY <1>1, Fields, Blank, WebConstants
<1>3. call[k] \in Sent /\ call[k].presented \in Token /\ tokens[call[k].presented].revoked
  BY <1>1, Fields, Blank, WebConstants DEF Renewals, AnswersAreTrue, Some
<1>4. /\ c \in Sent /\ c.issued = Nil /\ c.presented = call[k].presented
      /\ c.answer = Nil /\ c.pc = "sent" /\ c.access = call[k].issued
  BY <1>3 DEF Sent, Some
<1> HIDE DEF c
<1>5. /\ told' \in [Tab -> SUBSET Token]
      /\ told'[tab] = told[tab] \union {call[k].presented}
      /\ \A x \in Tab \ {tab} : told'[x] = told[x]
  BY <1>1, <1>2, <1>3 DEF ClientTyped
<1>6. /\ call' \in [Slot -> Sent \union {NoCall}]
      /\ call'[k] = c /\ \A j \in Slot \ {k} : call'[j] = call[j]
  BY <1>1, <1>4 DEF ClientTyped
<1>7. /\ ClientTyped' /\ Accessed' \subseteq Accessed /\ HandedOver(k)
      /\ store'[tab].refresh = call[k].issued
      /\ \A x \in Tab \ {tab} : store'[x] = store[x]
  <2>1. Set(tab, WithTokens(store[tab], call[k].issued))
    BY <1>1, <1>2
  <2>2. c.presented \in {Nil, call[k].presented}
    BY <1>4
  <2>3. \A x \in Tab : told'[x] \subseteq told[x] \union {call[k].presented}
    BY <1>5
  <2> QED BY <1>4, <1>5, <2>1, <2>2, <2>3, <1>1, <1>6, StoreTokens
<1>8. txn[k].pc = "idle"
  BY <1>1, Blank, WebConstants DEF SlotsCorrespond
<1>9. call[k].issued \notin told'[tab]
  BY <1>1, <1>3, <1>5, SessionConstants DEF AnswersAreNew, Seen, ClientTyped
<1>10. \A x \in Tab : store'[x].refresh \notin told'[x]
  BY <1>1, <1>5, <1>7, <1>9 DEF ReplacedTokensAreDropped
<1>11. \A x \in Tab : \A t \in told'[x] : tokens[t].revoked
  BY <1>1, <1>3, <1>5 DEF ToldAreRetired
<1>12. \A j \in Slot : \/ call'[j] = call[j]
                       \/ call'[j] = NoCall
                       \/ /\ txn[j].pc = "idle" /\ call'[j].answer = Nil
                          /\ call'[j].pc = "renewing" => call'[j].presented # Nil
  BY <1>4, <1>6, <1>8
<1> QED BY <1>7, <1>10, <1>11, <1>12, ClientStep

LEMMA ReloadStep ==
  ASSUME ClientInv, NEW tab \in Tab, Reload(tab)
  PROVE  ClientInv'
<1>1. ClientTyped /\ ToldAreRetired /\ ReplacedTokensAreDropped
  BY DEF ClientInv
<1>2. PICK s \in TabStates :
        /\ s.access = disk.access /\ s.refresh = disk.refresh
        /\ store' = [store EXCEPT ![tab] = s]
  <2> DEFINE s == [disk EXCEPT !.ask = disk.access # Nil]
  <2>1. s \in TabStates /\ s.access = disk.access /\ s.refresh = disk.refresh
    BY <1>1 DEF ClientTyped, TabStates
  <2> QED BY <2>1 DEF Reload
<1>3. /\ call' = [k \in Slot |-> IF call[k].tab = tab THEN NoCall ELSE call[k]]
      /\ told' = [told EXCEPT ![tab] = {}]
      /\ disk' = disk
      /\ UNCHANGED vars
  BY DEF Reload
<1>4. \A k \in Slot : call'[k] = call[k] \/ call'[k] = NoCall
  BY <1>3
<1>5. ClientTyped'
  BY <1>1, <1>2, <1>3 DEF ClientTyped
<1>6. /\ \A x \in Tab : /\ told'[x] \subseteq told[x]
                        /\ store'[x].refresh \in {store[x].refresh, disk.refresh}
                        /\ store'[x].access \in {store[x].access, disk.access}
                        /\ store'[x].refresh \notin told'[x]
  BY <1>1, <1>2, <1>3 DEF ClientTyped, ReplacedTokensAreDropped
<1>7. Accessed' \subseteq Accessed
  BY <1>3, <1>4, <1>6, Blank, SessionConstants DEF Accessed
<1>8. NothingNew
  BY <1>3, <1>4, <1>6, Blank, SessionConstants DEF NothingNew, Seen
<1>9. \A x \in Tab : \A t \in told'[x] : tokens[t].revoked
  BY <1>1, <1>6 DEF ToldAreRetired
<1> QED BY <1>3, <1>4, <1>5, <1>6, <1>7, <1>8, <1>9, ClientStep

LEMMA ReceiveStep ==
  ASSUME Typed, ClientInv, NEW k \in Slot, Receive(k) \/ LoseAnswer(k)
  PROVE  ClientInv'
<1>1. UNCHANGED vars
  BY DEF Receive, LoseAnswer
<1>2. CASE Fail(k) \/ Lose(k)
  <2>1. call[k] # NoCall /\ Reject(k)
    BY <1>2, Blank, WebConstants DEF Fail, Lose
  <2> QED BY <1>1, <2>1, RejectStep
<1>3. CASE Succeed(k) \/ SignIn(k) \/ Renew(k) \/ Renewed(k)
  BY <1>1, <1>3, SucceedStep, SignInStep, RenewStep, RenewedStep
<1> QED BY <1>2, <1>3 DEF Receive, LoseAnswer

-----------------------------------------------------------------------------
\* Steps of the server are steps of Sessions.

LEMMA AuthorisedUser ==
  ASSUME Typed, ClientInv, NEW k \in Slot, Authorised(k)
  PROVE  call[k].access \in Token /\ tokens[call[k].access].user \in User
<1>1. call[k].access \in Accessed
  BY Fields DEF Authorised, ClientInv, Accessed, Some
<1>2. call[k].access \in Issued
  BY <1>1 DEF ClientInv, MentionedAreIssued
<1> QED BY <1>2 DEF Issued, Typed, SessionTypeOK, TokenRow

LEMMA ServedAsSessions ==
  ASSUME Typed, ClientInv, NEW k \in Slot, Serve1(k) \/ ServerFails(k)
  PROVE  [Next]_vars
<1>1. CASE ServeSimple(k)
  BY <1>1 DEF ServeSimple
<1>2. CASE StartServing(k)
  <2>1. CASE \E u \in User : LoadForLogin(k, u) \/ RefusePassword(k, u)
    BY <2>1 DEF Next
  <2>2. CASE Authorised(k) /\ StartLogoutAll(k, tokens[call[k].access].user)
    BY <2>2, AuthorisedUser DEF Next
  <2>3. CASE LoadForRefresh(k, call[k].presented) \/ LoadRevoked(k, call[k].presented)
    <3>1. call[k].presented \in Token
      BY <2>3 DEF LoadForRefresh, LoadRevoked, Live, Issued
    <3> QED BY <2>3, <3>1 DEF Next
  <2> QED BY <1>2, <2>1, <2>2, <2>3 DEF StartServing
<1>3. CASE FinishServing(k)
  BY <1>3 DEF FinishServing, Next
<1>4. CASE ServerFails(k)
  BY <1>4 DEF ServerFails, Next
<1>5. CASE GoOnServing(k)
  BY <1>5 DEF GoOnServing, Next
<1> QED BY <1>1, <1>2, <1>3, <1>4, <1>5 DEF Serve1

\* What a step of the server leaves of the other clients.
LEMMA ServerStep ==
  ASSUME Typed, ClientInv, [Next]_vars,
         UNCHANGED <<store, disk, told>>, ClientTyped',
         NEW k \in Slot,
         \A j \in Slot \ {k} : call'[j] = call[j] /\ txn'[j] = txn[j],
         call'[k].pc = call[k].pc, call'[k].access = call[k].access,
         call'[k].presented = call[k].presented,
         call'[k].issued \in {call[k].issued, Nil}
         \/ call'[k].issued \in Issued' \ Issued
  PROVE  /\ MentionedAreIssued' /\ AnswersAreNew' /\ Renewals'
         /\ ToldAreRetired' /\ ReplacedTokensAreDropped'
<1>1. /\ ClientTyped /\ MentionedAreIssued /\ AnswersAreNew /\ Renewals
      /\ ToldAreRetired /\ ReplacedTokensAreDropped
  BY DEF ClientInv
<1>2. \A t \in Issued : t \in Issued' /\ (tokens[t].revoked => tokens'[t].revoked)
  BY RetireStep
<1>3. \A j \in Slot : /\ call'[j].access = call[j].access
                      /\ call'[j].presented = call[j].presented
                      /\ call'[j].pc = call[j].pc
  OBVIOUS
<1>4. Seen' = Seen
  BY <1>3 DEF Seen
<1>5. Accessed' \subseteq Accessed \union {call'[k].issued}
  BY <1>3 DEF Accessed
<1>6. \A j \in Slot : call[j].issued \in Issued \union {Nil}
  BY <1>1, Fields DEF MentionedAreIssued, Accessed, Some
<1>7. MentionedAreIssued'
  <2>1. Nil \notin Accessed'
    BY SessionConstants DEF Accessed
  <2>2. Seen' \subseteq Issued'
    BY <1>1, <1>2, <1>4 DEF MentionedAreIssued
  <2>3. Accessed' \subseteq Issued'
    BY <1>1, <1>2, <1>5, <1>6, <2>1 DEF MentionedAreIssued
  <2> QED BY <2>2, <2>3 DEF MentionedAreIssued
<1>8. AnswersAreNew'
  <2>1. Seen \subseteq Issued
    BY <1>1 DEF MentionedAreIssued
  <2>2. CASE call'[k].issued \in {call[k].issued, Nil}
    BY <1>1, <1>4, <2>2 DEF AnswersAreNew
  <2>3. CASE call'[k].issued \in Issued' \ Issued
    <3>1. call'[k].issued # Nil /\ call'[k].issued \notin Seen
      BY <2>1, <2>3, SessionConstants DEF Issued
    <3>2. \A j \in Slot \ {k} : call'[j].issued # call'[k].issued
      BY <1>6, <2>3, <3>1
    <3> QED BY <1>1, <1>4, <3>1, <3>2 DEF AnswersAreNew
  <2> QED BY <2>2, <2>3
<1>9. Renewals'
  BY <1>1, <1>3 DEF Renewals
<1>10. \A tab \in Tab : told[tab] \subseteq Issued
  BY <1>1 DEF MentionedAreIssued, Seen, ClientTyped
<1>11. ToldAreRetired' /\ ReplacedTokensAreDropped'
  BY <1>1, <1>2, <1>10 DEF ToldAreRetired, ReplacedTokensAreDropped
<1> QED BY <1>7, <1>8, <1>9, <1>11

\* Answers of other calls stay true.
LEMMA AnswersStayTrue ==
  ASSUME Typed, ClientInv, [Next]_vars, NEW j \in Slot, call'[j] = call[j]
  PROVE  call'[j].answer = "ok" =>
           /\ call'[j].pc = "sent" /\ call'[j].kind # "login" => call'[j].access # Nil
           /\ call'[j].pc = "renewing" => tokens'[call'[j].presented].revoked
<1>1. call[j].pc = "renewing" => call[j].presented \in Issued
  BY Fields DEF ClientInv, Renewals, MentionedAreIssued, Seen, Some
<1> QED BY <1>1, RetireStep DEF ClientInv, AnswersAreTrue

LEMMA ReplyStep ==
  ASSUME Typed, ClientInv, [Next]_vars, NEW k \in Slot, NEW a \in {"ok", "refused"},
         NEW n \in Some, n = Nil \/ n \in Issued' \ Issued,
         Reply(k, a, n),
         txn'[k].pc = "idle",
         \A j \in Slot \ {k} : txn'[j] = txn[j],
         call[k] # NoCall /\ a = "ok" =>
           /\ call[k].pc = "sent" /\ call[k].kind # "login" => call[k].access # Nil
           /\ call[k].pc = "renewing" => tokens'[call[k].presented].revoked
  PROVE  ClientInv'
<1>1. ClientTyped /\ SlotsCorrespond
  BY DEF ClientInv
<1>2. /\ UNCHANGED <<store, disk, told>>
      /\ call' \in [Slot -> Sent \union {NoCall}]
      /\ \A j \in Slot \ {k} : call'[j] = call[j]
      /\ call'[k].pc = call[k].pc /\ call'[k].access = call[k].access
      /\ call'[k].presented = call[k].presented /\ call'[k].kind = call[k].kind
      /\ call[k] = NoCall => call'[k] = NoCall
      /\ call[k] # NoCall => call'[k].answer = a /\ call'[k].issued = n
  <2>1. CASE call[k] = NoCall
    BY <1>1, <2>1 DEF Reply, ClientTyped
  <2>2. CASE call[k] # NoCall
    <3> DEFINE c == [call[k] EXCEPT !.answer = a, !.issued = n]
    <3>1. call[k] \in Sent
      BY <1>1, <2>2, Fields
    <3>2. /\ c \in Sent /\ c.pc = call[k].pc /\ c.access = call[k].access
          /\ c.presented = call[k].presented /\ c.kind = call[k].kind
          /\ c.answer = a /\ c.issued = n
      BY <3>1 DEF Sent
    <3>3. call' = [call EXCEPT ![k] = c]
      BY <1>1, <2>2 DEF Reply, ClientTyped
    <3> HIDE DEF c
    <3> QED BY <1>1, <2>2, <3>2, <3>3 DEF Reply, ClientTyped
  <2> QED BY <2>1, <2>2
<1>3. ClientTyped'
  BY <1>1, <1>2 DEF ClientTyped
<1>4. /\ MentionedAreIssued' /\ AnswersAreNew' /\ Renewals'
      /\ ToldAreRetired' /\ ReplacedTokensAreDropped'
  <2>1. call'[k].issued \in {call[k].issued, Nil} \/ call'[k].issued \in Issued' \ Issued
    BY <1>2
  <2> QED BY <1>2, <1>3, <2>1, ServerStep
<1>5. SlotsCorrespond'
  BY <1>1, <1>2 DEF SlotsCorrespond
<1>6. AnswersAreTrue'
  <2>1. ASSUME NEW j \in Slot, j # k, call'[j].answer = "ok"
        PROVE  /\ call'[j].pc = "sent" /\ call'[j].kind # "login" => call'[j].access # Nil
               /\ call'[j].pc = "renewing" => tokens'[call'[j].presented].revoked
    BY <1>2, <2>1, AnswersStayTrue
  <2>2. ASSUME call'[k].answer = "ok"
        PROVE  /\ call'[k].pc = "sent" /\ call'[k].kind # "login" => call'[k].access # Nil
               /\ call'[k].pc = "renewing" => tokens'[call'[k].presented].revoked
    BY <1>2, <2>2, Blank, WebConstants
  <2> QED BY <2>1, <2>2 DEF AnswersAreTrue
<1> QED BY <1>3, <1>4, <1>5, <1>6 DEF ClientInv

LEMMA ServeSimpleStep ==
  ASSUME Typed, ClientInv, NEW k \in Slot, ServeSimple(k)
  PROVE  ClientInv'
<1>1. PICK a \in {"ok", "refused"} :
        Reply(k, a, Nil) /\ (a = "ok" => Authorised(k))
  BY DEF ServeSimple
<1>2. UNCHANGED vars /\ txn[k].pc = "idle" /\ call[k].pc = "sent"
  BY DEF ServeSimple, Awaits
<1>3. [Next]_vars /\ txn' = txn
  BY <1>2 DEF vars
<1>4. a = "ok" => call[k].access # Nil
  BY <1>1 DEF Authorised
<1>5. Nil \in Some
  BY DEF Some
<1> QED BY <1>1, <1>2, <1>3, <1>4, <1>5, ReplyStep

\* The commits: the new token is in the answer, and what was presented for it
\* is revoked.
LEMMA CommitStep ==
  ASSUME Typed, ClientInv, NEW k \in Slot, NEW n \in Token,
         CommitLogin(k, n) \/ CommitRefresh(k, n),
         Reply(k, "ok", n)
  PROVE  ClientInv'
<1>1. [Next]_vars
  BY DEF Next
<1>2. /\ txn \in [Slot -> Txns] /\ SlotsCorrespond
  BY DEF Typed, SessionTypeOK, Txns, ClientInv
<1>3. Release(k)
  BY DEF CommitLogin, CommitRefresh
<1>4. txn'[k].pc = "idle" /\ \A j \in Slot \ {k} : txn'[j] = txn[j]
  BY <1>2, <1>3, ReleaseTyped
<1>5. PICK o : o = txn[k].token
  OBVIOUS
<1>6. n \in Issued' \ Issued
  BY <1>5, LoginRows, RefreshRows, SessionConstants DEF Issued
<1>7. call[k] # NoCall =>
        /\ call[k].pc = "sent" /\ call[k].kind # "login" => call[k].access # Nil
        /\ call[k].pc = "renewing" => tokens'[call[k].presented].revoked
  <2>1. CASE CommitLogin(k, n)
    BY <1>2, <2>1 DEF CommitLogin, SlotsCorrespond
  <2>2. CASE CommitRefresh(k, n)
    <3>1. tokens'[o].revoked
      BY <1>5, <2>2, RefreshRows
    <3> QED BY <1>2, <1>5, <2>2, <3>1 DEF CommitRefresh, SlotsCorrespond
  <2> QED BY <2>1, <2>2
<1>8. n \in Some
  BY DEF Some
<1> QED BY <1>1, <1>4, <1>6, <1>7, <1>8, ReplyStep

LEMMA FinishServingStep ==
  ASSUME Typed, ClientInv, NEW k \in Slot, FinishServing(k)
  PROVE  ClientInv'
<1>1. ASSUME NEW n \in Token, CommitLogin(k, n) \/ CommitRefresh(k, n), Reply(k, "ok", n)
      PROVE  ClientInv'
  BY <1>1, CommitStep
<1>2. ASSUME NEW a \in {"ok", "refused"}, Reply(k, a, Nil),
             \/ a = "ok" /\ CommitLogoutAll(k)
             \/ a = "refused" /\ (AnswerRefused(k) \/ Rollback(k))
      PROVE  ClientInv'
  <2>1. [Next]_vars
    BY <1>2 DEF Next
  <2>2. txn \in [Slot -> Txns] /\ SlotsCorrespond
    BY DEF Typed, SessionTypeOK, Txns, ClientInv
  <2>3. Release(k)
    BY <1>2 DEF CommitLogoutAll, AnswerRefused, Rollback
  <2>4. txn'[k].pc = "idle" /\ \A j \in Slot \ {k} : txn'[j] = txn[j]
    BY <2>2, <2>3, ReleaseTyped
  <2>5. call[k] # NoCall /\ a = "ok" => call[k].pc = "sent" /\ call[k].access # Nil
    BY <1>2, <2>2 DEF CommitLogoutAll, SlotsCorrespond
  <2>6. Nil \in Some
    BY DEF Some
  <2> QED BY <1>2, <2>1, <2>4, <2>5, <2>6, ReplyStep
<1> QED BY <1>1, <1>2 DEF FinishServing

\* A step that leaves the clients alone.
LEMMA BackgroundStep ==
  ASSUME Typed, ClientInv, [Next]_vars, UNCHANGED clientVars, NEW k \in Slot,
         \A j \in Slot \ {k} : txn'[j] = txn[j],
         txn'[k].pc # "idle" /\ call[k] # NoCall =>
           /\ call[k].answer = Nil
           /\ txn'[k].pc \in {"login", "refused"} => call[k].pc = "sent" /\ call[k].kind = "login"
           /\ txn'[k].pc = "revoke" => call[k].pc = "sent" /\ call[k].access # Nil
           /\ txn'[k].pc \in {"token", "refresh", "reuse"} =>
                call[k].pc = "renewing" /\ call[k].presented = txn'[k].token
  PROVE  ClientInv'
<1>1. UNCHANGED <<store, disk, told>> /\ call' = call
  BY DEF clientVars
<1>2. ClientTyped'
  BY <1>1 DEF ClientInv, ClientTyped
<1>3. /\ MentionedAreIssued' /\ AnswersAreNew' /\ Renewals'
      /\ ToldAreRetired' /\ ReplacedTokensAreDropped'
  BY <1>1, <1>2, ServerStep
<1>4. SlotsCorrespond'
  BY <1>1 DEF ClientInv, SlotsCorrespond
<1>5. AnswersAreTrue'
  BY <1>1, AnswersStayTrue DEF AnswersAreTrue
<1> QED BY <1>2, <1>3, <1>4, <1>5 DEF ClientInv

LEMMA StartServingStep ==
  ASSUME Typed, ClientInv, NEW k \in Slot, StartServing(k)
  PROVE  ClientInv'
<1>1. [Next]_vars
  BY ServedAsSessions DEF Serve1
<1>2. /\ UNCHANGED clientVars
      /\ call[k].answer = Nil /\ call[k].pc \in {"sent", "renewing"}
      /\ txn \in [Slot -> Txns]
  BY DEF StartServing, Awaits, Typed, SessionTypeOK, Txns
<1>3. PICK p, u, a, t, g : Serve(k, p, u, a, t, Nil, g)
                           /\ \/ /\ p \in {"login", "refused"}
                                 /\ call[k].pc = "sent" /\ call[k].kind = "login"
                              \/ /\ p = "revoke"
                                 /\ call[k].pc = "sent" /\ call[k].access # Nil
                              \/ /\ p \in {"token", "reuse"}
                                 /\ call[k].pc = "renewing" /\ t = call[k].presented
  BY DEF StartServing, Awaits, Authorised, LoadForLogin, RefusePassword,
     StartLogoutAll, LoadForRefresh, LoadRevoked
<1>4. /\ txn'[k].pc = p /\ txn'[k].token = t
      /\ \A j \in Slot \ {k} : txn'[j] = txn[j]
  BY <1>2, <1>3 DEF Serve
<1> QED BY <1>1, <1>2, <1>3, <1>4, BackgroundStep

LEMMA GoOnServingStep ==
  ASSUME Typed, ClientInv, NEW k \in Slot, GoOnServing(k)
  PROVE  ClientInv'
<1>1. [Next]_vars
  BY ServedAsSessions DEF Serve1
<1>2. /\ UNCHANGED clientVars /\ txn \in [Slot -> Txns]
      /\ txn[k].pc = "token" /\ SlotsCorrespond
  BY DEF GoOnServing, FindOwner, Typed, SessionTypeOK, Txns, ClientInv
<1>3. txn[k] \in BusyTxn
  BY <1>2 DEF Txns, IdleTxn
<1>4. /\ txn'[k].pc = "refresh" /\ txn'[k].token = txn[k].token
      /\ \A j \in Slot \ {k} : txn'[j] = txn[j]
  BY <1>2, <1>3 DEF GoOnServing, FindOwner, BusyTxn
<1>5. call[k] # NoCall =>
        call[k].answer = Nil /\ call[k].pc = "renewing" /\ call[k].presented = txn[k].token
  BY <1>2 DEF SlotsCorrespond
<1> QED BY <1>1, <1>2, <1>4, <1>5, BackgroundStep

LEMMA ServerFailsStep ==
  ASSUME Typed, ClientInv, NEW k \in Slot, ServerFails(k)
  PROVE  ClientInv'
<1>1. [Next]_vars
  BY ServedAsSessions
<1>2. UNCHANGED clientVars /\ call[k] = NoCall /\ Release(k)
  BY DEF ServerFails, Rollback
<1>3. \A j \in Slot \ {k} : txn'[j] = txn[j]
  BY <1>2, ReleaseTyped DEF Typed, SessionTypeOK, Txns
<1> QED BY <1>1, <1>2, <1>3, BackgroundStep

-----------------------------------------------------------------------------
\* All steps.

LEMMA ServedBySessions ==
  Typed /\ ClientInv /\ [WebNext]_webVars => [Next]_vars
<1> SUFFICES ASSUME Typed, ClientInv, [WebNext]_webVars PROVE [Next]_vars
  OBVIOUS
<1>1. ASSUME NEW k \in Slot, Serve1(k) \/ ServerFails(k) PROVE [Next]_vars
  BY <1>1, ServedAsSessions
<1>2. ASSUME NEW k \in Slot,
             \/ \E tab \in Tab, kind \in Kind : Call(k, tab, kind)
             \/ Receive(k) \/ LoseAnswer(k)
      PROVE  UNCHANGED vars
  BY <1>2 DEF Call, Receive, LoseAnswer
<1>3. ASSUME NEW tab \in Tab, Reload(tab) PROVE UNCHANGED vars
  BY <1>3 DEF Reload
<1>4. ASSUME NEW t \in Token, Expire(t) PROVE UNCHANGED vars
  BY <1>4 DEF Expire
<1>5. CASE UNCHANGED webVars
  BY <1>5 DEF webVars
<1> QED BY <1>1, <1>2, <1>3, <1>4, <1>5 DEF WebNext

LEMMA ClientInvStep ==
  Typed /\ ClientInv /\ [WebNext]_webVars => ClientInv'
<1> SUFFICES ASSUME Typed, ClientInv, [WebNext]_webVars PROVE ClientInv'
  OBVIOUS
<1>1. ASSUME NEW k \in Slot, NEW tab \in Tab, NEW kind \in Kind, Call(k, tab, kind)
      PROVE  ClientInv'
  BY <1>1, CallStep
<1>2. ASSUME NEW k \in Slot, Serve1(k) PROVE ClientInv'
  BY <1>2, ServeSimpleStep, StartServingStep, GoOnServingStep, FinishServingStep DEF Serve1
<1>3. ASSUME NEW k \in Slot, ServerFails(k) PROVE ClientInv'
  BY <1>3, ServerFailsStep
<1>4. ASSUME NEW k \in Slot, Receive(k) \/ LoseAnswer(k) PROVE ClientInv'
  BY <1>4, ReceiveStep
<1>5. ASSUME NEW tab \in Tab, Reload(tab) PROVE ClientInv'
  BY <1>5, ReloadStep
<1>6. CASE UNCHANGED <<vars, clientVars>>
  <2>1. UNCHANGED <<users, tokens, txn>> /\ UNCHANGED <<store, disk, call, told>>
    BY <1>6 DEF vars, clientVars
  <2> QED
    BY <2>1 DEF ClientInv, ClientTyped, MentionedAreIssued, Seen, Accessed, Issued,
       AnswersAreNew, SlotsCorrespond, AnswersAreTrue, Renewals, ToldAreRetired,
       ReplacedTokensAreDropped
<1>7. ASSUME NEW t \in Token, Expire(t) PROVE ClientInv'
  BY <1>6, <1>7 DEF Expire
<1>8. CASE UNCHANGED webVars
  BY <1>6, <1>8 DEF webVars
<1> QED BY <1>1, <1>2, <1>3, <1>4, <1>5, <1>7, <1>8 DEF WebNext

LEMMA RotationStep == Typed /\ RotationInv /\ [Next]_vars => RotationInv'
  BY TokenSteps, RotationKept, RotationLogin, RotationRefresh

LEMMA WebInvariant == WebSpec => [](Typed /\ RotationInv /\ ClientInv)
<1>1. Typed /\ RotationInv /\ ClientInv /\ [WebNext]_webVars
        => (Typed /\ RotationInv /\ ClientInv)'
  BY ServedBySessions, TypedStep, RotationStep, ClientInvStep
<1> QED BY WebTypedInit, <1>1, PTL DEF WebSpec

\* Every request that a web client makes is served as Sessions has it, also when
\* its client has given it up: the client adds no behaviour of the token table.
THEOREM ClientsAreServed == WebSpec => [][Next]_vars
  BY WebInvariant, ServedBySessions, PTL DEF WebSpec

\* Under the clients' traffic the table of tokens is typed and its rotation
\* consistent (refresh_session).
THEOREM WebSessionsAreConsistent == WebSpec => [](SessionTypeOK /\ RotationInv)
<1>1. Typed => SessionTypeOK
  BY DEF Typed
<1> QED BY <1>1, WebInvariant, PTL

\* A tab never holds, and never goes back to, a refresh token that it knows to be
\* replaced, for any number of tabs and calls, however their answers are delayed,
\* lost or overtaken (the interceptor, setTokens).
THEOREM ReplacedAreDropped == WebSpec => []ReplacedTokensAreDropped
<1>1. ClientInv => ReplacedTokensAreDropped
  BY DEF ClientInv
<1> QED BY <1>1, WebInvariant, PTL

\* What a tab takes for replaced is indeed revoked in the table: the answer of a
\* renewal goes to the call that presented the token (refresh_session, client.ts).
THEOREM ReplacedAreRevoked == WebSpec => []ToldAreRetired
<1>1. ClientInv => ToldAreRetired
  BY DEF ClientInv
<1> QED BY <1>1, WebInvariant, PTL

-----------------------------------------------------------------------------
\* Sign-out.

Cleared(k) ==
  /\ call[k].kind = "signout"
  /\ call'[k].kind # "signout"
  /\ reloads' = reloads
  => store'[call[k].tab].access = Nil

LEMMA ReloadsAreCounted == WebSpec => [](reloads \in Nat)
<1>1. WebInit => reloads \in Nat
  BY DEF WebInit
<1>2. reloads \in Nat /\ [WebNext]_webVars => (reloads \in Nat)'
  <2> SUFFICES ASSUME reloads \in Nat, [WebNext]_webVars PROVE reloads' \in Nat
    OBVIOUS
  <2>1. ASSUME NEW k \in Slot, Serve1(k) \/ ServerFails(k) PROVE reloads' = reloads
    BY <2>1 DEF Serve1, ServeSimple, StartServing, GoOnServing, FinishServing, Reply,
       ServerFails, clientVars
  <2>2. ASSUME NEW k \in Slot,
               \/ \E tab \in Tab, kind \in Kind : Call(k, tab, kind)
               \/ Receive(k) \/ LoseAnswer(k)
        PROVE  reloads' = reloads
    BY <2>2 DEF Call, Receive, LoseAnswer
  <2>3. ASSUME NEW tab \in Tab, Reload(tab) PROVE reloads' \in Nat
    BY <2>3 DEF Reload
  <2>4. ASSUME NEW t \in Token, Expire(t) PROVE reloads' = reloads
    BY <2>4 DEF Expire, clientVars
  <2>5. CASE UNCHANGED webVars
    BY <2>5 DEF webVars, clientVars
  <2> QED BY <2>1, <2>2, <2>3, <2>4, <2>5 DEF WebNext
<1> QED BY <1>1, <1>2, PTL DEF WebSpec

LEMMA ClearStep ==
  ASSUME ClientTyped, reloads \in Nat, [WebNext]_webVars, NEW k \in Slot
  PROVE  Cleared(k)
<1> SUFFICES ASSUME call[k].kind = "signout", call'[k].kind # "signout",
                    reloads' = reloads
             PROVE  store'[call[k].tab].access = Nil
  BY DEF Cleared
<1>1. call[k] \in Sent /\ call[k].tab \in Tab
  BY Fields, Blank, WebConstants
<1>2. ASSUME NEW j \in Slot, NEW a, NEW n, Reply(j, a, n) PROVE FALSE
  <2>1. CASE call' = call
    BY <2>1
  <2>2. CASE call' = [call EXCEPT ![j].answer = a, ![j].issued = n]
    <3>1. j # k => call'[k] = call[k]
      BY <2>2 DEF ClientTyped
    <3>2. j = k => call'[k] = [call[k] EXCEPT !.answer = a, !.issued = n]
      BY <2>2 DEF ClientTyped
    <3>3. [call[k] EXCEPT !.answer = a, !.issued = n].kind = call[k].kind
      BY <1>1 DEF Sent
    <3> QED BY <3>1, <3>2, <3>3
  <2> QED BY <1>2, <2>1, <2>2 DEF Reply
<1>3. ASSUME NEW j \in Slot, NEW tab \in Tab, NEW kind \in Kind, Call(j, tab, kind)
      PROVE  FALSE
  <2>1. call[j] = NoCall /\ call' = [call EXCEPT ![j] = Request(tab, kind, store[tab].access)]
    BY <1>3 DEF Call, Free
  <2> QED BY <2>1, Blank, WebConstants DEF ClientTyped
<1>4. ASSUME NEW j \in Slot, Serve1(j) \/ ServerFails(j) PROVE FALSE
  <2>1. CASE UNCHANGED clientVars
    BY <2>1 DEF clientVars
  <2>2. CASE ServeSimple(j)
    BY <1>2, <2>2 DEF ServeSimple
  <2>3. CASE FinishServing(j)
    BY <1>2, <2>3 DEF FinishServing
  <2> QED BY <1>4, <2>1, <2>2, <2>3 DEF Serve1, StartServing, GoOnServing, ServerFails
<1>5. ASSUME NEW j \in Slot, Receive(j) \/ LoseAnswer(j)
      PROVE  store'[call[k].tab].access = Nil
  <2>1. CASE j # k
    BY <1>5, <2>1
       DEF Receive, LoseAnswer, Succeed, SignIn, Renew, Renewed, Fail, Lose, Reject, Done,
           ClientTyped
  <2>2. CASE j = k
    <3>1. CASE Succeed(k) \/ Reject(k)
      <4>1. Set(call[k].tab, SignedOut)
        BY <3>1 DEF Succeed, Reject, SignsOutOnError
      <4> QED BY <1>1, <4>1, SetTab, Blank
    <3>2. CASE SignIn(k)
      BY <3>2 DEF SignIn
    <3>3. CASE Renew(k) \/ Renewed(k)
      BY <1>1, <3>3 DEF Renew, Renewed, ClientTyped, Sent
    <3> QED BY <1>5, <2>2, <3>1, <3>2, <3>3 DEF Receive, LoseAnswer, Fail, Lose
  <2> QED BY <2>1, <2>2
<1>6. ASSUME NEW tab \in Tab, Reload(tab) PROVE FALSE
  BY <1>6 DEF Reload
<1>7. ASSUME NEW t \in Token, Expire(t) PROVE FALSE
  BY <1>7 DEF Expire, clientVars
<1>8. CASE UNCHANGED webVars
  BY <1>8 DEF webVars, clientVars
<1> QED BY <1>3, <1>4, <1>5, <1>6, <1>7, <1>8 DEF WebNext

\* However the call of a sign-out ends, refused, renewed, failed or lost, its tab
\* is cleared with it (AppShell.tsx signOut).
THEOREM SignOutsClear == WebSpec => SignOutClears
<1>1. ClientInv /\ reloads \in Nat /\ [WebNext]_webVars
        => [\A k \in Slot : Cleared(k)]_webVars
  BY ClearStep DEF ClientInv
<1> QED BY <1>1, WebInvariant, ReloadsAreCounted, PTL DEF WebSpec, SignOutClears, Cleared

-----------------------------------------------------------------------------
\* The claim form.  A request, whenever it is served, still finds what it was
\* sent for: an image request a photo that its form had chosen, a submission a
\* claim that has all of them.  The page's own progress supports that: the files
\* it has left out of "left" are on the claim.


Claim == [status : {"draft", "review"}, photos : SUBSET Photo,
          chosen : SUBSET Photo, flagged : BOOLEAN]

CreateRequest ==
  [op : {"create"}, claim : Nat, files : SUBSET Photo, attempt : Nat]
ImageRequest == [op : {"image"}, claim : Nat, photo : Photo]
SubmitRequest == [op : {"submit"}, claim : Nat]

\* What a claim in review has, and what any claim has.
ClaimsOK ==
  /\ filed \in Seq(Claim)
  /\ \A c \in DOMAIN filed :
       /\ filed[c].photos \subseteq filed[c].chosen
       /\ filed[c].status = "review" => filed[c].photos = filed[c].chosen

\* A request that may be served at any time.
Sound(r) ==
  \/ r \in CreateRequest
  \/ /\ r \in ImageRequest
     /\ r.claim \in DOMAIN filed /\ r.photo \in filed[r.claim].chosen
  \/ /\ r \in SubmitRequest
     /\ r.claim \in DOMAIN filed /\ filed[r.claim].photos = filed[r.claim].chosen

RequestsOK == (wire # NoRequest => Sound(wire)) /\ \A r \in late : Sound(r)

\* The page: its files are those of its draft, and what it need not upload any
\* more is there.
FormOK ==
  /\ attempts \in Nat
  /\ form \in [pc : {"form", "working", "shown"}, files : SUBSET Photo,
               claim : Nat, left : SUBSET Photo]
  /\ form.left \subseteq form.files
  /\ form.claim = 0 /\ form.pc = "working" => form.left = form.files
  /\ form.claim # 0 =>
       /\ form.claim \in DOMAIN filed
       /\ filed[form.claim].chosen = form.files
       /\ form.files \ form.left \subseteq filed[form.claim].photos

\* The answer the page waits for, or has.
AnswerOK ==
  /\ answer = "ok" => wire # NoRequest
  /\ wire # NoRequest =>
       /\ form.pc = "working"
       /\ wire.op = "create" =>
            /\ wire.files = form.files /\ form.claim = 0
            /\ answer = "ok" =>
                 /\ wire.claim \in DOMAIN filed
                 /\ filed[wire.claim].chosen = form.files
       /\ wire.op = "image" =>
            /\ wire.claim = form.claim
            /\ answer = "ok" => wire.photo \in filed[form.claim].photos

FormInv == ClaimsOK /\ RequestsOK /\ FormOK /\ AnswerOK

-----------------------------------------------------------------------------
\* The claims change only by requests, and only to more photos.

Grows ==
  /\ DOMAIN filed \subseteq DOMAIN filed'
  /\ \A c \in DOMAIN filed :
       /\ filed'[c].chosen = filed[c].chosen
       /\ filed[c].photos \subseteq filed'[c].photos

LEMMA Served ==
  ASSUME ClaimsOK, NEW r, Sound(r), Accepts(r), filed' = After(r)
  PROVE  /\ ClaimsOK' /\ Grows
         /\ r.op = "create" =>
              /\ Len(filed) + 1 \in DOMAIN filed'
              /\ filed'[Len(filed) + 1].chosen = r.files
         /\ r.op = "image" => r.photo \in filed'[r.claim].photos
<1>1. CASE r \in CreateRequest
  <2>1. r.op = "create" /\ r.files \in SUBSET Photo
    BY <1>1 DEF CreateRequest
  <2>2. Draft(r.files) \in Claim
    BY <2>1 DEF Draft, Claim
  <2>3. filed' = Append(filed, Draft(r.files))
    BY <2>1 DEF After
  <2>4. /\ filed' \in Seq(Claim)
        /\ DOMAIN filed' = 1..(Len(filed) + 1) /\ DOMAIN filed = 1..Len(filed)
        /\ \A c \in DOMAIN filed : filed'[c] = filed[c]
        /\ filed'[Len(filed) + 1] = Draft(r.files)
        /\ Len(filed) \in Nat
    BY <2>2, <2>3 DEF ClaimsOK
  <2>5. \A c \in DOMAIN filed' : c \in DOMAIN filed \/ c = Len(filed) + 1
    BY <2>4
  <2> QED BY <2>1, <2>4, <2>5 DEF ClaimsOK, Grows, Draft
<1>2. CASE r \in ImageRequest
  <2> DEFINE c == r.claim
  <2>1. r.op = "image" /\ c \in DOMAIN filed /\ r.photo \in filed[c].chosen /\ r.photo \in Photo
    BY <1>2 DEF Sound, ImageRequest, CreateRequest, SubmitRequest
  <2>2. filed[c].status = "draft"
    BY <2>1 DEF Accepts
  <2>3. filed' = [filed EXCEPT ![c].photos = @ \union {r.photo}]
    BY <2>1 DEF After
  <2> HIDE DEF c
  <2>4. filed[c] \in Claim
    BY <2>1 DEF ClaimsOK
  <2>5. [filed[c] EXCEPT !.photos = @ \union {r.photo}] \in Claim
    BY <2>1, <2>4 DEF Claim
  <2>6. /\ filed' \in Seq(Claim) /\ DOMAIN filed' = DOMAIN filed
        /\ \A d \in DOMAIN filed : d # c => filed'[d] = filed[d]
        /\ filed'[c] = [filed[c] EXCEPT !.photos = @ \union {r.photo}]
    BY <2>1, <2>3, <2>5 DEF ClaimsOK
  <2>7. /\ filed'[c].photos = filed[c].photos \union {r.photo}
        /\ filed'[c].chosen = filed[c].chosen /\ filed'[c].status = "draft"
    BY <2>2, <2>4, <2>6 DEF Claim
  <2> QED BY <2>1, <2>6, <2>7 DEF ClaimsOK, Grows, c
<1>3. CASE r \in SubmitRequest
  <2> DEFINE c == r.claim
  <2>1. r.op = "submit" /\ c \in DOMAIN filed /\ filed[c].photos = filed[c].chosen
    BY <1>3 DEF Sound, ImageRequest, CreateRequest, SubmitRequest
  <2>2. filed' = [filed EXCEPT ![c] = Submitted(c)]
    BY <2>1 DEF After
  <2> HIDE DEF c
  <2>3. filed[c] \in Claim
    BY <2>1 DEF ClaimsOK
  <2>4. /\ Submitted(c) \in Claim
        /\ Submitted(c).photos = filed[c].photos /\ Submitted(c).chosen = filed[c].chosen
    BY <2>3 DEF Claim, Submitted
  <2>5. /\ filed' \in Seq(Claim) /\ DOMAIN filed' = DOMAIN filed
        /\ \A d \in DOMAIN filed : d # c => filed'[d] = filed[d]
        /\ filed'[c] = Submitted(c)
    BY <2>1, <2>2, <2>4 DEF ClaimsOK
  <2> QED BY <2>1, <2>4, <2>5 DEF ClaimsOK, Grows
<1> QED BY <1>1, <1>2, <1>3 DEF Sound

\* What a request, and the page, rely on survives.
LEMMA SoundLater ==
  ASSUME ClaimsOK, ClaimsOK', Grows, NEW r, Sound(r)
  PROVE  Sound(r)'
  BY DEF Sound, Grows, ClaimsOK

LEMMA FormLater ==
  ASSUME FormOK, Grows, UNCHANGED <<form, attempts>>
  PROVE  FormOK'
  BY DEF FormOK, Grows

LEMMA NothingServed ==
  ASSUME ClaimsOK, UNCHANGED filed
  PROVE  ClaimsOK' /\ Grows
  BY DEF ClaimsOK, Grows

-----------------------------------------------------------------------------
LEMMA FormInvInit == FormInit => FormInv
  BY DEF FormInit, FormInv, ClaimsOK, RequestsOK, FormOK, AnswerOK, EmptyForm

LEMMA SendStep == FormInv /\ Send => FormInv'
<1> SUFFICES ASSUME FormInv, Send PROVE FormInv'
  OBVIOUS
<1>1. /\ form.pc = "working" /\ UNCHANGED <<form, answer, late, filed, attempts>>
      /\ answer # "ok"
  BY DEF Send, FormInv, AnswerOK
<1>2. ClaimsOK' /\ Grows /\ FormOK'
  BY <1>1, NothingServed, FormLater DEF FormInv
<1>3. CASE form.claim = 0
  <2>1. wire' = CreateDraft
    BY <1>3 DEF Send
  <2>2. Sound(wire)' /\ wire'.op = "create" /\ wire'.files = form.files
    BY <2>1, <1>1 DEF CreateDraft, Sound, CreateRequest, FormInv, FormOK
  <2> QED BY <1>1, <1>2, <1>3, <2>2, SoundLater DEF FormInv, RequestsOK, AnswerOK
<1>4. CASE form.claim # 0 /\ form.left # {}
  <2>1. PICK p \in form.left : wire' = SendImage(p)
    BY <1>4 DEF Send
  <2>2. Sound(wire)' /\ wire'.op = "image" /\ wire'.claim = form.claim
    BY <2>1, <1>1, <1>4 DEF SendImage, Sound, ImageRequest, FormInv, FormOK
  <2> QED BY <1>1, <1>2, <2>2, SoundLater DEF FormInv, RequestsOK, AnswerOK
<1>5. CASE form.claim # 0 /\ form.left = {}
  <2>1. wire' = SendSubmit
    BY <1>5 DEF Send
  <2>2. Sound(wire)' /\ wire'.op = "submit"
    BY <2>1, <1>1, <1>5 DEF SendSubmit, Sound, SubmitRequest, FormInv, FormOK, ClaimsOK
  <2> QED BY <1>1, <1>2, <2>2, SoundLater DEF FormInv, RequestsOK, AnswerOK
<1> QED BY <1>3, <1>4, <1>5

LEMMA ServeStep == FormInv /\ ServeForm => FormInv'
<1> SUFFICES ASSUME FormInv, ServeForm PROVE FormInv'
  OBVIOUS
<1>1. wire # NoRequest /\ Sound(wire) /\ UNCHANGED <<form, late, attempts>>
  BY DEF ServeForm, FormInv, RequestsOK
<1>2. CASE Accepts(wire)
  <2>1. filed' = After(wire) /\ answer' = "ok"
    BY <1>2 DEF ServeForm
  <2>2. /\ ClaimsOK' /\ Grows
        /\ wire.op = "create" =>
             /\ Len(filed) + 1 \in DOMAIN filed'
             /\ filed'[Len(filed) + 1].chosen = wire.files
        /\ wire.op = "image" => wire.photo \in filed'[wire.claim].photos
    BY <1>1, <1>2, <2>1, Served DEF FormInv
  <2>3. FormOK' /\ \A r \in late : Sound(r)'
    BY <1>1, <2>2, FormLater, SoundLater DEF FormInv, RequestsOK
  <2>4. CASE wire.op = "create"
    <3>1. wire \in CreateRequest /\ wire' = [wire EXCEPT !.claim = Len(filed) + 1]
      BY <1>1, <1>2, <2>4 DEF Sound, CreateRequest, ImageRequest, SubmitRequest, ServeForm
    <3>2. /\ wire' \in CreateRequest /\ wire'.op = "create"
          /\ wire'.claim = Len(filed) + 1 /\ wire'.files = wire.files
      BY <3>1 DEF CreateRequest, FormInv, ClaimsOK
    <3>3. Sound(wire)'
      BY <3>2 DEF Sound
    <3>4. form.pc = "working" /\ wire.files = form.files /\ form.claim = 0
      BY <1>1, <2>4 DEF FormInv, AnswerOK
    <3>5. AnswerOK'
      BY <1>1, <2>1, <2>2, <2>4, <3>2, <3>4 DEF AnswerOK, NoRequest
    <3> QED BY <1>1, <2>2, <2>3, <3>3, <3>5 DEF FormInv, RequestsOK
  <2>5. CASE wire.op # "create"
    <3>1. wire' = wire
      BY <1>2, <2>5 DEF ServeForm
    <3>2. Sound(wire)'
      BY <1>1, <2>2, <3>1 DEF Sound, Grows, ClaimsOK, FormInv
    <3> QED BY <1>1, <2>1, <2>2, <2>3, <2>5, <3>1, <3>2 DEF FormInv, RequestsOK, AnswerOK
  <2> QED BY <2>4, <2>5
<1>3. CASE ~Accepts(wire)
  <2>1. UNCHANGED <<filed, wire>> /\ answer' = "refused"
    BY <1>3 DEF ServeForm
  <2>2. ClaimsOK' /\ Grows /\ FormOK'
    BY <1>1, <2>1, NothingServed, FormLater DEF FormInv
  <2> QED BY <1>1, <2>1, <2>2, SoundLater DEF FormInv, RequestsOK, AnswerOK
<1> QED BY <1>2, <1>3

LEMMA LateStep == ASSUME FormInv, NEW r, ServeLate(r) PROVE FormInv'
<1>1. /\ r \in late /\ Sound(r) /\ late' \subseteq late
      /\ UNCHANGED <<form, wire, answer, attempts>>
  BY DEF ServeLate, FormInv, RequestsOK
<1>2. ClaimsOK' /\ Grows
  <2>1. CASE Accepts(r)
    <3>1. filed' = After(r)
      BY <2>1 DEF ServeLate
    <3> QED BY <1>1, <2>1, <3>1, Served DEF FormInv
  <2>2. CASE ~Accepts(r)
    BY <2>2, NothingServed DEF ServeLate, FormInv
  <2> QED BY <2>1, <2>2
<1>3. FormOK' /\ RequestsOK'
  BY <1>1, <1>2, FormLater, SoundLater DEF FormInv, RequestsOK
<1>4. wire # NoRequest /\ wire.op = "image" => wire.claim \in DOMAIN filed
  BY DEF FormInv, RequestsOK, Sound, CreateRequest, SubmitRequest
<1>5. AnswerOK'
  BY <1>1, <1>2, <1>4 DEF FormInv, AnswerOK, Grows
<1> QED BY <1>2, <1>3, <1>5 DEF FormInv

LEMMA ProceedStep == FormInv /\ Proceed => FormInv'
<1> SUFFICES ASSUME FormInv, Proceed PROVE FormInv'
  OBVIOUS
<1>1. /\ answer = "ok" /\ wire # NoRequest /\ Sound(wire) /\ form.pc = "working"
      /\ wire' = NoRequest /\ answer' = "none" /\ UNCHANGED <<late, filed, attempts>>
  BY DEF Proceed, FormInv, AnswerOK, RequestsOK
<1>2. ClaimsOK' /\ Grows
  BY <1>1, NothingServed DEF FormInv
<1>3. RequestsOK' /\ AnswerOK'
  BY <1>1, <1>2, SoundLater DEF FormInv, RequestsOK, AnswerOK
<1>4. FormOK'
  <2>1. CASE wire.op = "create"
    <3>1. /\ form' = [form EXCEPT !.claim = wire.claim] /\ form.claim = 0
          /\ wire.claim \in DOMAIN filed /\ filed[wire.claim].chosen = form.files
      BY <1>1, <2>1 DEF Proceed, FormInv, AnswerOK
    <3>2. wire.claim \in Nat \ {0}
      BY <3>1 DEF FormInv, ClaimsOK
    <3> QED BY <1>1, <3>1, <3>2 DEF FormInv, FormOK
  <2>2. CASE wire.op = "image"
    <3>1. /\ form' = [form EXCEPT !.left = @ \ {wire.photo}]
          /\ wire.claim = form.claim /\ wire.photo \in filed[form.claim].photos
          /\ wire.claim \in DOMAIN filed
      BY <1>1, <2>2 DEF Proceed, FormInv, AnswerOK, Sound, CreateRequest, SubmitRequest
    <3>2. form.claim # 0
      BY <3>1 DEF FormInv, ClaimsOK
    <3> QED BY <1>1, <3>1, <3>2 DEF FormInv, FormOK
  <2>3. CASE wire.op \notin {"create", "image"}
    <3>1. form' = [form EXCEPT !.pc = "shown"]
      BY <2>3 DEF Proceed
    <3> QED BY <1>1, <3>1 DEF FormInv, FormOK
  <2> QED BY <2>1, <2>2, <2>3
<1> QED BY <1>2, <1>3, <1>4 DEF FormInv

\* A request that is given up becomes a late one; the form starts afresh.
LEMMA ReturnStep ==
  ASSUME FormInv, UNCHANGED <<filed, attempts>>, wire' = NoRequest, answer' = "none",
         form' \in {Rejected, EmptyForm},
         late' \subseteq late \union ({wire} \ {NoRequest})
  PROVE  FormInv'
<1>1. ClaimsOK' /\ Grows
  BY NothingServed DEF FormInv
<1>2. RequestsOK' /\ AnswerOK'
  BY <1>1, SoundLater DEF FormInv, RequestsOK, AnswerOK
<1>3. /\ form'.claim = 0 /\ form'.pc = "form" /\ form'.left = {}
      /\ form' \in [pc : {"form", "working", "shown"}, files : SUBSET Photo,
                    claim : Nat, left : SUBSET Photo]
  <2>1. CASE form' = Rejected
    BY <2>1 DEF FormInv, FormOK, Rejected
  <2>2. CASE form' = EmptyForm
    BY <2>2 DEF EmptyForm
  <2> QED BY <2>1, <2>2
<1>4. FormOK'
  BY <1>3 DEF FormInv, FormOK
<1> QED BY <1>1, <1>2, <1>4 DEF FormInv

LEMMA PressStep ==
  ASSUME FormInv, NEW files \in SUBSET Photo, Press(files) PROVE FormInv'
<1>1. ClaimsOK' /\ Grows
  BY NothingServed DEF FormInv, Press
<1>2. RequestsOK' /\ AnswerOK'
  BY <1>1, SoundLater DEF Press, FormInv, RequestsOK, AnswerOK
<1>3. FormOK'
  BY DEF Press, FormInv, FormOK
<1> QED BY <1>1, <1>2, <1>3 DEF FormInv

\* An answer "refused", or none, says nothing of the claims.
LEMMA RenewalStep == FormInv /\ (Challenge \/ EndRenewal) => FormInv'
<1> SUFFICES ASSUME FormInv, Challenge \/ EndRenewal PROVE FormInv'
  OBVIOUS
<1>1. /\ UNCHANGED <<form, wire, late, filed, attempts>>
      /\ answer' \in {answer, "none", "refused"}
  BY DEF Challenge, EndRenewal
<1>2. ClaimsOK' /\ Grows
  BY <1>1, NothingServed DEF FormInv
<1>3. FormOK' /\ RequestsOK'
  BY <1>1, <1>2, FormLater, SoundLater DEF FormInv, RequestsOK
<1>4. AnswerOK'
  BY <1>1, <1>2, <1>3 DEF FormInv, AnswerOK
<1> QED BY <1>2, <1>3, <1>4 DEF FormInv

LEMMA FormInvStep == FormInv /\ [FormNext]_formVars => FormInv'
<1> SUFFICES ASSUME FormInv, [FormNext]_formVars PROVE FormInv'
  OBVIOUS
<1>1. CASE \E files \in SUBSET Photo : Press(files)
  BY <1>1, PressStep
<1>2. CASE Send
  BY <1>2, SendStep
<1>3. CASE ServeForm
  BY <1>3, ServeStep
<1>4. CASE \E r \in late : ServeLate(r)
  BY <1>4, LateStep
<1>5. CASE Proceed
  BY <1>5, ProceedStep
<1>6. CASE Refuse
  BY <1>6, ReturnStep DEF Refuse
<1>7. CASE TimeOut
  BY <1>7, ReturnStep DEF TimeOut
<1>8. CASE LeaveClaim
  <2>1. wire = NoRequest /\ answer # "ok"
    BY <1>8 DEF LeaveClaim, FormInv, AnswerOK
  <2>2. ClaimsOK' /\ Grows
    BY <1>8, NothingServed DEF LeaveClaim, FormInv
  <2>3. RequestsOK' /\ AnswerOK'
    BY <1>8, <2>1, <2>2, SoundLater DEF LeaveClaim, FormInv, RequestsOK, AnswerOK
  <2>4. FormOK'
    BY <1>8 DEF LeaveClaim, FormInv, FormOK, EmptyForm
  <2> QED BY <2>2, <2>3, <2>4 DEF FormInv
<1>9. CASE UNCHANGED formVars
  <2>1. ClaimsOK' /\ Grows
    BY <1>9, NothingServed DEF formVars, FormInv
  <2>2. FormOK' /\ RequestsOK' /\ AnswerOK'
    BY <1>9, <2>1, FormLater, SoundLater DEF formVars, FormInv, RequestsOK, AnswerOK
  <2> QED BY <2>1, <2>2 DEF FormInv
<1>10. CASE Challenge \/ EndRenewal
  BY <1>10, RenewalStep
<1> QED BY <1>1, <1>2, <1>3, <1>4, <1>5, <1>6, <1>7, <1>8, <1>9, <1>10 DEF FormNext

\* A submitted claim has exactly the photos its form had chosen, whatever fails,
\* times out and is served late (onSubmit).
THEOREM SubmissionsAreWhole == FormSpec => []SubmittedIsWhole
<1>1. FormInv => SubmittedIsWhole
  BY DEF FormInv, ClaimsOK, SubmittedIsWhole
<1> QED BY <1>1, FormInvInit, FormInvStep, PTL DEF FormSpec

-----------------------------------------------------------------------------
\* A claim in review keeps its photos, so a claim that is submitted later is
\* compared with all that are in review.

LEMMA ServedReviews ==
  ASSUME ClaimsOK, ResubmissionIsReviewed, NEW r, Sound(r), Accepts(r), filed' = After(r)
  PROVE  ResubmissionIsReviewed'
<1>1. CASE r \in CreateRequest
  <2>1. r.op = "create" /\ Draft(r.files) \in Claim
    BY <1>1 DEF CreateRequest, Draft, Claim
  <2>2. filed' = Append(filed, Draft(r.files))
    BY <2>1 DEF After
  <2>3. \A c \in DOMAIN filed' :
          \/ c \in DOMAIN filed /\ filed'[c] = filed[c]
          \/ filed'[c].status = "draft"
    BY <2>1, <2>2 DEF ClaimsOK, Draft
  <2> QED BY <2>3 DEF ResubmissionIsReviewed
<1>2. CASE r \in ImageRequest
  <2>1. /\ r.op = "image" /\ r.claim \in DOMAIN filed /\ filed[r.claim].status = "draft"
        /\ filed[r.claim] \in Claim
    BY <1>2 DEF Sound, ImageRequest, CreateRequest, SubmitRequest, Accepts, ClaimsOK
  <2>2. filed' = [filed EXCEPT ![r.claim].photos = @ \union {r.photo}]
    BY <2>1 DEF After
  <2>3. filed'[r.claim].status = "draft"
    BY <2>1, <2>2 DEF Claim, ClaimsOK
  <2>4. \A c \in DOMAIN filed' :
          \/ c \in DOMAIN filed /\ filed'[c] = filed[c]
          \/ filed'[c].status = "draft"
    BY <2>2, <2>3 DEF ClaimsOK
  <2> QED BY <2>4 DEF ResubmissionIsReviewed
<1>3. CASE r \in SubmitRequest
  <2> DEFINE s == r.claim
  <2>1. r.op = "submit" /\ s \in DOMAIN filed /\ filed[s].status = "draft" /\ filed[s] \in Claim
    BY <1>3 DEF Sound, ImageRequest, CreateRequest, SubmitRequest, Accepts, ClaimsOK
  <2>2. filed' = [filed EXCEPT ![s] = Submitted(s)]
    BY <2>1 DEF After
  <2> HIDE DEF s
  <2>3. /\ DOMAIN filed' = DOMAIN filed /\ filed'[s] = Submitted(s)
        /\ \A d \in DOMAIN filed : d # s => filed'[d] = filed[d]
    BY <2>1, <2>2 DEF ClaimsOK
  <2>4. /\ filed'[s].photos = filed[s].photos
        /\ filed'[s].flagged = (filed[s].photos \intersect PicturesElsewhere(s) # {})
    BY <2>1, <2>3 DEF Submitted, Claim
  <2>5. ASSUME NEW d \in DOMAIN filed, d # s, filed'[s].photos \intersect filed'[d].photos # {}
        PROVE  filed'[s].flagged
    <3>1. PICK p : p \in filed[s].photos /\ p \in filed[d].photos
      BY <2>3, <2>4, <2>5
    <3>2. p \in PicturesElsewhere(s)
      BY <2>5, <3>1 DEF PicturesElsewhere
    <3> QED BY <2>4, <3>1, <3>2
  <2>6. SUFFICES ASSUME NEW c \in DOMAIN filed, NEW d \in DOMAIN filed, c # d,
                        filed'[c].status = "review", filed'[d].status = "review",
                        filed'[c].photos \intersect filed'[d].photos # {}
                 PROVE  filed'[c].flagged \/ filed'[d].flagged
    BY <2>3 DEF ResubmissionIsReviewed
  <2>7. CASE c = s \/ d = s
    BY <2>5, <2>6, <2>7
  <2>8. CASE c # s /\ d # s
    BY <2>3, <2>6, <2>8 DEF ResubmissionIsReviewed
  <2> QED BY <2>7, <2>8
<1> QED BY <1>1, <1>2, <1>3 DEF Sound

LEMMA ReviewStep ==
  FormInv /\ ResubmissionIsReviewed /\ [FormNext]_formVars => ResubmissionIsReviewed'
<1> SUFFICES ASSUME FormInv, ResubmissionIsReviewed, [FormNext]_formVars
             PROVE  ResubmissionIsReviewed'
  OBVIOUS
<1>1. CASE ServeForm
  <2>1. CASE Accepts(wire)
    <3>1. PICK r : r = wire
      OBVIOUS
    <3>2. Sound(r) /\ Accepts(r) /\ filed' = After(r)
      BY <1>1, <2>1, <3>1 DEF ServeForm, FormInv, RequestsOK
    <3> QED BY <3>2, ServedReviews DEF FormInv
  <2>2. CASE ~Accepts(wire)
    BY <1>1, <2>2 DEF ServeForm, ResubmissionIsReviewed
  <2> QED BY <2>1, <2>2
<1>2. ASSUME NEW r \in late, ServeLate(r) PROVE ResubmissionIsReviewed'
  <2>1. CASE Accepts(r)
    BY <1>2, <2>1, ServedReviews DEF ServeLate, FormInv, RequestsOK
  <2>2. CASE ~Accepts(r)
    BY <1>2, <2>2 DEF ServeLate, ResubmissionIsReviewed
  <2> QED BY <2>1, <2>2
<1>3. CASE UNCHANGED filed
  BY <1>3 DEF ResubmissionIsReviewed
<1> QED
  BY <1>1, <1>2, <1>3
     DEF FormNext, formVars, Press, Send, Challenge, EndRenewal, Proceed, Refuse, TimeOut,
         LeaveClaim

\* Of two submitted claims with a photo in common one at least is held, for any
\* number of attempts and late requests (_duplicate_image_signals).
THEOREM ResubmissionsAreReviewed == FormSpec => []ResubmissionIsReviewed
<1>1. FormInit => ResubmissionIsReviewed
  BY DEF FormInit, ResubmissionIsReviewed
<1> QED BY <1>1, FormInvInit, FormInvStep, ReviewStep, PTL DEF FormSpec
=============================================================================
