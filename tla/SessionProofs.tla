---------------------------- MODULE SessionProofs ----------------------------
(***************************************************************************)
(* What BrowserSession promises, for any browsers, tabs, users and limits: *)
(* the rows of the server agree with the cookies, a single session stays   *)
(* one, a countdown ends only in silence, and drafts replace no new text.  *)
(*                                                                         *)
(* Two invariants carry it: one of each tab with the storage of its        *)
(* browser, one of the rows with the cookies.                              *)
(***************************************************************************)
EXTENDS BrowserSession, FiniteSetTheorems, TLAPS

(* A tab beside the storage of its browser.  Its countdown is not younger  *)
(* than the last activity, unless a storage event is on its way; text that *)
(* was edited is off the board only after a failure.                       *)
SigningIn == {"signing", "issued", "granted"}

Sound(tb, st) ==
    /\ tb \in TabState
    /\ tb.user = NoUser => ~tb.ready /\ tb.stream = 0 /\ tb.warn = 0
    /\ tb.pc \in {"rotating", "answering"} => tb.ask.sid # 0
    /\ tb.pc \in SigningIn => tb.user = NoUser /\ tb.who \in User
    /\ tb.warn # 0 => tb.news \/ (st.act # 0 /\ st.act <= tb.warn)
    /\ tb.typed /\ ~tb.ready => tb.failed

AllSound(tabs, stores) ==
    /\ stores \in [Browser -> Storage]
    /\ DOMAIN tabs = Tab /\ tabs = [t \in Tab |-> tabs[t]]
    /\ \A t \in Tab : Sound(tabs[t], stores[Home[t]])

Tabs ==
    /\ clock \in 1 .. MaxClock
    /\ asked \in 0 .. MaxAsked
    /\ AllSound(tab, store)

(* A cookie that an answer or a logout takes from a browser is of a row    *)
(* that has ended, unless it is in the history; no cookie, answer or       *)
(* request names a row that is not there.                                  *)
Known(s, rows) == s \in Sid => rows[s].status # "none"

Checked(tb, rows) ==
    /\ tb.pc \in {"rotating", "answering"} => tb.ask.sid \in Sid /\ rows[tb.ask.sid].status # "none"
    /\ tb.pc = "answering" => rows[tb.ask.sid].status = "revoked"
    /\ tb.pc \in OnItsWay => Known(tb.sid, rows)

Ended ==
    /\ \A t \in Tab : Checked(tab[t], session)
    /\ \A b \in Browser : Known(cookie[b].sid, session)
    /\ \A l \in logouts :
          /\ Known(l.sid, session)
          /\ l.done /\ l.sid \in Sid => session[l.sid].status = "revoked" \/ l.sid \in dropped

Held == LiveSessionsAreHeld /\ Ended

OnlyOne(u) == \A r, s \in LiveOf(u) \ missed : r = s

RowTypes ==
    /\ session \in [Sid -> Row] /\ \A s \in Sid : session[s].status # "none" => session[s].user \in User
    /\ single \in [User -> BOOLEAN]
    /\ cookie \in [Browser -> Cookie]
    /\ logouts \subseteq [browser : Browser, sid : 0 .. MaxSession, done : BOOLEAN]
    /\ missed \subseteq Sid /\ dropped \subseteq 0 .. MaxSession

Rows == RowTypes /\ Held /\ \A u \in User : single[u] => OnlyOne(u)

IInv == Tabs /\ Rows

(* None of each thing is one of its kind.                                  *)
LEMMA Nothing ==
    /\ 0 \in 0 .. MaxSession /\ 0 \in 0 .. MaxClock /\ 0 \in Text
    /\ NoCookie \in Cookie /\ NoDrafts \in Payload
BY LimitAssumption DEF NoCookie, Cookie, Text, NoDrafts, Payload

(* A storage event for the tab asks for no more than a look at the stamp.  *)
LEMMA NewsIsSound ==
    ASSUME NEW tb, NEW st, NEW st2, NEW news \in BOOLEAN, Sound(tb, st),
           news \/ tb.user = NoUser \/ st2.act = st.act
    PROVE  Sound([tb EXCEPT !.news = @ \/ news], st2)
BY DEF Sound, TabState

(* A tab changes and the stamp of its browser does, with an event to the   *)
(* other tabs.                                                             *)
LEMMA EventKeepsTabs ==
    ASSUME AllSound(tab, store), NEW t \in Tab, NEW tb, NEW st \in Storage, Sound(tb, st)
    PROVE  AllSound(Notify([tab EXCEPT ![t] = tb], t), [store EXCEPT ![Home[t]] = st])
<1> DEFINE tabs == Notify([tab EXCEPT ![t] = tb], t)
           stores == [store EXCEPT ![Home[t]] = st]
<1>1. Home[t] \in Browser /\ \A o \in Tab : Home[o] \in Browser
  BY HomeAssumption
<1>2. stores \in [Browser -> Storage]
  BY DEF AllSound
<1>3. DOMAIN tabs = Tab /\ tabs = [o \in Tab |-> tabs[o]]
  BY DEF Notify
<1>4. ASSUME NEW o \in Tab PROVE Sound(tabs[o], stores[Home[o]])
  <2> DEFINE news == o \in Others(t)
             old == IF o = t THEN tb ELSE tab[o]
             was == IF o = t THEN st ELSE store[Home[o]]
  <2>1. tabs[o] = [old EXCEPT !.news = @ \/ news]
    BY DEF Notify, AllSound
  <2>2. Sound(old, was)
    BY DEF AllSound
  <2>3. news \/ old.user = NoUser \/ stores[Home[o]].act = was.act
    <3>1. CASE o = t
      BY <1>1, <3>1 DEF AllSound
    <3>2. CASE o # t /\ Home[o] # Home[t]
      BY <1>1, <3>2 DEF AllSound
    <3>3. CASE o # t /\ Home[o] = Home[t]
      BY <3>3 DEF Others, SignedIn
    <3> QED BY <3>1, <3>2, <3>3
  <2>4. news \in BOOLEAN
    OBVIOUS
  <2> HIDE DEF news, old, was, tabs, stores
  <2> QED BY <2>1, <2>2, <2>3, <2>4, NewsIsSound
<1> HIDE DEF tabs, stores
<1>5. AllSound(tabs, stores)
  BY <1>2, <1>3, <1>4 DEF AllSound
<1> QED BY <1>5 DEF tabs, stores

(* A tab changes and the stamps do not.                                    *)
LEMMA OneTabKeepsTabs ==
    ASSUME AllSound(tab, store), NEW t \in Tab, NEW tb, Sound(tb, store[Home[t]])
    PROVE  AllSound([tab EXCEPT ![t] = tb], store)
BY DEF AllSound

(* Nor do they when it takes its drafts.                                   *)
LEMMA DraftsKeepTabs ==
    ASSUME NEW tabs, NEW stores, AllSound(tabs, stores), NEW b \in Browser
    PROVE  AllSound(tabs, [stores EXCEPT ![b].drafts = NoDrafts])
<1> DEFINE next == [stores EXCEPT ![b].drafts = NoDrafts]
<1>1. next \in [Browser -> Storage] /\ \A c \in Browser : next[c].act = stores[c].act
  BY Nothing DEF AllSound, Storage
<1>2. ASSUME NEW t \in Tab PROVE Sound(tabs[t], next[Home[t]])
  <2>1. Home[t] \in Browser /\ Sound(tabs[t], stores[Home[t]])
    BY HomeAssumption DEF AllSound
  <2> HIDE DEF next
  <2> QED BY <1>1, <2>1 DEF Sound
<1> HIDE DEF next
<1>3. AllSound(tabs, next)
  BY <1>1, <1>2 DEF AllSound
<1> QED BY <1>3 DEF next

(* The stamps of a sign-in, or none, and the event of the first.           *)
LEMMA SeedKeepsTabs ==
    ASSUME Tabs, NEW t \in Tab, NEW tb, Sound(tb, Seeded(store[Home[t]]))
    PROVE  AllSound(NotifySeed([tab EXCEPT ![t] = tb], t),
                    [store EXCEPT ![Home[t]] = Seeded(store[Home[t]])])
<1> DEFINE st == Seeded(store[Home[t]])
           tabs == NotifySeed([tab EXCEPT ![t] = tb], t)
<1>1. store[Home[t]] \in Storage /\ AllSound(tab, store)
  BY HomeAssumption DEF Tabs, AllSound
<1>2. st \in Storage
  <2>1. clock \in 0 .. MaxClock
    BY LimitAssumption DEF Tabs
  <2> QED BY <1>1, <2>1 DEF Seeded, Storage
<1>3. CASE store[Home[t]].act = 0
  <2>1. tabs = Notify([tab EXCEPT ![t] = tb], t)
    BY <1>3 DEF NotifySeed
  <2> HIDE DEF st, tabs
  <2>2. AllSound(tabs, [store EXCEPT ![Home[t]] = st])
    BY <1>1, <1>2, <2>1, EventKeepsTabs DEF st
  <2> QED BY <2>2 DEF st, tabs
<1>4. CASE store[Home[t]].act # 0
  <2> DEFINE next == [tab EXCEPT ![t] = tb]
             stores == [store EXCEPT ![Home[t]] = st]
  <2>1. tabs = next
    BY <1>4 DEF NotifySeed
  <2>2. st.act = store[Home[t]].act
    BY <1>1, <1>4 DEF Seeded, Storage
  <2>3. Sound(tb, store[Home[t]])
    BY <2>2 DEF Sound
  <2>4. AllSound(next, store)
    BY <1>1, <2>3, OneTabKeepsTabs
  <2>5. stores \in [Browser -> Storage] /\ \A b \in Browser : stores[b].act = store[b].act
    BY <1>1, <1>2, <2>2 DEF AllSound
  <2>6. AllSound(next, stores)
    <3> HIDE DEF next, stores
    <3>1. ASSUME NEW o \in Tab PROVE Sound(next[o], stores[Home[o]])
      BY <2>4, <2>5, HomeAssumption DEF AllSound, Sound
    <3> QED BY <2>4, <2>5, <3>1 DEF AllSound
  <2> QED BY <2>1, <2>6
<1> QED BY <1>3, <1>4

(* So does the end of a request.                                           *)
LEMMA AnsweredIsSound ==
    ASSUME NEW tb, NEW st, Sound(tb, st)
    PROVE  Sound(Answered(tb), st)
BY Nothing DEF Sound, TabState, Answered, SigningIn, Phase, OnItsWay

(* The answer to "who is signed in" keeps the tabs sound.                  *)
LEMMA SetSessionKeepsTabs ==
    ASSUME Tabs, NEW t \in Tab, NEW u \in User \cup {NoUser}, SetSession(t, u)
    PROVE  AllSound(tab', store')
<1> DEFINE shown == [Answered(tab[t]) EXCEPT !.user = u]
           bare == [shown EXCEPT !.ready = FALSE, !.stream = 0, !.revoke = FALSE, !.warn = 0,
                                 !.news = FALSE, !.modal = 0, !.failed = @ \/ SignedIn(t)]
<1>1. Sound(tab[t], store[Home[t]]) /\ AllSound(tab, store)
  BY DEF Tabs, AllSound
<1>2. NoCookie \in Cookie
  BY Nothing
<1>3. shown \in TabState
  BY <1>1, <1>2, Nothing DEF Sound, TabState, Answered, Phase
<1>4. bare \in TabState
  <2> DEFINE failed == shown.failed \/ SignedIn(t)
  <2>1. failed \in BOOLEAN
    OBVIOUS
  <2>2. bare = [shown EXCEPT !.ready = FALSE, !.stream = 0, !.revoke = FALSE, !.warn = 0,
                             !.news = FALSE, !.modal = 0, !.failed = failed]
    OBVIOUS
  <2> HIDE DEF failed, shown, bare
  <2> QED BY <1>3, <2>1, <2>2, Nothing DEF TabState
<1>5. ASSUME u = NoUser PROVE Sound(bare, store[Home[t]])
  <2>1. /\ bare.pc = "idle" /\ ~bare.ready /\ bare.stream = 0 /\ bare.warn = 0
        /\ bare.typed = tab[t].typed
        /\ SignedIn(t) \/ tab[t].failed => bare.failed
    BY <1>1 DEF Sound, TabState, Answered
  <2>2. tab[t].typed /\ ~SignedIn(t) => tab[t].failed
    BY <1>1 DEF Sound, SignedIn
  <2> HIDE DEF bare, shown
  <2> QED BY <1>4, <2>1, <2>2 DEF Sound, SigningIn
<1>6. ASSUME u # NoUser, SignedIn(t) PROVE Sound(shown, store[Home[t]])
  BY <1>1, <1>3, <1>6 DEF Sound, SignedIn, TabState, Answered, SigningIn
<1>7. ASSUME u # NoUser, ~SignedIn(t), NEW st PROVE Sound(shown, st)
  BY <1>1, <1>3, <1>7 DEF Sound, SignedIn, TabState, Answered, SigningIn
<1>8. tab' = IF u # NoUser /\ ~SignedIn(t)
             THEN NotifySeed([tab EXCEPT ![t] = IF u = NoUser THEN bare ELSE shown], t)
             ELSE [tab EXCEPT ![t] = IF u = NoUser THEN bare ELSE shown]
  BY DEF SetSession
<1>9. store' = IF u # NoUser /\ ~SignedIn(t)
               THEN [store EXCEPT ![Home[t]] = Seeded(store[Home[t]])] ELSE store
  BY DEF SetSession
<1> HIDE DEF bare, shown
<1>10. CASE u # NoUser /\ ~SignedIn(t)
  BY <1>7, <1>8, <1>9, <1>10, SeedKeepsTabs
<1>11. CASE u = NoUser
  BY <1>1, <1>5, <1>8, <1>9, <1>11, OneTabKeepsTabs
<1>12. CASE u # NoUser /\ SignedIn(t)
  BY <1>1, <1>6, <1>8, <1>9, <1>12, OneTabKeepsTabs
<1> QED BY <1>10, <1>11, <1>12

(* A logout, for whatever reason, leaves a tab with nothing to lose.       *)
LEMMA LogoutKeepsTabs ==
    ASSUME Tabs, NEW t \in Tab, NEW reason, Logout(t, reason)
    PROVE  Tabs'
<1> DEFINE st == [login |-> 0, act |-> 0,
                  drafts |-> IF reason \in Automatic THEN Captured(t) ELSE NoDrafts]
<1>1. tab[t] \in TabState /\ AllSound(tab, store)
  BY DEF Tabs, AllSound, Sound
<1>2. st \in Storage
  BY <1>1, Nothing DEF TabState, Storage, Captured, Payload
<1>3. Sound(SignedOut(tab[t]), st)
  <2>1. SignedOut(tab[t]) \in TabState
    BY <1>1, Nothing DEF SignedOut, TabState
  <2>2. /\ tab[t].pc \in {"rotating", "answering"} => tab[t].ask.sid # 0
        /\ tab[t].pc \notin SigningIn
    BY DEF Tabs, AllSound, Sound, Logout, SignedIn
  <2> QED BY <1>1, <2>1, <2>2 DEF Sound, SignedOut, TabState
<1>4. tab' = Notify([tab EXCEPT ![t] = SignedOut(tab[t])], t)
  BY DEF Logout
<1>5. store' = [store EXCEPT ![Home[t]] = st] /\ clock' = clock /\ asked' = asked
  BY DEF Logout
<1> HIDE DEF st
<1> QED BY <1>1, <1>2, <1>3, <1>4, <1>5, EventKeepsTabs DEF Tabs

(* The revoke marker changes nothing else in the tabs it is sent to.       *)
LEMMA PushKeepsTabs ==
    ASSUME NEW tabs, NEW stores, NEW u, AllSound(tabs, stores)
    PROVE  AllSound(PushRevoked(tabs, u), stores)
<1> DEFINE next == PushRevoked(tabs, u)
<1>1. DOMAIN next = Tab /\ next = [o \in Tab |-> next[o]]
  BY DEF PushRevoked
<1>2. ASSUME NEW o \in Tab PROVE Sound(next[o], stores[Home[o]])
  <2> DEFINE old == tabs[o]
             hit == old.revoke \/ (old.stream # 0 /\ session[old.stream].user = u)
  <2>1. next[o] = [old EXCEPT !.revoke = hit]
    BY DEF PushRevoked
  <2>2. Sound(old, stores[Home[o]]) /\ hit \in BOOLEAN
    BY DEF AllSound
  <2> HIDE DEF old, hit, next
  <2> QED BY <2>1, <2>2 DEF Sound, TabState
<1> HIDE DEF next
<1>3. AllSound(next, stores)
  BY <1>1, <1>2 DEF AllSound
<1> QED BY <1>3 DEF next

(* A request of a tab goes on, the tab's other fields unchanged.           *)
LEMMA GoingOnKeepsTabs ==
    ASSUME Tabs, NEW t \in Tab, NEW tb, Sound(tb, store[Home[t]]),
           tab' = [tab EXCEPT ![t] = tb], UNCHANGED <<clock, store>>, asked' \in 0 .. MaxAsked
    PROVE  Tabs'
BY OneTabKeepsTabs DEF Tabs

(* The requests of a tab and their answers.                                *)
LEMMA LoginKeepsTabs ==
    ASSUME Tabs, Rows, NEW t \in Tab, Login(t)
    PROVE  Tabs'
<1>1. /\ Sound(tab[t], store[Home[t]]) /\ AllSound(tab, store) /\ Home[t] \in Browser
      /\ asked \in 0 .. MaxAsked
  BY HomeAssumption DEF Tabs, AllSound
<1>2. cookie[Home[t]] \in Cookie
  BY <1>1 DEF Rows, RowTypes
<1>3. ASSUME Asked PROVE asked' \in 0 .. MaxAsked
  BY <1>3, LimitAssumption DEF Asked, Tabs
<1>4. CASE RefreshSession(t)
  <2> DEFINE tb == [tab[t] EXCEPT !.pc = "asking", !.ask = cookie[Home[t]]]
  <2>1. Sound(tb, store[Home[t]])
    BY <1>1, <1>2 DEF Sound, TabState, Phase, SigningIn
  <2>2. tab' = [tab EXCEPT ![t] = tb] /\ clock' = clock /\ store' = store /\ asked' \in 0 .. MaxAsked
    BY <1>1, <1>3, <1>4 DEF RefreshSession
  <2> HIDE DEF tb
  <2> QED BY <2>1, <2>2, GoingOnKeepsTabs
<1>5. ASSUME NEW u \in User \cup {NoUser}, SetSession(t, u), clock' = clock, asked' = asked \/ Asked
      PROVE  Tabs'
  BY <1>1, <1>3, <1>5, SetSessionKeepsTabs DEF Tabs
<1>6. CASE HandleSession(t)
  <2>1. clock' = clock /\ (asked' = asked \/ Asked)
    BY <1>6 DEF HandleSession
  <2>2. tab[t].ask \in Cookie
    BY <1>1 DEF Sound, TabState
  <2>3. ASSUME Authenticated(tab[t].ask) PROVE session[tab[t].ask.sid].user \in User \cup {NoUser}
    BY <2>2, <2>3 DEF Rows, RowTypes, Authenticated, Live, Cookie, Sid, Row
  <2>4. ASSUME NEW pc \in {"rotating", "answering"}, NEW n \in {0, tab[t].sid}, tab[t].ask.sid # 0,
               tab' = [tab EXCEPT ![t].pc = pc, ![t].sid = n], store' = store
        PROVE  Tabs'
    <3> DEFINE tb == [tab[t] EXCEPT !.pc = pc, !.sid = n]
    <3>1. Sound(tb, store[Home[t]])
      BY <1>1, <2>4, Nothing DEF Sound, TabState, Phase, OnItsWay, SigningIn
    <3>2. tab' = [tab EXCEPT ![t] = tb] /\ store' = store /\ asked' \in 0 .. MaxAsked
      BY <1>1, <1>3, <2>1, <2>4
    <3> HIDE DEF tb
    <3> QED BY <2>1, <3>1, <3>2, GoingOnKeepsTabs
  <2>5. \/ Authenticated(tab[t].ask) /\ SetSession(t, session[tab[t].ask.sid].user)
        \/ \E pc \in {"rotating", "answering"}, n \in {0, tab[t].sid} :
              tab[t].ask.sid # 0 /\ tab' = [tab EXCEPT ![t].pc = pc, ![t].sid = n] /\ store' = store
        \/ SetSession(t, NoUser)
    <3>1. tab[t] = [tab[t] EXCEPT !.sid = tab[t].sid]
      BY <1>1 DEF Sound, TabState
    <3>2. [tab EXCEPT ![t].pc = "rotating"] = [tab EXCEPT ![t].pc = "rotating", ![t].sid = tab[t].sid]
      BY <1>1 DEF AllSound, Sound, TabState
    <3> QED BY <1>6, <3>2 DEF HandleSession, Live
  <2>6. CASE SetSession(t, NoUser)
    BY <1>5, <2>1, <2>6
  <2>7. CASE Authenticated(tab[t].ask) /\ SetSession(t, session[tab[t].ask.sid].user)
    BY <1>5, <2>1, <2>3, <2>7
  <2> QED BY <2>4, <2>5, <2>6, <2>7
<1>7. CASE RefreshFails(t) \/ LoseAnswer(t)
  BY <1>5, <1>7 DEF RefreshFails, LoseAnswer
<1>8. CASE RequestFails(t)
  <2>1. Sound(Answered(tab[t]), store[Home[t]])
    BY <1>1, AnsweredIsSound
  <2>2. /\ tab' = [tab EXCEPT ![t] = Answered(tab[t])]
        /\ clock' = clock /\ store' = store /\ asked' \in 0 .. MaxAsked
    BY <1>3, <1>8 DEF RequestFails
  <2> QED BY <2>1, <2>2, GoingOnKeepsTabs
<1>9. ASSUME NEW n \in Sid, RotateRefresh(t, n) PROVE Tabs'
  <2> DEFINE tb == [tab[t] EXCEPT !.pc = "answering", !.sid = n]
  <2>1. n \in 0 .. MaxSession /\ tab[t].ask.sid # 0
    BY <1>1, <1>9 DEF Sid, RotateRefresh, Sound
  <2>2. Sound(tb, store[Home[t]])
    BY <1>1, <2>1 DEF Sound, TabState, Phase, OnItsWay, SigningIn
  <2>3. tab' = [tab EXCEPT ![t] = tb] /\ clock' = clock /\ store' = store /\ asked' \in 0 .. MaxAsked
    BY <1>1, <1>9 DEF RotateRefresh
  <2> HIDE DEF tb
  <2> QED BY <2>2, <2>3, GoingOnKeepsTabs
<1>10. CASE AnswerSession(t)
  <2> DEFINE n == tab[t].sid
             u == IF n = 0 THEN NoUser ELSE session[n].user
  <2>1. u \in User \cup {NoUser}
    BY <1>1 DEF Sound, TabState, Rows, RowTypes, Row, Sid
  <2>2. clock' = clock /\ (asked' = asked \/ Asked) /\ (SetSession(t, u) \/ SetSession(t, NoUser))
    BY <1>10 DEF AnswerSession
  <2> HIDE DEF u
  <2> QED BY <1>5, <2>1, <2>2
<1>11. ASSUME NEW u \in User, SubmitLogin(t, u) PROVE Tabs'
  <2> DEFINE tb == [tab[t] EXCEPT !.pc = "signing", !.who = u, !.single = single[u]]
  <2>1. Sound(tb, store[Home[t]])
    BY <1>1, <1>11 DEF Sound, TabState, Rows, RowTypes, SubmitLogin, SignedIn, Phase
  <2>2. tab' = [tab EXCEPT ![t] = tb] /\ clock' = clock /\ store' = store /\ asked' \in 0 .. MaxAsked
    BY <1>3, <1>11 DEF SubmitLogin
  <2> HIDE DEF tb
  <2> QED BY <2>1, <2>2, GoingOnKeepsTabs
<1>12. ASSUME NEW n \in Sid, IssueRefresh(t, n) PROVE Tabs'
  <2> DEFINE pc == IF tab[t].single THEN "issued" ELSE "granted"
             tb == [tab[t] EXCEPT !.pc = pc, !.sid = n]
  <2>1. n \in 0 .. MaxSession /\ tab[t].pc = "signing" /\ pc \in {"issued", "granted"}
    BY <1>12 DEF Sid, IssueRefresh
  <2>2. tab' = [tab EXCEPT ![t] = tb] /\ clock' = clock /\ store' = store /\ asked' \in 0 .. MaxAsked
    BY <1>1, <1>12 DEF IssueRefresh
  <2> HIDE DEF pc
  <2>3. Sound(tb, store[Home[t]])
    BY <1>1, <2>1 DEF Sound, TabState, Phase, OnItsWay, SigningIn
  <2> HIDE DEF tb
  <2> QED BY <2>2, <2>3, GoingOnKeepsTabs
<1>13. CASE AnswerLogin(t)
  <2>1. tab[t].who \in User \cup {NoUser} /\ SetSession(t, tab[t].who) /\ clock' = clock /\ asked' = asked
    BY <1>1, <1>13 DEF Sound, TabState, AnswerLogin
  <2> QED BY <1>5, <2>1
<1> QED BY <1>4, <1>6, <1>7, <1>8, <1>9, <1>10, <1>11, <1>12, <1>13 DEF Login

(* Input of any kind: a fresh stamp, and no countdown.                     *)
LEMMA BumpKeepsTabs ==
    ASSUME Tabs, NEW t \in Tab, NEW tb \in TabState, Bump(t, tb), asked' \in 0 .. MaxAsked,
           tb.user # NoUser, tb.pc \in {"rotating", "answering"} => tb.ask.sid # 0,
           tb.pc \notin SigningIn, tb.typed /\ ~tb.ready => tb.failed
    PROVE  Tabs'
<1> DEFINE calm == [tb EXCEPT !.warn = 0]
           st == [store[Home[t]] EXCEPT !.act = clock]
<1>1. AllSound(tab, store) /\ store[Home[t]] \in Storage /\ clock \in 0 .. MaxClock /\ clock \in Nat
  BY HomeAssumption, LimitAssumption DEF Tabs, AllSound
<1>2. st \in Storage /\ st.act = clock
  BY <1>1 DEF Storage
<1>3. ASSUME NEW any PROVE Sound(calm, any)
  BY Nothing DEF Sound, TabState
<1>4. store' = [store EXCEPT ![Home[t]] = st] /\ clock' = clock
  BY DEF Bump
<1>5. CASE store[Home[t]].act = clock
  <2>1. tab' = [tab EXCEPT ![t] = calm]
    BY <1>5 DEF Bump
  <2>2. store' = store
    <3>1. st = store[Home[t]]
      BY <1>1, <1>5 DEF Storage
    <3> HIDE DEF st
    <3> QED BY <1>1, <1>4, <3>1 DEF AllSound
  <2> HIDE DEF calm, st
  <2> QED BY <1>1, <1>3, <1>4, <2>1, <2>2, OneTabKeepsTabs DEF Tabs
<1>6. CASE store[Home[t]].act # clock
  <2>1. tab' = Notify([tab EXCEPT ![t] = calm], t)
    BY <1>6 DEF Bump
  <2> HIDE DEF calm, st
  <2> QED BY <1>1, <1>2, <1>3, <1>4, <2>1, EventKeepsTabs DEF Tabs
<1> QED BY <1>5, <1>6

(* The board of a tab comes and goes, and takes drafts and text.           *)
LEMMA WorkKeepsTabs ==
    ASSUME Tabs, Rows, NEW t \in Tab, Work(t)
    PROVE  Tabs'
<1>1. Sound(tab[t], store[Home[t]]) /\ AllSound(tab, store) /\ Home[t] \in Browser
  BY HomeAssumption DEF Tabs, AllSound
<1>2. ASSUME Asked PROVE asked' \in 0 .. MaxAsked
  BY <1>2, LimitAssumption DEF Asked, Tabs
<1>3. CASE LoadWorkspace(t)
  <2> DEFINE stream == IF tab[t].stream = 0 THEN cookie[Home[t]].sid ELSE tab[t].stream
             shown == [tab[t] EXCEPT !.ready = TRUE, !.stream = stream]
             d == Drafts(t)
  <2>1. SignedIn(t) /\ tab[t].pc = "idle"
    BY <1>3 DEF LoadWorkspace
  <2>2. stream \in 0 .. MaxSession
    BY <1>1 DEF Rows, RowTypes, Cookie, Sound, TabState
  <2>3. Sound(shown, store[Home[t]])
    <3> HIDE DEF stream
    <3> QED BY <1>1, <2>1, <2>2 DEF Sound, TabState, SignedIn
  <2>4. d \in Payload
    BY <1>1 DEF Drafts, AllSound, Storage, Sound, TabState
  <2>5. Sound(Restored(shown, d), store[Home[t]])
    <3> HIDE DEF d, shown
    <3> QED BY <2>3, <2>4 DEF Sound, TabState, Restored, Payload
  <2>6. /\ tab' = [tab EXCEPT ![t] = shown] \/ tab' = [tab EXCEPT ![t] = Restored(shown, d)]
        /\ store' = store \/ store' = [store EXCEPT ![Home[t]].drafts = NoDrafts]
        /\ clock' = clock /\ asked' = asked
    BY <1>3 DEF LoadWorkspace
  <2> HIDE DEF shown, d
  <2>7. AllSound(tab', store)
    BY <1>1, <2>3, <2>5, <2>6, OneTabKeepsTabs
  <2>8. AllSound(tab', store')
    BY <1>1, <2>6, <2>7, DraftsKeepTabs
  <2> QED BY <2>6, <2>8 DEF Tabs
<1>4. CASE LoadFails(t)
  <2> DEFINE tb == [tab[t] EXCEPT !.ready = FALSE, !.stream = 0, !.revoke = FALSE, !.modal = 0,
                            !.failed = TRUE]
  <2>1. Sound(tb, store[Home[t]])
    BY <1>1, Nothing DEF Sound, TabState
  <2>2. tab' = [tab EXCEPT ![t] = tb] /\ clock' = clock /\ store' = store /\ asked' \in 0 .. MaxAsked
    BY <1>2, <1>4 DEF LoadFails
  <2> HIDE DEF tb
  <2> QED BY <1>1, <2>1, <2>2, OneTabKeepsTabs DEF Tabs
<1>5. ASSUME NEW x \in Text, Type(t, x) PROVE Tabs'
  <2> DEFINE tb == [tab[t] EXCEPT !.form = x, !.typed = TRUE]
  <2>1. Bump(t, tb) /\ tab[t].ready /\ tab[t].user # NoUser /\ asked' \in 0 .. MaxAsked
    BY <1>5 DEF Type, Board, SignedIn, Tabs
  <2>2. /\ tb \in TabState /\ tb.user # NoUser /\ tb.pc \notin SigningIn
        /\ tb.pc \in {"rotating", "answering"} => tb.ask.sid # 0
        /\ tb.ready
    BY <1>1, <2>1 DEF Sound, TabState
  <2> HIDE DEF tb
  <2> QED BY <2>1, <2>2, BumpKeepsTabs
<1>6. ASSUME NEW x \in Text, TypeInModal(t, x) PROVE Tabs'
  <2> DEFINE tb == [tab[t] EXCEPT !.modal = x]
  <2>1. Bump(t, tb) /\ tab[t].ready /\ tab[t].user # NoUser /\ asked' \in 0 .. MaxAsked
    BY <1>2, <1>6 DEF TypeInModal, Board, SignedIn
  <2>2. /\ tb \in TabState /\ tb.user # NoUser /\ tb.pc \notin SigningIn
        /\ tb.pc \in {"rotating", "answering"} => tb.ask.sid # 0
        /\ tb.ready
    BY <1>1, <2>1 DEF Sound, TabState
  <2> HIDE DEF tb
  <2> QED BY <2>1, <2>2, BumpKeepsTabs
<1>7. CASE OpenModal(t) \/ CloseModal(t)
  <2>1. PICK x : /\ x = 0 \/ x = Drafts(t).modal
                 /\ tab' = [tab EXCEPT ![t].modal = x] /\ clock' = clock /\ store' = store /\ asked' = asked
    BY <1>7 DEF OpenModal, CloseModal
  <2> DEFINE tb == [tab[t] EXCEPT !.modal = x]
  <2>2. x \in Text
    BY <1>1, <2>1, Nothing DEF Drafts, AllSound, Storage, Sound, TabState, Payload
  <2>3. Sound(tb, store[Home[t]])
    BY <1>1, <2>2 DEF Sound, TabState
  <2>4. tab' = [tab EXCEPT ![t] = tb]
    BY <2>1
  <2>5. clock' = clock /\ store' = store /\ asked' = asked
    BY <1>7 DEF OpenModal, CloseModal
  <2> HIDE DEF tb
  <2>6. AllSound(tab', store)
    BY <1>1, <2>3, <2>4, OneTabKeepsTabs
  <2> QED BY <2>5, <2>6 DEF Tabs
<1>8. CASE CloseTab(t)
  <2>1. Sound(Closed, store[Home[t]])
    BY Nothing DEF Sound, TabState, Closed, Phase, SigningIn
  <2>2. tab' = [tab EXCEPT ![t] = Closed] /\ clock' = clock /\ store' = store /\ asked' \in 0 .. MaxAsked
    BY <1>2, <1>8 DEF CloseTab
  <2> QED BY <1>1, <2>1, <2>2, OneTabKeepsTabs DEF Tabs
<1> QED BY <1>3, <1>4, <1>5, <1>6, <1>7, <1>8 DEF Work

(* The idle watcher.                                                       *)
LEMMA WatchKeepsTabs ==
    ASSUME Tabs, NEW t \in Tab, Watch(t)
    PROVE  Tabs'
<1>1. Sound(tab[t], store[Home[t]]) /\ AllSound(tab, store) /\ store[Home[t]] \in Storage
  BY HomeAssumption DEF Tabs, AllSound
<1>2. clock \in 0 .. MaxClock /\ clock \in Nat
  BY LimitAssumption DEF Tabs
<1>3. CASE BumpActivity(t)
  <2>1. Bump(t, tab[t]) /\ tab[t].user # NoUser /\ asked' \in 0 .. MaxAsked
    BY <1>3 DEF BumpActivity, Bump, SignedIn, Tabs
  <2> QED BY <1>1, <2>1, BumpKeepsTabs DEF Sound
<1>4. CASE HandleStorage(t)
  <2>1. Sound(Heard(tab[t]), store[Home[t]])
    BY <1>1, Nothing DEF Sound, TabState, Heard
  <2>2. /\ tab' = [tab EXCEPT ![t] = Heard(tab[t])]
        /\ clock' = clock /\ store' = store /\ asked' = asked
    BY <1>4 DEF HandleStorage
  <2> QED BY <1>1, <2>1, <2>2, OneTabKeepsTabs DEF Tabs
<1>5. CASE TickLogout(t)
  BY <1>5, LogoutKeepsTabs DEF TickLogout
<1>6. CASE TickWarn(t) /\ store[Home[t]].act = 0
  <2> DEFINE st == [store[Home[t]] EXCEPT !.act = clock]
  <2>1. st \in Storage
    BY <1>1, <1>2 DEF Storage
  <2>2. Sound(tab[t], st)
    BY <1>1, <1>6, Nothing DEF Sound
  <2>3. tab' = Notify(tab, t) /\ store' = [store EXCEPT ![Home[t]] = st] /\ clock' = clock /\ asked' = asked
    BY <1>6 DEF TickWarn
  <2>4. tab = [tab EXCEPT ![t] = tab[t]]
    BY <1>1 DEF AllSound
  <2> HIDE DEF st
  <2>5. AllSound(Notify([tab EXCEPT ![t] = tab[t]], t), [store EXCEPT ![Home[t]] = st])
    BY <1>1, <2>1, <2>2, EventKeepsTabs
  <2> QED BY <2>3, <2>4, <2>5 DEF Tabs
<1>7. CASE TickWarn(t) /\ store[Home[t]].act # 0
  <2> DEFINE tb == [tab[t] EXCEPT !.warn = clock]
  <2>1. /\ SignedIn(t) /\ clock - store[Home[t]].act >= Idle
        /\ tab' = [tab EXCEPT ![t] = tb] /\ store' = store /\ clock' = clock /\ asked' = asked
    BY <1>7 DEF TickWarn
  <2>2. store[Home[t]].act \in Nat /\ store[Home[t]].act <= clock
    BY <1>1, <1>2, <2>1, LimitAssumption DEF Storage
  <2>3. Sound(tb, store[Home[t]])
    BY <1>1, <1>2, <1>7, <2>1, <2>2 DEF Sound, TabState, SignedIn
  <2> HIDE DEF tb
  <2> QED BY <1>1, <2>1, <2>3, OneTabKeepsTabs DEF Tabs
<1> QED BY <1>3, <1>4, <1>5, <1>6, <1>7 DEF Watch

(* Every step keeps the tabs sound.                                        *)
LEMMA StepKeepsTabs ==
    ASSUME Tabs, Rows, [Next]_vars
    PROVE  Tabs'
<1>1. AllSound(tab, store)
  BY DEF Tabs
<1>2. ASSUME Asked PROVE asked' \in 0 .. MaxAsked
  BY <1>2, LimitAssumption DEF Asked, Tabs
<1>3. ASSUME NEW t \in Tab, LogoutByUser(t) \/ Kick(t) PROVE Tabs'
  BY <1>3, LogoutKeepsTabs DEF LogoutByUser, Kick, SessionRevoked, Heartbeat, Refresh
<1>4. ASSUME NEW t \in Tab, Security(t) PROVE Tabs'
  <2>0. Sound(tab[t], store[Home[t]]) /\ Sound(Answered(tab[t]), store[Home[t]])
    BY <1>1, AnsweredIsSound DEF AllSound
  <2>1. CASE ToggleSingleSession(t)
    <3> DEFINE c == cookie[Home[t]].sid
               u == session[c].user
               tb == [tab[t] EXCEPT !.pc = "choosing", !.who = u, !.single = single[u], !.sid = c]
    <3>1. c \in Sid /\ c \in 0 .. MaxSession /\ u \in User
      BY <2>1, HomeAssumption DEF ToggleSingleSession, Authorised, Authenticated, Live, Sid, Rows, RowTypes,
                                  Cookie
    <3>2. /\ tab' = [tab EXCEPT ![t] = tb]
          /\ clock' = clock /\ store' = store /\ asked' \in 0 .. MaxAsked
      BY <1>2, <2>1 DEF ToggleSingleSession
    <3>3. single[u] \in BOOLEAN
      BY <3>1 DEF Rows, RowTypes
    <3> DEFINE choice == single[u]
    <3>4. tb = [tab[t] EXCEPT !.pc = "choosing", !.who = u, !.single = choice, !.sid = c]
      OBVIOUS
    <3>5. choice \in BOOLEAN
      BY <3>3
    <3> HIDE DEF c, u, tb, choice
    <3>6. Sound(tb, store[Home[t]])
      BY <2>0, <3>1, <3>4, <3>5 DEF Sound, TabState, Phase, SigningIn
    <3> QED BY <3>2, <3>6, GoingOnKeepsTabs
  <2>3. ASSUME NEW on \in BOOLEAN, SavePreference(t, on) PROVE Tabs'
    <3>1. tab[t].pc = "choosing" /\ clock' = clock /\ store' = store /\ asked' = asked
      BY <2>3 DEF SavePreference
    <3>2. Sound([tab[t] EXCEPT !.pc = "saved"], store[Home[t]])
      BY <2>0, <3>1 DEF Sound, TabState, Phase, SigningIn
    <3>3. \/ tab' = [tab EXCEPT ![t] = [tab[t] EXCEPT !.pc = "saved"]]
          \/ tab' = [tab EXCEPT ![t] = Answered(tab[t])]
      BY <2>3 DEF SavePreference
    <3> QED BY <2>0, <3>1, <3>2, <3>3, GoingOnKeepsTabs DEF Tabs
  <2>4. CASE ApplyLastWins(t)
    <3> DEFINE granted == [tab[t] EXCEPT !.pc = "granted"]
               tb == IF tab[t].pc = "issued" THEN granted ELSE Answered(tab[t])
               next == [tab EXCEPT ![t] = tb]
    <3>1. /\ tab' = next \/ tab' = PushRevoked(next, tab[t].who)
          /\ clock' = clock /\ store' = store /\ asked' \in 0 .. MaxAsked
      BY <1>2, <2>4 DEF ApplyLastWins, Tabs
    <3>2. Sound(tb, store[Home[t]])
      <4>1. tab[t].pc = "issued" => Sound(granted, store[Home[t]])
        BY <2>0 DEF Sound, TabState, Phase, OnItsWay, SigningIn
      <4> QED BY <2>0, <4>1
    <3> HIDE DEF tb
    <3>3. AllSound(next, store)
      BY <1>1, <3>2, OneTabKeepsTabs
    <3> HIDE DEF next
    <3> QED BY <3>1, <3>3, PushKeepsTabs DEF Tabs
  <2>2. CASE \E s \in Sid : RevokeSession(t, s)
    <3>1. tab' = tab /\ store' = store /\ clock' = clock /\ asked' \in 0 .. MaxAsked
      BY <1>2, <2>2 DEF RevokeSession
    <3> QED BY <1>1, <3>1 DEF Tabs
  <2> QED BY <1>4, <2>1, <2>2, <2>3, <2>4 DEF Security
<1>5. ASSUME NEW l \in logouts, HandleLogout(l) \/ ClearCookies(l) \/ LoseLogout(l) PROVE Tabs'
  <2>1. tab' = tab /\ store' = store /\ clock' = clock /\ asked' \in 0 .. MaxAsked
    BY <1>2, <1>5 DEF HandleLogout, ClearCookies, LoseLogout, Tabs
  <2> QED BY <1>1, <2>1 DEF Tabs
<1>6. ASSUME NEW b \in Browser, ExpireAccess(b) PROVE Tabs'
  <2>1. tab' = tab /\ store' = store /\ clock' = clock /\ asked' \in 0 .. MaxAsked
    BY <1>2, <1>6 DEF ExpireAccess
  <2> QED BY <1>1, <2>1 DEF Tabs
<1>7. CASE Advance
  <2>1. tab' = tab /\ store' = store /\ clock' \in 1 .. MaxClock /\ asked' = asked
    BY <1>7, LimitAssumption DEF Advance, Tabs
  <2> QED BY <1>1, <2>1 DEF Tabs
<1>8. CASE UNCHANGED vars
  BY <1>8 DEF vars, Tabs
<1> QED BY <1>3, <1>4, <1>5, <1>6, <1>7, <1>8, LoginKeepsTabs, WorkKeepsTabs, WatchKeepsTabs DEF Next

(* The answer a tab waits for stays on its way, arrives, or is written off;*)
(* a request that is let through names a row that is there.                *)
KeepsAnswer(t) ==
    /\ tab[t].pc \in OnItsWay =>
          \/ tab'[t].pc \in OnItsWay /\ tab'[t].sid = tab[t].sid
          \/ tab[t].sid \in dropped'
          \/ \E b \in Browser : cookie'[b].sid = tab[t].sid
    /\ \/ tab'[t].pc = tab[t].pc /\ tab'[t].sid = tab[t].sid /\ tab'[t].ask = tab[t].ask
       \/ Checked(tab'[t], session')

(* A cookie that is replaced is of a row that ended or is written off.     *)
KeepsCookie(b) ==
    \/ cookie'[b].sid = cookie[b].sid
    \/ /\ Known(cookie'[b].sid, session')
       /\ \/ cookie[b].sid \in dropped'
          \/ cookie[b].sid \in Sid => session'[cookie[b].sid].status # "live"

KeepsLogout(l) ==
    \/ l \in logouts
    \/ /\ Known(l.sid, session')
       /\ l.done /\ l.sid \in Sid => session'[l.sid].status = "revoked" \/ l.sid \in dropped'

(* What every step does to the rows, seen from those who hold them.        *)
LEMMA StepKeepsHeld ==
    ASSUME Rows, dropped \subseteq dropped',
           \A s \in Sid :
              /\ session[s].status = "revoked" => session'[s].status = "revoked"
              /\ session[s].status # "none" => session'[s].status # "none"
              /\ session'[s].status = "live" =>
                    \/ session[s].status = "live"
                    \/ \E t \in Tab : tab'[t].pc \in OnItsWay /\ tab'[t].sid = s,
           \A b \in Browser : KeepsCookie(b),
           \A t \in Tab : KeepsAnswer(t),
           \A l \in logouts' : KeepsLogout(l)
    PROVE  Held'
<1>1. ASSUME NEW s \in Sid, Live(s)', s \notin dropped'
      PROVE  \/ \E b \in Browser : cookie'[b].sid = s
             \/ \E t \in Tab : tab'[t].pc \in OnItsWay /\ tab'[t].sid = s
  <2>1. session'[s].status = "live" /\ s \notin dropped
    BY <1>1 DEF Live
  <2>2. CASE session[s].status # "live"
    BY <2>1, <2>2
  <2>3. CASE session[s].status = "live"
    <3>1. Live(s)
      BY <2>3 DEF Live, Sid
    <3>2. \/ \E b \in Browser : cookie[b].sid = s
          \/ \E t \in Tab : tab[t].pc \in OnItsWay /\ tab[t].sid = s
      BY <2>1, <3>1 DEF Rows, Held, LiveSessionsAreHeld
    <3>3. ASSUME NEW b \in Browser, cookie[b].sid = s PROVE cookie'[b].sid = s
      BY <1>1, <2>1, <3>3 DEF KeepsCookie
    <3>4. ASSUME NEW t \in Tab, tab[t].pc \in OnItsWay, tab[t].sid = s
          PROVE  \/ tab'[t].pc \in OnItsWay /\ tab'[t].sid = s
                 \/ \E b \in Browser : cookie'[b].sid = s
      BY <1>1, <3>4 DEF KeepsAnswer
    <3> QED BY <3>2, <3>3, <3>4
  <2> QED BY <2>2, <2>3
<1>2. LiveSessionsAreHeld'
  BY <1>1 DEF LiveSessionsAreHeld
<1>3. ASSUME NEW t \in Tab PROVE Checked(tab'[t], session')
  <2>1. Checked(tab[t], session)
    BY DEF Rows, Held, Ended
  <2> QED BY <2>1 DEF KeepsAnswer, Checked, Known
<1>4. ASSUME NEW l \in logouts'
      PROVE  /\ Known(l.sid, session')
             /\ l.done /\ l.sid \in Sid => session'[l.sid].status = "revoked" \/ l.sid \in dropped'
  <2>1. l \in logouts => /\ Known(l.sid, session)
                         /\ l.done /\ l.sid \in Sid => session[l.sid].status = "revoked" \/ l.sid \in dropped
    BY DEF Rows, Held, Ended
  <2> QED BY <2>1 DEF KeepsLogout, Known
<1>5. ASSUME NEW b \in Browser PROVE Known(cookie'[b].sid, session')
  <2>1. Known(cookie[b].sid, session)
    BY DEF Rows, Held, Ended
  <2> QED BY <2>1 DEF KeepsCookie, Known
<1>6. Ended'
  BY <1>3, <1>4, <1>5 DEF Ended
<1> QED BY <1>2, <1>6 DEF Held

(* Rows that only end leave no user with more.                             *)
LEMMA FewerRowsKeepRows ==
    ASSUME Rows, session' \in [Sid -> Row], cookie' \in [Browser -> Cookie],
           logouts' \subseteq [browser : Browser, sid : 0 .. MaxSession, done : BOOLEAN],
           dropped' \subseteq 0 .. MaxSession, dropped \subseteq dropped',
           UNCHANGED <<single, missed>>,
           \A s \in Sid : \/ session'[s] = session[s]
                          \/ session'[s].status = "revoked" /\ session'[s].user = session[s].user
                             /\ session[s].status # "none",
           \A b \in Browser : KeepsCookie(b),
           \A t \in Tab : KeepsAnswer(t),
           \A l \in logouts' : KeepsLogout(l)
    PROVE  Rows'
<1>1. Held'
  BY StepKeepsHeld
<1>2. ASSUME NEW u \in User, single'[u] PROVE OnlyOne(u)'
  <2>1. OnlyOne(u)
    BY <1>2 DEF Rows
  <2>2. LiveOf(u)' \subseteq LiveOf(u)
    BY DEF LiveOf
  <2> QED BY <2>1, <2>2 DEF OnlyOne
<1>3. RowTypes'
  BY DEF Rows, RowTypes
<1> QED BY <1>1, <1>2, <1>3 DEF Rows

(* A tab whose request does not go on, or goes nowhere.                    *)
Waits(tb, old) ==
    \/ tb.pc = old.pc /\ tb.sid = old.sid /\ tb.ask = old.ask
    \/ tb.pc \notin OnItsWay \cup {"rotating"} /\ old.pc \notin OnItsWay

(* What the steps of the tabs alone leave alone.                           *)
LEMMA SameRowsKeepRows ==
    ASSUME Rows, UNCHANGED <<session, single, cookie, missed, dropped>>,
           \A t \in Tab : Waits(tab'[t], tab[t]),
           logouts' \subseteq [browser : Browser, sid : 0 .. MaxSession, done : BOOLEAN],
           \A l \in logouts' : KeepsLogout(l)
    PROVE  Rows'
<1>1. \A t \in Tab : KeepsAnswer(t)
  BY DEF Waits, KeepsAnswer, Checked, OnItsWay
<1>2. \A b \in Browser : KeepsCookie(b)
  BY DEF KeepsCookie
<1> QED BY <1>1, <1>2, FewerRowsKeepRows DEF Rows, RowTypes

(* An event for other tabs leaves their requests alone, and so does the    *)
(* revoke marker.                                                          *)
LEMMA EventsLetWait ==
    ASSUME Tabs, NEW t \in Tab, NEW tb, NEW u,
           \/ tab' = [tab EXCEPT ![t] = tb]
           \/ tab' = Notify([tab EXCEPT ![t] = tb], t)
           \/ tab' = PushRevoked([tab EXCEPT ![t] = tb], u),
           tb \in TabState
    PROVE  /\ tab'[t].pc = tb.pc /\ tab'[t].sid = tb.sid /\ tab'[t].ask = tb.ask
           /\ \A o \in Tab \ {t} : Waits(tab'[o], tab[o])
<1> DEFINE next == [tab EXCEPT ![t] = tb]
<1>1. \A o \in Tab : next[o] \in TabState /\ next[o] = IF o = t THEN tb ELSE tab[o]
  BY DEF Tabs, AllSound, Sound
<1> HIDE DEF next
<1>2. \A o \in Tab : tab'[o].pc = next[o].pc /\ tab'[o].sid = next[o].sid /\ tab'[o].ask = next[o].ask
  <2>1. CASE tab' = next
    BY <2>1
  <2>2. CASE tab' = Notify(next, t)
    BY <1>1, <2>2 DEF Notify, TabState
  <2>3. CASE tab' = PushRevoked(next, u)
    BY <1>1, <2>3 DEF PushRevoked, TabState
  <2> QED BY <2>1, <2>2, <2>3 DEF next
<1> QED BY <1>1, <1>2 DEF Waits

(* The answer to a session request or a login ends the request.            *)
LEMMA SetSessionLetsWait ==
    ASSUME Tabs, NEW t \in Tab, NEW u \in User \cup {NoUser}, SetSession(t, u)
    PROVE  tab'[t].pc = "idle" /\ \A o \in Tab \ {t} : Waits(tab'[o], tab[o])
<1> DEFINE shown == [Answered(tab[t]) EXCEPT !.user = u]
           bare == [shown EXCEPT !.ready = FALSE, !.stream = 0, !.revoke = FALSE, !.warn = 0,
                                 !.news = FALSE, !.modal = 0, !.failed = @ \/ SignedIn(t)]
           tb == IF u = NoUser THEN bare ELSE shown
<1>1. tab[t] \in TabState
  BY DEF Tabs, AllSound, Sound
<1>2. shown \in TabState /\ shown.pc = "idle"
  BY <1>1, Nothing DEF TabState, Answered, Phase
<1>3. bare \in TabState /\ bare.pc = "idle"
  <2> DEFINE failed == shown.failed \/ SignedIn(t)
  <2>1. bare = [shown EXCEPT !.ready = FALSE, !.stream = 0, !.revoke = FALSE, !.warn = 0,
                             !.news = FALSE, !.modal = 0, !.failed = failed] /\ failed \in BOOLEAN
    OBVIOUS
  <2> HIDE DEF failed, shown, bare
  <2> QED BY <1>2, <2>1, Nothing DEF TabState
<1>4. tab' = [tab EXCEPT ![t] = tb] \/ tab' = Notify([tab EXCEPT ![t] = tb], t)
  BY DEF SetSession, NotifySeed
<1> HIDE DEF shown, bare
<1>5. tb \in TabState /\ tb.pc = "idle"
  BY <1>2, <1>3
<1> HIDE DEF tb
<1> QED BY <1>4, <1>5, EventsLetWait

(* Only unused rows are filled, and with a number of their own.            *)
LEMMA NewRow ==
    ASSUME Rows, NEW n \in Unused, NEW u \in User, NEW chain \in 0 .. MaxSession
    PROVE  /\ n \in Sid /\ session[n].status = "none"
           /\ Inserted(n, u, chain) \in [Sid -> Row]
           /\ Inserted(n, u, chain)[n] = [status |-> "live", user |-> u, chain |-> chain]
           /\ \A s \in Sid \ {n} : Inserted(n, u, chain)[s] = session[s]
BY DEF Rows, RowTypes, Unused, Inserted, Row

(* A rotation ends the row it replaces, and its answer holds the new one.  *)
LEMMA RotationKeepsRows ==
    ASSUME Tabs, Rows, NEW t \in Tab, NEW n \in Sid, RotateRefresh(t, n)
    PROVE  Rows'
<1> DEFINE s == tab[t].ask.sid
           u == session[s].user
           tb == [tab[t] EXCEPT !.pc = "answering", !.sid = n]
<1>1. s \in Sid /\ session[s].status # "none" /\ n \in Unused /\ tab[t] \in TabState /\ tab[t].pc = "rotating"
  BY DEF Tabs, AllSound, Sound, Rows, Held, Ended, Checked, RotateRefresh
<1>2. u \in User /\ session[s].chain \in 0 .. MaxSession
  BY <1>1 DEF Rows, RowTypes, Row
<1>3. /\ session' = Rotated(s, n) /\ tab' = [tab EXCEPT ![t] = tb]
      /\ missed' = IF Live(s) /\ s \notin missed THEN missed ELSE missed \cup {n}
      /\ UNCHANGED <<single, cookie, dropped, logouts>>
  BY DEF RotateRefresh
<1>4. tb \in TabState /\ tb.pc = "answering" /\ tb.sid = n /\ tb.ask.sid = s
  <2>1. n \in 0 .. MaxSession /\ "answering" \in Phase
    BY LimitAssumption DEF Sid, Phase, OnItsWay
  <2> QED BY <1>1, <2>1 DEF TabState
<1>5. /\ tab'[t].pc = "answering" /\ tab'[t].sid = n /\ tab'[t].ask.sid = s
      /\ \A o \in Tab \ {t} : Waits(tab'[o], tab[o])
  <2> HIDE DEF tb, s
  <2> QED BY <1>3, <1>4, EventsLetWait
<1> HIDE DEF s, u, tb
<1>6. /\ session[n].status = "none"
      /\ session' \in [Sid -> Row]
      /\ session'[s].status = "revoked" /\ session'[s].user = u
      /\ \A r \in Sid \ {n, s} : session'[r] = session[r]
      /\ session'[n].user = u /\ session'[n].status = "live"
  <2> DEFINE old == Inserted(n, u, session[s].chain)
  <2>1. PICK chain \in 0 .. MaxSession : chain = session[s].chain
    BY <1>2
  <2>2. /\ session[n].status = "none" /\ old \in [Sid -> Row]
        /\ old[n] = [status |-> "live", user |-> u, chain |-> chain]
        /\ \A r \in Sid \ {n} : old[r] = session[r]
    BY <1>1, <1>2, <2>1, NewRow
  <2>3. session' = [old EXCEPT ![s].status = "revoked"]
    BY <1>3 DEF Rotated, u
  <2> HIDE DEF old
  <2>4. s # n
    BY <1>1, <2>2
  <2> QED BY <1>1, <2>2, <2>3, <2>4 DEF Row, u
<1>7. RowTypes'
  BY <1>2, <1>3, <1>6 DEF Rows, RowTypes
<1>8. Held'
  <2>1. ASSUME NEW o \in Tab PROVE KeepsAnswer(o)
    <3>1. CASE o = t
      BY <1>1, <1>5, <1>6, <3>1 DEF KeepsAnswer, Checked, OnItsWay, Known
    <3>2. CASE o # t
      BY <1>5, <3>2 DEF KeepsAnswer, Waits, Checked, OnItsWay
    <3> QED BY <3>1, <3>2
  <2>2. \A b \in Browser : KeepsCookie(b)
    BY <1>3 DEF KeepsCookie
  <2>3. \A r \in Sid :
            /\ session[r].status = "revoked" => session'[r].status = "revoked"
            /\ session[r].status # "none" => session'[r].status # "none"
            /\ session'[r].status = "live" =>
                  \/ session[r].status = "live"
                  \/ \E o \in Tab : tab'[o].pc \in OnItsWay /\ tab'[o].sid = r
    BY <1>5, <1>6 DEF OnItsWay
  <2> QED BY <1>3, <2>1, <2>2, <2>3, StepKeepsHeld DEF KeepsLogout
<1>9. ASSUME NEW v \in User, single'[v] PROVE OnlyOne(v)'
  <2> SUFFICES ASSUME NEW p \in Sid, NEW q \in Sid, p \notin missed', q \notin missed',
                      session'[p].status = "live", session'[p].user = v,
                      session'[q].status = "live", session'[q].user = v
               PROVE  p = q
    BY DEF OnlyOne, LiveOf
  <2>1. OnlyOne(v)
    BY <1>3, <1>9 DEF Rows
  <2>2. p # s /\ q # s
    BY <1>6
  <2>3. ASSUME NEW r \in {p, q}, r # n PROVE r \in LiveOf(v) \ missed
    BY <1>3, <1>6, <2>2, <2>3 DEF LiveOf
  <2>4. ASSUME n \in {p, q} PROVE s \in LiveOf(v) \ missed
    BY <1>1, <1>3, <1>6, <2>2, <2>4 DEF LiveOf, Live, u
  <2> QED BY <2>1, <2>2, <2>3, <2>4 DEF OnlyOne
<1> QED BY <1>7, <1>8, <1>9 DEF Rows

(* A login puts its row in, which its answer holds; the rows it is to end  *)
(* are in the history until they are ended.                                *)
LEMMA SignInKeepsRows ==
    ASSUME Tabs, Rows, NEW t \in Tab, NEW n \in Sid, IssueRefresh(t, n)
    PROVE  Rows'
<1> DEFINE u == tab[t].who
           pc == IF tab[t].single THEN "issued" ELSE "granted"
           tb == [tab[t] EXCEPT !.pc = pc, !.sid = n]
<1>1. /\ tab[t] \in TabState /\ tab[t].pc = "signing" /\ u \in User
      /\ n \in Unused /\ n \in 0 .. MaxSession /\ tab[t].single \in BOOLEAN
  BY DEF Tabs, AllSound, Sound, SigningIn, IssueRefresh, TabState, Sid
<1>2. /\ session' = Inserted(n, u, n) /\ tab' = [tab EXCEPT ![t] = tb]
      /\ missed' = IF tab[t].single THEN missed \cup LiveOf(u)
                   ELSE IF single[u] THEN missed \cup {n} ELSE missed
      /\ UNCHANGED <<single, cookie, dropped, logouts>>
  BY DEF IssueRefresh
<1>3. pc \in {"issued", "granted"}
  OBVIOUS
<1>4. tb \in TabState /\ tb.pc \in {"issued", "granted"} /\ tb.sid = n
  <2> HIDE DEF pc
  <2> QED BY <1>1, <1>3 DEF TabState, Phase, OnItsWay
<1>5. /\ tab'[t].pc \in {"issued", "granted"} /\ tab'[t].sid = n
      /\ \A o \in Tab \ {t} : Waits(tab'[o], tab[o])
  <2> HIDE DEF tb
  <2> QED BY <1>2, <1>4, EventsLetWait
<1> HIDE DEF u, tb, pc
<1>6. /\ session[n].status = "none" /\ session' \in [Sid -> Row]
      /\ session'[n].status = "live" /\ session'[n].user = u
      /\ \A r \in Sid \ {n} : session'[r] = session[r]
  <2> DEFINE rows == Inserted(n, u, n)
  <2>1. /\ session[n].status = "none" /\ rows \in [Sid -> Row]
        /\ rows[n] = [status |-> "live", user |-> u, chain |-> n]
        /\ \A r \in Sid \ {n} : rows[r] = session[r]
    BY <1>1, NewRow
  <2>2. session' = rows
    BY <1>2
  <2> HIDE DEF rows
  <2> QED BY <2>1, <2>2
<1>7. RowTypes'
  BY <1>1, <1>2, <1>6 DEF Rows, RowTypes, LiveOf
<1>8. Held'
  <2>1. ASSUME NEW o \in Tab PROVE KeepsAnswer(o)
    <3>1. CASE o = t
      BY <1>1, <1>5, <1>6, <3>1 DEF KeepsAnswer, Checked, OnItsWay, Known
    <3>2. CASE o # t
      BY <1>5, <3>2 DEF KeepsAnswer, Waits, Checked, OnItsWay
    <3> QED BY <3>1, <3>2
  <2>2. \A b \in Browser : KeepsCookie(b)
    BY <1>2 DEF KeepsCookie
  <2>3. \A r \in Sid :
            /\ session[r].status = "revoked" => session'[r].status = "revoked"
            /\ session[r].status # "none" => session'[r].status # "none"
            /\ session'[r].status = "live" =>
                  \/ session[r].status = "live"
                  \/ \E o \in Tab : tab'[o].pc \in OnItsWay /\ tab'[o].sid = r
    BY <1>5, <1>6 DEF OnItsWay
  <2> QED BY <1>2, <2>1, <2>2, <2>3, StepKeepsHeld DEF KeepsLogout
<1>9. ASSUME NEW v \in User, single'[v] PROVE OnlyOne(v)'
  <2> SUFFICES ASSUME NEW p \in Sid, NEW q \in Sid, p \notin missed', q \notin missed',
                      session'[p].status = "live", session'[p].user = v,
                      session'[q].status = "live", session'[q].user = v
               PROVE  p = q
    BY DEF OnlyOne, LiveOf
  <2>1. OnlyOne(v)
    BY <1>2, <1>9 DEF Rows
  <2>2. ASSUME NEW r \in {p, q}, r # n PROVE r \in LiveOf(v) \ missed
    BY <1>2, <1>6, <2>2 DEF LiveOf
  <2>3. ASSUME n \in {p, q} PROVE v = u /\ tab[t].single
    BY <1>1, <1>2, <1>6, <1>9, <2>3
  <2>4. ASSUME NEW r \in {p, q}, r # n, n \in {p, q} PROVE FALSE
    BY <1>2, <2>2, <2>3, <2>4
  <2> QED BY <2>1, <2>2, <2>4 DEF OnlyOne
<1> QED BY <1>7, <1>8, <1>9 DEF Rows

(* An answer with a cookie gives the row to the browser, and what the      *)
(* browser held has ended or is written off.                               *)
LEMMA AnswerKeepsRows ==
    ASSUME Tabs, Rows, NEW t \in Tab, AnswerSession(t) \/ AnswerLogin(t)
    PROVE  Rows'
<1> DEFINE h == Home[t]
           n == tab[t].sid
           s == tab[t].ask.sid
<1>1. h \in Browser /\ n \in 0 .. MaxSession /\ cookie[h].sid \in 0 .. MaxSession /\ tab[t].who \in User \cup {NoUser}
  BY HomeAssumption DEF Tabs, AllSound, Sound, TabState, Rows, RowTypes, Cookie
<1>2. /\ cookie' = [cookie EXCEPT ![h] = [sid |-> n, expired |-> FALSE]]
      /\ dropped \subseteq dropped' /\ dropped' \subseteq dropped \cup {cookie[h].sid}
      /\ UNCHANGED <<session, single, logouts, missed>>
      /\ \E u \in User \cup {NoUser} : SetSession(t, u)
  <2>1. n # 0 => session[n].user \in User \cup {NoUser}
    BY <1>1 DEF Rows, RowTypes, Row, Sid
  <2> QED BY <1>1, <2>1 DEF AnswerSession, AnswerLogin, Overlap
<1>3. tab'[t].pc = "idle" /\ \A o \in Tab \ {t} : Waits(tab'[o], tab[o])
  BY <1>2, SetSessionLetsWait
<1>4. cookie[h].sid \in dropped' \/ (cookie[h].sid \in Sid => session[cookie[h].sid].status # "live")
  <2>1. CASE AnswerLogin(t)
    BY <2>1 DEF AnswerLogin
  <2>2. CASE AnswerSession(t)
    <3>1. s \in Sid /\ session[s].status = "revoked"
      BY <2>2 DEF AnswerSession, Rows, Held, Ended, Checked
    <3>2. cookie[h].sid = s \/ cookie[h].sid \in dropped'
      BY <2>2 DEF AnswerSession, Overlap
    <3> QED BY <3>1, <3>2
  <2> QED BY <2>1, <2>2
<1>0. Known(n, session)
  BY DEF Rows, Held, Ended, Checked, AnswerSession, AnswerLogin, OnItsWay
<1> HIDE DEF h, n, s
<1>5. cookie' \in [Browser -> Cookie] /\ dropped' \subseteq 0 .. MaxSession
  BY <1>1, <1>2 DEF Rows, RowTypes, Cookie
<1>6. cookie'[h].sid = n /\ \A b \in Browser \ {h} : cookie'[b] = cookie[b]
  BY <1>1, <1>2 DEF Rows, RowTypes
<1>7. ASSUME NEW o \in Tab PROVE KeepsAnswer(o)
  <2>1. CASE o = t
    BY <1>1, <1>3, <1>6, <2>1 DEF KeepsAnswer, Checked, OnItsWay, n
  <2>2. CASE o # t
    BY <1>3, <2>2 DEF KeepsAnswer, Waits, Checked, OnItsWay
  <2> QED BY <2>1, <2>2
<1>8. ASSUME NEW b \in Browser PROVE KeepsCookie(b)
  <2>1. CASE b = h
    BY <1>0, <1>2, <1>4, <1>6, <2>1 DEF KeepsCookie
  <2>2. CASE b # h
    BY <1>6, <2>2 DEF KeepsCookie
  <2> QED BY <2>1, <2>2
<1> QED BY <1>2, <1>5, <1>7, <1>8, FewerRowsKeepRows DEF Rows, RowTypes, KeepsLogout

(* An answer that never arrives is written off, with its tab or without.   *)
LEMMA LostAnswerKeepsRows ==
    ASSUME Tabs, Rows, NEW t \in Tab, LoseAnswer(t) \/ CloseTab(t)
    PROVE  Rows'
<1>1. tab[t].sid \in 0 .. MaxSession
  BY DEF Tabs, AllSound, Sound, TabState
<1>2. /\ dropped \subseteq dropped' /\ dropped' \subseteq dropped \cup {tab[t].sid}
      /\ tab[t].pc \in OnItsWay => tab[t].sid \in dropped'
      /\ UNCHANGED <<session, single, cookie, logouts, missed>>
  BY DEF LoseAnswer, CloseTab
<1>3. tab'[t].pc \in {"idle", "closed"} /\ \A o \in Tab \ {t} : Waits(tab'[o], tab[o])
  <2>1. CASE LoseAnswer(t)
    BY <2>1, SetSessionLetsWait DEF LoseAnswer
  <2>2. CASE CloseTab(t)
    <3>1. Closed \in TabState /\ Closed.pc = "closed"
      BY Nothing DEF Closed, TabState, Phase
    <3>2. tab' = [tab EXCEPT ![t] = Closed]
      BY <2>2 DEF CloseTab
    <3> HIDE DEF Closed
    <3> QED BY <3>1, <3>2, EventsLetWait
  <2> QED BY <2>1, <2>2
<1>4. ASSUME NEW o \in Tab PROVE KeepsAnswer(o)
  <2>1. CASE o = t
    BY <1>2, <1>3, <2>1 DEF KeepsAnswer, Checked, OnItsWay, Known
  <2>2. CASE o # t
    BY <1>3, <2>2 DEF KeepsAnswer, Waits, Checked, OnItsWay
  <2> QED BY <2>1, <2>2
<1>5. \A b \in Browser : KeepsCookie(b)
  BY <1>2 DEF KeepsCookie
<1>6. dropped' \subseteq 0 .. MaxSession
  BY <1>1, <1>2 DEF Rows, RowTypes
<1> QED BY <1>2, <1>4, <1>5, <1>6, FewerRowsKeepRows DEF Rows, RowTypes, KeepsLogout

(* A tab asks, is refused or is answered, and no row is concerned.         *)
LEMMA AskingKeepsRows ==
    ASSUME Tabs, Rows, NEW t \in Tab, NEW tb \in TabState,
           tab' = [tab EXCEPT ![t] = tb], Waits(tb, tab[t]),
           UNCHANGED <<session, single, cookie, missed, dropped, logouts>>
    PROVE  Rows'
<1>1. \A o \in Tab : Waits(tab'[o], tab[o])
  BY DEF Tabs, AllSound, Waits
<1> QED BY <1>1, SameRowsKeepRows DEF Rows, RowTypes, KeepsLogout

(* The answer to a session request brings no row.                          *)
LEMMA ToldKeepsRows ==
    ASSUME Tabs, Rows, NEW t \in Tab, tab[t].pc \notin OnItsWay,
           NEW u \in User \cup {NoUser}, SetSession(t, u),
           UNCHANGED <<session, single, cookie, missed, dropped, logouts>>
    PROVE  Rows'
<1>1. tab'[t].pc = "idle" /\ \A o \in Tab \ {t} : Waits(tab'[o], tab[o])
  BY SetSessionLetsWait
<1>2. \A o \in Tab : Waits(tab'[o], tab[o])
  BY <1>1 DEF Waits, OnItsWay
<1> QED BY <1>2, SameRowsKeepRows DEF Rows, RowTypes, KeepsLogout

(* A session request is let through, refused or answered.                  *)
LEMMA HandleSessionKeepsRows ==
    ASSUME Tabs, Rows, NEW t \in Tab, HandleSession(t)
    PROVE  Rows'
<1> DEFINE s == tab[t].ask.sid
<1>1. tab[t].pc = "asking" /\ tab[t] \in TabState /\ s \in 0 .. MaxSession
  BY DEF HandleSession, Tabs, AllSound, Sound, TabState, Cookie
<1>2. UNCHANGED <<single, cookie, missed, dropped, logouts>>
  BY DEF HandleSession
<1>3. CASE SetSession(t, NoUser) /\ UNCHANGED session
  BY <1>1, <1>2, <1>3, ToldKeepsRows DEF OnItsWay
<1>4. CASE Authenticated(tab[t].ask) /\ SetSession(t, session[s].user) /\ UNCHANGED session
  <2>1. session[s].user \in User \cup {NoUser}
    BY <1>1, <1>4 DEF Authenticated, Live, Rows, RowTypes, Sid, Row
  <2> HIDE DEF s
  <2> QED BY <1>1, <1>2, <1>4, <2>1, ToldKeepsRows DEF OnItsWay
<1>5. CASE /\ Live(s) /\ tab' = [tab EXCEPT ![t].pc = "rotating"] /\ UNCHANGED session
  <2> DEFINE tb == [tab[t] EXCEPT !.pc = "rotating"]
  <2>1. tb \in TabState /\ tb.pc = "rotating" /\ tb.ask.sid = s
    BY <1>1 DEF TabState, Phase
  <2>2. s \in Sid /\ session[s].status # "none"
    BY <1>1, <1>5 DEF Live, Sid
  <2>3. tab' = [tab EXCEPT ![t] = tb]
    BY <1>5
  <2> HIDE DEF tb, s
  <2>4. /\ tab'[t].pc = "rotating" /\ tab'[t].ask.sid = s
        /\ \A o \in Tab \ {t} : Waits(tab'[o], tab[o])
    BY <2>1, <2>3, EventsLetWait
  <2>5. ASSUME NEW o \in Tab PROVE KeepsAnswer(o)
    <3>1. CASE o = t
      BY <1>1, <1>5, <2>2, <2>4, <3>1 DEF KeepsAnswer, Checked, OnItsWay, Known
    <3>2. CASE o # t
      BY <2>4, <3>2 DEF KeepsAnswer, Waits, Checked, OnItsWay
    <3> QED BY <3>1, <3>2
  <2>6. \A b \in Browser : KeepsCookie(b)
    BY <1>2 DEF KeepsCookie
  <2> QED BY <1>2, <1>5, <2>5, <2>6, FewerRowsKeepRows DEF Rows, RowTypes, KeepsLogout
<1>6. CASE /\ s # 0 /\ session[s].status = "revoked" /\ tab' = [tab EXCEPT ![t].pc = "answering", ![t].sid = 0]
           /\ session' = ChainRevoked(s) \/ UNCHANGED session
  <2> DEFINE tb == [tab[t] EXCEPT !.pc = "answering", !.sid = 0]
  <2>1. tb \in TabState /\ tb.pc = "answering" /\ tb.ask.sid = s /\ tb.sid = 0
    BY <1>1, Nothing DEF TabState, Phase, OnItsWay
  <2>2. s \in Sid
    BY <1>1, <1>6 DEF Sid
  <2>3. tab' = [tab EXCEPT ![t] = tb]
    BY <1>6
  <2> HIDE DEF tb, s
  <2>4. /\ tab'[t].pc = "answering" /\ tab'[t].ask.sid = s /\ tab'[t].sid = 0
        /\ \A o \in Tab \ {t} : Waits(tab'[o], tab[o])
    BY <2>1, <2>3, EventsLetWait
  <2>5. /\ session' \in [Sid -> Row] /\ session'[s].status = "revoked"
        /\ \A r \in Sid : \/ session'[r] = session[r]
                          \/ session'[r].status = "revoked" /\ session'[r].user = session[r].user
                             /\ session[r].status # "none"
    BY <1>6, <2>2 DEF ChainRevoked, Rows, RowTypes, Row
  <2>6. ASSUME NEW o \in Tab PROVE KeepsAnswer(o)
    <3>1. CASE o = t
      BY <1>1, <2>2, <2>4, <2>5, <3>1 DEF KeepsAnswer, Checked, OnItsWay, Known, Sid
    <3>2. CASE o # t
      BY <2>4, <3>2 DEF KeepsAnswer, Waits, Checked, OnItsWay
    <3> QED BY <3>1, <3>2
  <2>7. \A b \in Browser : KeepsCookie(b)
    BY <1>2 DEF KeepsCookie
  <2> QED BY <1>2, <2>5, <2>6, <2>7, FewerRowsKeepRows DEF Rows, RowTypes, KeepsLogout
<1> QED BY <1>3, <1>4, <1>5, <1>6 DEF HandleSession

(* The requests of a tab.                                                  *)
LEMMA LoginKeepsRows ==
    ASSUME Tabs, Rows, NEW t \in Tab, Login(t)
    PROVE  Rows'
<1>1. tab[t] \in TabState /\ cookie[Home[t]] \in Cookie
  BY HomeAssumption DEF Tabs, AllSound, Sound, Rows, RowTypes
<1>2. CASE RefreshSession(t)
  <2> DEFINE tb == [tab[t] EXCEPT !.pc = "asking", !.ask = cookie[Home[t]]]
  <2>1. tb \in TabState /\ Waits(tb, tab[t])
    BY <1>1, <1>2 DEF TabState, Phase, OnItsWay, Waits, RefreshSession
  <2>2. tab' = [tab EXCEPT ![t] = tb] /\ UNCHANGED <<session, single, cookie, missed, dropped, logouts>>
    BY <1>2 DEF RefreshSession
  <2> HIDE DEF tb
  <2> QED BY <2>1, <2>2, AskingKeepsRows
<1>3. ASSUME NEW u \in User, SubmitLogin(t, u) PROVE Rows'
  <2> DEFINE tb == [tab[t] EXCEPT !.pc = "signing", !.who = u, !.single = single[u]]
  <2>1. tb \in TabState /\ Waits(tb, tab[t])
    BY <1>1, <1>3 DEF TabState, Phase, OnItsWay, Waits, SubmitLogin, Rows, RowTypes
  <2>2. tab' = [tab EXCEPT ![t] = tb] /\ UNCHANGED <<session, single, cookie, missed, dropped, logouts>>
    BY <1>3 DEF SubmitLogin
  <2> HIDE DEF tb
  <2> QED BY <2>1, <2>2, AskingKeepsRows
<1>4. CASE RequestFails(t)
  <2>1. Answered(tab[t]) \in TabState /\ Waits(Answered(tab[t]), tab[t])
    BY <1>1, <1>4, Nothing DEF TabState, Phase, OnItsWay, Waits, RequestFails, Answered
  <2>2. tab' = [tab EXCEPT ![t] = Answered(tab[t])] /\ UNCHANGED <<session, single, cookie, missed, dropped, logouts>>
    BY <1>4 DEF RequestFails
  <2> QED BY <2>1, <2>2, AskingKeepsRows
<1>5. CASE RefreshFails(t)
  BY <1>5, ToldKeepsRows DEF RefreshFails, OnItsWay
<1> QED BY <1>2, <1>3, <1>4, <1>5, HandleSessionKeepsRows, RotationKeepsRows, SignInKeepsRows, AnswerKeepsRows,
           LostAnswerKeepsRows DEF Login

(* Switching last-wins on writes the rows it is to end into the history.   *)
LEMMA PreferenceKeepsRows ==
    ASSUME Tabs, Rows, NEW t \in Tab, NEW on \in BOOLEAN, SavePreference(t, on)
    PROVE  Rows'
<1> DEFINE u == tab[t].who
           tb == IF on /\ ~tab[t].single THEN [tab[t] EXCEPT !.pc = "saved"] ELSE Answered(tab[t])
<1>1. /\ tab[t] \in TabState /\ tab[t].pc = "choosing"
      /\ single' = [single EXCEPT ![u] = on] /\ tab' = [tab EXCEPT ![t] = tb]
      /\ missed' = IF on /\ ~single[u] THEN missed \cup (LiveOf(u) \ {tab[t].sid}) ELSE missed
      /\ UNCHANGED <<session, cookie, logouts, dropped>>
  BY DEF SavePreference, Tabs, AllSound, Sound
<1>2. tb \in TabState /\ Waits(tb, tab[t])
  BY <1>1, Nothing DEF TabState, Phase, OnItsWay, Waits, Answered
<1> HIDE DEF tb, u
<1>3. \A o \in Tab : Waits(tab'[o], tab[o])
  BY <1>1, <1>2 DEF Tabs, AllSound, Waits
<1>4. Held'
  <2>1. \A o \in Tab : KeepsAnswer(o)
    BY <1>1, <1>3 DEF Waits, KeepsAnswer, Checked, OnItsWay
  <2>2. \A b \in Browser : KeepsCookie(b)
    BY <1>1 DEF KeepsCookie
  <2> QED BY <1>1, <2>1, <2>2, StepKeepsHeld DEF KeepsLogout
<1>5. RowTypes'
  BY <1>1 DEF Rows, RowTypes, LiveOf
<1>6. ASSUME NEW v \in User, single'[v] PROVE OnlyOne(v)'
  <2>1. CASE v = u /\ ~single[v]
    BY <1>1, <1>6, <2>1 DEF Rows, RowTypes, OnlyOne, LiveOf
  <2>2. CASE single[v]
    <3>1. OnlyOne(v) /\ missed \subseteq missed'
      BY <1>1, <2>2 DEF Rows
    <3> QED BY <1>1, <3>1 DEF OnlyOne, LiveOf
  <2>3. v # u => single'[v] = single[v]
    BY <1>1 DEF Rows, RowTypes
  <2> QED BY <1>6, <2>1, <2>2, <2>3
<1> QED BY <1>4, <1>5, <1>6 DEF Rows

(* The revocation ends them, or fails.                                     *)
LEMMA LastWinsKeepsRows ==
    ASSUME Tabs, Rows, NEW t \in Tab, ApplyLastWins(t)
    PROVE  Rows'
<1> DEFINE u == tab[t].who
           k == tab[t].sid
           tb == IF tab[t].pc = "issued" THEN [tab[t] EXCEPT !.pc = "granted"] ELSE Answered(tab[t])
           next == [tab EXCEPT ![t] = tb]
<1>1. /\ tab[t] \in TabState /\ tab[t].pc \in {"issued", "saved"}
      /\ tab' = next \/ tab' = PushRevoked(next, u)
      /\ \/ /\ session' = RevokeOthers(session, u, k)
            /\ missed' = {s \in missed : session[s].user # u}
         \/ UNCHANGED <<session, missed>>
      /\ UNCHANGED <<single, cookie, logouts, dropped>>
  BY DEF ApplyLastWins, Tabs, AllSound, Sound
<1>2. /\ tb \in TabState
      /\ tab[t].pc = "issued" => tb.pc = "granted" /\ tb.sid = k
      /\ tab[t].pc = "saved" => tb.pc = "idle"
  BY <1>1, Nothing DEF TabState, Phase, OnItsWay, Answered
<1> HIDE DEF tb, u, k
<1>3. /\ tab'[t].pc = tb.pc /\ tab'[t].sid = tb.sid
      /\ \A o \in Tab \ {t} : Waits(tab'[o], tab[o])
  BY <1>1, <1>2, EventsLetWait
<1>4. /\ session' \in [Sid -> Row]
      /\ \A s \in Sid : \/ session'[s] = session[s]
                        \/ session'[s].status = "revoked" /\ session'[s].user = session[s].user
                           /\ session[s].status # "none"
  BY <1>1 DEF RevokeOthers, Rows, RowTypes, Row
<1>5. ASSUME NEW o \in Tab PROVE KeepsAnswer(o)
  <2>1. CASE o = t
    <3>1. Checked(tab[t], session)
      BY DEF Rows, Held, Ended
    <3> QED BY <1>1, <1>2, <1>3, <1>4, <2>1, <3>1 DEF KeepsAnswer, Checked, OnItsWay, Known, k
  <2>2. CASE o # t
    BY <1>3, <2>2 DEF KeepsAnswer, Waits, Checked, OnItsWay
  <2> QED BY <2>1, <2>2
<1>6. \A b \in Browser : KeepsCookie(b)
  BY <1>1 DEF KeepsCookie
<1>7. CASE UNCHANGED missed
  BY <1>1, <1>4, <1>5, <1>6, <1>7, FewerRowsKeepRows DEF Rows, RowTypes, KeepsLogout
<1>8. CASE /\ session' = RevokeOthers(session, u, k)
           /\ missed' = {s \in missed : session[s].user # u}
  <2>1. Held'
    BY <1>1, <1>4, <1>5, <1>6, StepKeepsHeld DEF KeepsLogout
  <2>2. RowTypes'
    BY <1>1, <1>4, <1>8 DEF Rows, RowTypes
  <2>3. ASSUME NEW v \in User, single'[v] PROVE OnlyOne(v)'
    <3>1. CASE v = u
      <4>1. \A s \in Sid \ {k} : session[s].user = u => session'[s].status # "live"
        BY <1>8 DEF RevokeOthers, Rows, RowTypes, Row
      <4> QED BY <1>4, <3>1, <4>1 DEF OnlyOne, LiveOf
    <3>2. CASE v # u
      <4>1. OnlyOne(v)
        BY <1>1, <2>3 DEF Rows
      <4> QED BY <1>4, <1>8, <3>2, <4>1 DEF OnlyOne, LiveOf
    <3> QED BY <3>1, <3>2
  <2> QED BY <2>1, <2>2, <2>3 DEF Rows
<1> QED BY <1>1, <1>7, <1>8

(* The steps of the security panel.                                        *)
LEMMA SecurityKeepsRows ==
    ASSUME Tabs, Rows, NEW t \in Tab, Security(t)
    PROVE  Rows'
<1>1. ASSUME NEW r \in Sid, RevokeSession(t, r) PROVE Rows'
  <2>1. /\ session' = [session EXCEPT ![r].status = "revoked"] /\ session[r].status = "live"
        /\ UNCHANGED <<single, cookie, tab, logouts, missed, dropped>>
    BY <1>1 DEF RevokeSession, LiveOf
  <2>2. /\ session' \in [Sid -> Row]
        /\ \A s \in Sid : \/ session'[s] = session[s]
                          \/ session'[s].status = "revoked" /\ session'[s].user = session[s].user
                             /\ session[s].status # "none"
    BY <2>1 DEF Rows, RowTypes, Row
  <2>3. (\A o \in Tab : KeepsAnswer(o)) /\ \A b \in Browser : KeepsCookie(b)
    BY <2>1 DEF KeepsAnswer, KeepsCookie
  <2> QED BY <2>1, <2>2, <2>3, FewerRowsKeepRows DEF Rows, RowTypes, KeepsLogout
<1>2. CASE ToggleSingleSession(t)
  <2> DEFINE c == cookie[Home[t]].sid
             u == session[c].user
             tb == [tab[t] EXCEPT !.pc = "choosing", !.who = u, !.single = single[u], !.sid = c]
  <2>1. c \in Sid /\ c \in 0 .. MaxSession /\ u \in User /\ tab[t] \in TabState
    BY <1>2, HomeAssumption DEF ToggleSingleSession, Authorised, Authenticated, Live, Sid, Rows, RowTypes,
                                Cookie, Tabs, AllSound, Sound
  <2>2. /\ tab' = [tab EXCEPT ![t] = tb] /\ tab[t].pc = "idle"
        /\ UNCHANGED <<session, single, cookie, missed, dropped, logouts>>
    BY <1>2 DEF ToggleSingleSession
  <2>3. single[u] \in BOOLEAN
    BY <2>1 DEF Rows, RowTypes
  <2> HIDE DEF c, u
  <2>4. tb \in TabState /\ Waits(tb, tab[t])
    BY <2>1, <2>2, <2>3 DEF TabState, Phase, OnItsWay, Waits
  <2> HIDE DEF tb
  <2> QED BY <2>2, <2>4, AskingKeepsRows
<1> QED BY <1>1, <1>2, PreferenceKeepsRows, LastWinsKeepsRows DEF Security

(* Every logout is sent with the cookie of its browser.                    *)
LEMMA LogoutKeepsRows ==
    ASSUME Tabs, Rows, NEW t \in Tab, NEW reason, Logout(t, reason)
    PROVE  Rows'
<1>1. Home[t] \in Browser /\ cookie[Home[t]].sid \in 0 .. MaxSession /\ tab[t] \in TabState
  BY HomeAssumption DEF Rows, RowTypes, Cookie, Tabs, AllSound, Sound
<1>2. /\ logouts' = logouts \cup {[browser |-> Home[t], sid |-> cookie[Home[t]].sid, done |-> FALSE]}
      /\ tab' = Notify([tab EXCEPT ![t] = SignedOut(tab[t])], t)
      /\ UNCHANGED <<session, single, cookie, missed, dropped>>
  BY DEF Logout
<1>3. /\ SignedOut(tab[t]) \in TabState
      /\ SignedOut(tab[t]).pc = tab[t].pc /\ SignedOut(tab[t]).sid = tab[t].sid
      /\ SignedOut(tab[t]).ask = tab[t].ask
  BY <1>1, Nothing DEF SignedOut, TabState
<1>4. /\ tab'[t].pc = tab[t].pc /\ tab'[t].sid = tab[t].sid /\ tab'[t].ask = tab[t].ask
      /\ \A o \in Tab \ {t} : Waits(tab'[o], tab[o])
  BY <1>2, <1>3, EventsLetWait
<1>5. \A o \in Tab : Waits(tab'[o], tab[o])
  BY <1>4 DEF Waits
<1>6. logouts' \subseteq [browser : Browser, sid : 0 .. MaxSession, done : BOOLEAN]
  <2> DEFINE l == [browser |-> Home[t], sid |-> cookie[Home[t]].sid, done |-> FALSE]
  <2>1. l \in [browser : Browser, sid : 0 .. MaxSession, done : BOOLEAN]
    BY <1>1
  <2>2. logouts' = logouts \cup {l}
    BY <1>2
  <2> HIDE DEF l
  <2> QED BY <2>1, <2>2 DEF Rows, RowTypes
<1>7. \A l \in logouts' : KeepsLogout(l)
  <2>1. Known(cookie[Home[t]].sid, session)
    BY <1>1 DEF Rows, Held, Ended
  <2> QED BY <1>2, <2>1 DEF KeepsLogout
<1> QED BY <1>2, <1>5, <1>6, <1>7, SameRowsKeepRows

(* A logout at the server ends the row it names, and its answer takes the  *)
(* cookie of a row that has ended.                                         *)
LEMMA ServedLogoutKeepsRows ==
    ASSUME Rows, NEW l \in logouts, HandleLogout(l) \/ ClearCookies(l) \/ LoseLogout(l)
    PROVE  Rows'
<1>1. /\ l.browser \in Browser /\ l.sid \in 0 .. MaxSession /\ Known(l.sid, session)
      /\ l \in [browser : Browser, sid : 0 .. MaxSession, done : BOOLEAN]
  BY DEF Rows, RowTypes, Held, Ended
<1>2. UNCHANGED <<tab, single, missed>>
  BY DEF HandleLogout, ClearCookies, LoseLogout
<1>3. UNCHANGED cookie => (\A o \in Tab : KeepsAnswer(o)) /\ \A b \in Browser : KeepsCookie(b)
  BY <1>2 DEF KeepsAnswer, KeepsCookie
<1>4. CASE HandleLogout(l)
  <2> DEFINE served == [l EXCEPT !.done = TRUE]
  <2>1. /\ logouts' = (logouts \ {l}) \cup {served} /\ UNCHANGED cookie
        /\ \/ /\ dropped' = dropped
              /\ session' = IF l.sid = 0 THEN session ELSE [session EXCEPT ![l.sid].status = "revoked"]
           \/ dropped' = dropped \cup {l.sid} /\ session' = session
    BY <1>4 DEF HandleLogout
  <2>2. served \in [browser : Browser, sid : 0 .. MaxSession, done : BOOLEAN] /\ served.sid = l.sid
    BY <1>1
  <2> HIDE DEF served
  <2>3. /\ session' \in [Sid -> Row] /\ dropped' \subseteq 0 .. MaxSession /\ dropped \subseteq dropped'
        /\ \A s \in Sid : \/ session'[s] = session[s]
                          \/ session'[s].status = "revoked" /\ session'[s].user = session[s].user
                             /\ session[s].status # "none"
        /\ l.sid \in Sid => session'[l.sid].status = "revoked" \/ l.sid \in dropped'
    <3>1. l.sid # 0 <=> l.sid \in Sid
      BY <1>1, LimitAssumption DEF Sid
    <3>2. CASE dropped' = dropped \cup {l.sid} /\ session' = session
      BY <1>1, <3>2 DEF Rows, RowTypes
    <3>3. CASE dropped' = dropped /\ l.sid \notin Sid /\ session' = session
      BY <3>3 DEF Rows, RowTypes
    <3>4. CASE /\ dropped' = dropped /\ l.sid \in Sid
               /\ session' = [session EXCEPT ![l.sid].status = "revoked"]
      BY <1>1, <3>4 DEF Rows, RowTypes, Row, Known
    <3> QED BY <2>1, <3>1, <3>2, <3>3, <3>4
  <2>4. KeepsLogout(served)
    BY <1>1, <2>2, <2>3 DEF KeepsLogout, Known
  <2>5. \A k \in logouts' : KeepsLogout(k)
    BY <2>1, <2>4 DEF KeepsLogout
  <2>6. logouts' \subseteq [browser : Browser, sid : 0 .. MaxSession, done : BOOLEAN]
    BY <2>1, <2>2 DEF Rows, RowTypes
  <2> QED BY <1>2, <1>3, <2>1, <2>3, <2>5, <2>6, FewerRowsKeepRows DEF Rows, RowTypes
<1>5. CASE ClearCookies(l)
  <2>1. /\ cookie' = [cookie EXCEPT ![l.browser] = NoCookie] /\ logouts' = logouts \ {l} /\ session' = session
        /\ dropped' = IF cookie[l.browser].sid = l.sid THEN dropped ELSE dropped \cup {cookie[l.browser].sid}
    BY <1>5 DEF ClearCookies, Overlap
  <2>2. l.sid \in Sid => session[l.sid].status = "revoked" \/ l.sid \in dropped
    BY <1>5 DEF ClearCookies, Rows, Held, Ended
  <2>3. /\ cookie' \in [Browser -> Cookie] /\ cookie[l.browser].sid \in 0 .. MaxSession
        /\ cookie'[l.browser].sid = 0 /\ \A b \in Browser \ {l.browser} : cookie'[b] = cookie[b]
    BY <1>1, <2>1, Nothing DEF Rows, RowTypes, Cookie, NoCookie
  <2>4. dropped' \subseteq 0 .. MaxSession /\ dropped \subseteq dropped'
    BY <2>1, <2>3 DEF Rows, RowTypes
  <2>5. ASSUME NEW b \in Browser PROVE KeepsCookie(b)
    <3>1. CASE b = l.browser
      <4>1. Known(cookie'[b].sid, session')
        BY <2>3, <3>1 DEF Known, Sid
      <4> QED BY <2>1, <2>2, <3>1, <4>1 DEF KeepsCookie
    <3>2. CASE b # l.browser
      BY <2>3, <3>2 DEF KeepsCookie
    <3> QED BY <3>1, <3>2
  <2>6. \A o \in Tab : KeepsAnswer(o)
    <3>1. ASSUME NEW o \in Tab, tab[o].pc \in OnItsWay
          PROVE  tab'[o].pc \in OnItsWay /\ tab'[o].sid = tab[o].sid
      BY <1>2, <3>1
    <3> QED BY <1>2, <3>1 DEF KeepsAnswer
  <2> QED BY <1>2, <2>1, <2>3, <2>4, <2>5, <2>6, FewerRowsKeepRows DEF Rows, RowTypes, KeepsLogout
<1>6. CASE LoseLogout(l)
  <2>1. UNCHANGED <<session, single, cookie, missed, dropped>> /\ logouts' \subseteq logouts
    BY <1>6 DEF LoseLogout
  <2>2. \A k \in logouts' : KeepsLogout(k)
    BY <2>1 DEF KeepsLogout
  <2>3. \A o \in Tab : Waits(tab'[o], tab[o])
    BY <1>2 DEF Waits
  <2> QED BY <2>1, <2>2, <2>3, SameRowsKeepRows DEF Rows, RowTypes
<1> QED BY <1>4, <1>5, <1>6

(* The board, the drafts and the watcher concern no row.                   *)
LEMMA BumpKeepsRows ==
    ASSUME Tabs, Rows, NEW t \in Tab, NEW tb \in TabState, Bump(t, tb),
           tb.pc = tab[t].pc, tb.sid = tab[t].sid, tb.ask = tab[t].ask
    PROVE  Rows'
<1> DEFINE calm == [tb EXCEPT !.warn = 0]
<1>1. calm \in TabState /\ calm.pc = tab[t].pc /\ calm.sid = tab[t].sid /\ calm.ask = tab[t].ask
  BY Nothing DEF TabState
<1>2. tab' = [tab EXCEPT ![t] = calm] \/ tab' = Notify([tab EXCEPT ![t] = calm], t)
  BY DEF Bump
<1> HIDE DEF calm
<1>3. \A o \in Tab : Waits(tab'[o], tab[o])
  BY <1>1, <1>2, EventsLetWait DEF Waits
<1>4. UNCHANGED <<session, single, cookie, logouts, missed, dropped>>
  BY DEF Bump
<1> QED BY <1>3, <1>4, SameRowsKeepRows DEF Rows, RowTypes, KeepsLogout

(* A change of what a tab shows.                                           *)
LEMMA ShowingKeepsRows ==
    ASSUME Tabs, Rows, NEW t \in Tab, NEW tb \in TabState,
           tab' = [tab EXCEPT ![t] = tb] \/ tab' = Notify([tab EXCEPT ![t] = tb], t),
           tb.pc = tab[t].pc, tb.sid = tab[t].sid, tb.ask = tab[t].ask,
           UNCHANGED <<session, single, cookie, logouts, missed, dropped>>
    PROVE  Rows'
<1>1. \A o \in Tab : Waits(tab'[o], tab[o])
  BY EventsLetWait DEF Waits
<1> QED BY <1>1, SameRowsKeepRows DEF Rows, RowTypes, KeepsLogout

(* The board of a tab and its drafts.                                      *)
LEMMA WorkKeepsRows ==
    ASSUME Tabs, Rows, NEW t \in Tab, Work(t)
    PROVE  Rows'
<1>1. tab[t] \in TabState /\ AllSound(tab, store) /\ Home[t] \in Browser
  BY HomeAssumption DEF Tabs, AllSound, Sound
<1>2. Drafts(t) \in Payload
  BY <1>1 DEF Drafts, AllSound, Storage, TabState
<1>3. ASSUME NEW x \in Text, Type(t, x) \/ TypeInModal(t, x) PROVE Rows'
  <2>1. \E tb \in TabState : /\ Bump(t, tb)
                            /\ tb.pc = tab[t].pc /\ tb.sid = tab[t].sid /\ tb.ask = tab[t].ask
    <3>1. CASE Type(t, x)
      <4> DEFINE tb == [tab[t] EXCEPT !.form = x, !.typed = TRUE]
      <4>1. tb \in TabState /\ tb.pc = tab[t].pc /\ tb.sid = tab[t].sid /\ tb.ask = tab[t].ask
        BY <1>1 DEF TabState
      <4> HIDE DEF tb
      <4> QED BY <3>1, <4>1 DEF Type, tb
    <3>2. CASE TypeInModal(t, x)
      <4> DEFINE tb == [tab[t] EXCEPT !.modal = x]
      <4>1. tb \in TabState /\ tb.pc = tab[t].pc /\ tb.sid = tab[t].sid /\ tb.ask = tab[t].ask
        BY <1>1 DEF TabState
      <4> HIDE DEF tb
      <4> QED BY <3>2, <4>1 DEF TypeInModal, tb
    <3> QED BY <1>3, <3>1, <3>2
  <2> QED BY <2>1, BumpKeepsRows
<1>4. CASE LoadWorkspace(t)
  <2> DEFINE stream == IF tab[t].stream = 0 THEN cookie[Home[t]].sid ELSE tab[t].stream
             shown == [tab[t] EXCEPT !.ready = TRUE, !.stream = stream]
             d == Drafts(t)
  <2>1. stream \in 0 .. MaxSession
    BY <1>1 DEF Rows, RowTypes, Cookie, TabState
  <2> HIDE DEF stream
  <2>2. shown \in TabState /\ shown.pc = tab[t].pc /\ shown.sid = tab[t].sid /\ shown.ask = tab[t].ask
    BY <1>1, <2>1 DEF TabState
  <2> HIDE DEF shown, d
  <2>3. /\ Restored(shown, d) \in TabState /\ Restored(shown, d).pc = shown.pc
        /\ Restored(shown, d).sid = shown.sid /\ Restored(shown, d).ask = shown.ask
    BY <1>2, <2>2 DEF Restored, TabState, Payload, d
  <2>4. /\ tab' = [tab EXCEPT ![t] = shown] \/ tab' = [tab EXCEPT ![t] = Restored(shown, d)]
        /\ UNCHANGED <<session, single, cookie, logouts, missed, dropped>>
    BY <1>4 DEF LoadWorkspace, shown, stream, d
  <2> QED BY <2>2, <2>3, <2>4, ShowingKeepsRows
<1>5. CASE LoadFails(t)
  <2> DEFINE tb == [tab[t] EXCEPT !.ready = FALSE, !.stream = 0, !.revoke = FALSE, !.modal = 0,
                                  !.failed = TRUE]
  <2>1. tb \in TabState /\ tb.pc = tab[t].pc /\ tb.sid = tab[t].sid /\ tb.ask = tab[t].ask
    BY <1>1, Nothing DEF TabState
  <2>2. tab' = [tab EXCEPT ![t] = tb] /\ UNCHANGED <<session, single, cookie, logouts, missed, dropped>>
    BY <1>5 DEF LoadFails
  <2> HIDE DEF tb
  <2> QED BY <2>1, <2>2, ShowingKeepsRows
<1>6. CASE OpenModal(t) \/ CloseModal(t)
  <2>1. PICK x \in Text : /\ tab' = [tab EXCEPT ![t].modal = x]
                          /\ UNCHANGED <<session, single, cookie, logouts, missed, dropped>>
    BY <1>2, <1>6, Nothing DEF OpenModal, CloseModal, Payload
  <2> DEFINE tb == [tab[t] EXCEPT !.modal = x]
  <2>2. tb \in TabState /\ tb.pc = tab[t].pc /\ tb.sid = tab[t].sid /\ tb.ask = tab[t].ask
    BY <1>1 DEF TabState
  <2>3. tab' = [tab EXCEPT ![t] = tb]
    BY <2>1
  <2> HIDE DEF tb
  <2> QED BY <2>1, <2>2, <2>3, ShowingKeepsRows
<1> QED BY <1>3, <1>4, <1>5, <1>6, LostAnswerKeepsRows DEF Work

(* The idle watcher, but for its logouts.                                  *)
LEMMA WatchKeepsRows ==
    ASSUME Tabs, Rows, NEW t \in Tab, BumpActivity(t) \/ HandleStorage(t) \/ TickWarn(t)
    PROVE  Rows'
<1>1. tab[t] \in TabState /\ tab = [tab EXCEPT ![t] = tab[t]]
  BY DEF Tabs, AllSound, Sound
<1>2. CASE BumpActivity(t)
  BY <1>1, <1>2, BumpKeepsRows DEF BumpActivity
<1>3. CASE HandleStorage(t)
  <2>1. /\ Heard(tab[t]) \in TabState /\ Heard(tab[t]).pc = tab[t].pc /\ Heard(tab[t]).sid = tab[t].sid
        /\ Heard(tab[t]).ask = tab[t].ask
    BY <1>1, Nothing DEF Heard, TabState
  <2>2. /\ tab' = [tab EXCEPT ![t] = Heard(tab[t])]
        /\ UNCHANGED <<session, single, cookie, logouts, missed, dropped>>
    BY <1>3 DEF HandleStorage
  <2> QED BY <2>1, <2>2, ShowingKeepsRows
<1>4. CASE TickWarn(t)
  <2> DEFINE tb == [tab[t] EXCEPT !.warn = clock]
  <2>1. tb \in TabState /\ tb.pc = tab[t].pc /\ tb.sid = tab[t].sid /\ tb.ask = tab[t].ask
    <3>1. clock \in 0 .. MaxClock
      BY LimitAssumption DEF Tabs
    <3> QED BY <1>1, <3>1 DEF TabState
  <2>2. /\ \/ tab' = [tab EXCEPT ![t] = tb]
           \/ tab' = Notify([tab EXCEPT ![t] = tab[t]], t)
        /\ UNCHANGED <<session, single, cookie, logouts, missed, dropped>>
    BY <1>1, <1>4 DEF TickWarn
  <2> HIDE DEF tb
  <2> QED BY <1>1, <2>1, <2>2, ShowingKeepsRows
<1> QED BY <1>2, <1>3, <1>4

(* Every step keeps the rows in order.                                     *)
LEMMA StepKeepsRows ==
    ASSUME Tabs, Rows, [Next]_vars
    PROVE  Rows'
<1>1. ASSUME NEW t \in Tab, LogoutByUser(t) \/ Kick(t) \/ TickLogout(t) PROVE Rows'
  BY <1>1, LogoutKeepsRows DEF LogoutByUser, Kick, SessionRevoked, Heartbeat, Refresh, TickLogout
<1>2. ASSUME NEW b \in Browser, ExpireAccess(b) PROVE Rows'
  <2>1. /\ cookie' = [cookie EXCEPT ![b].expired = TRUE]
        /\ UNCHANGED <<session, single, tab, logouts, missed, dropped>>
    BY <1>2 DEF ExpireAccess
  <2>2. cookie' \in [Browser -> Cookie] /\ \A c \in Browser : cookie'[c].sid = cookie[c].sid
    BY <2>1 DEF Rows, RowTypes, Cookie
  <2>3. (\A o \in Tab : KeepsAnswer(o)) /\ \A c \in Browser : KeepsCookie(c)
    BY <2>1, <2>2 DEF KeepsAnswer, KeepsCookie
  <2> QED BY <2>1, <2>2, <2>3, FewerRowsKeepRows DEF Rows, RowTypes, KeepsLogout
<1>3. CASE Advance \/ UNCHANGED vars
  <2>1. UNCHANGED <<session, single, cookie, missed, dropped, logouts, tab>>
    BY <1>3 DEF Advance, vars
  <2>2. \A o \in Tab : Waits(tab'[o], tab[o])
    BY <2>1 DEF Waits
  <2> QED BY <2>1, <2>2, SameRowsKeepRows DEF Rows, RowTypes, KeepsLogout
<1> QED BY <1>1, <1>2, <1>3, LoginKeepsRows, SecurityKeepsRows, WorkKeepsRows, WatchKeepsRows,
           ServedLogoutKeepsRows DEF Next, Watch

(* All tabs are closed at first; another device may hold the first row.    *)
LEMMA InitHolds ==
    ASSUME Init
    PROVE  IInv
<1>1. Tabs
  <2>1. store \in [Browser -> Storage] /\ tab = [t \in Tab |-> Closed]
    BY Nothing DEF Init, Storage
  <2>2. ASSUME NEW st PROVE Sound(Closed, st)
    BY Nothing DEF Sound, TabState, Closed, Phase, SigningIn
  <2>3. AllSound(tab, store)
    BY <2>1, <2>2 DEF AllSound
  <2> QED BY <2>3, LimitAssumption DEF Init, Tabs
<1>2. (\A b \in Browser : Known(cookie[b].sid, session)) => Ended
  BY DEF Init, Ended, Checked, Closed, OnItsWay
<1>3. CASE /\ session = [s \in Sid |-> NoRow]
           /\ cookie = [b \in Browser |-> NoCookie]
  <2>1. session \in [Sid -> Row] /\ cookie \in [Browser -> Cookie]
    BY <1>3, Nothing DEF NoRow, Row
  <2>2. \A s \in Sid : session[s].status = "none"
    BY <1>3 DEF NoRow
  <2>3. LiveSessionsAreHeld /\ \A u \in User : OnlyOne(u)
    BY <2>2 DEF LiveSessionsAreHeld, Live, OnlyOne, LiveOf
  <2>4. \A b \in Browser : cookie[b].sid \notin Sid
    BY <1>3 DEF NoCookie, Sid
  <2>5. Ended
    BY <1>2, <2>4 DEF Known
  <2> QED BY <1>1, <2>1, <2>2, <2>3, <2>5 DEF Init, Rows, RowTypes, Held, IInv
<1>4. ASSUME NEW u \in User, NEW a \in Away,
             session = [s \in Sid |-> IF s = 1 THEN [status |-> "live", user |-> u, chain |-> 1] ELSE NoRow],
             cookie = [b \in Browser |-> IF b = a THEN [sid |-> 1, expired |-> FALSE] ELSE NoCookie]
      PROVE  IInv
  <2>1. 1 \in Sid /\ 1 \in 0 .. MaxSession /\ a \in Browser
    BY LimitAssumption DEF Sid, Away
  <2>2. session \in [Sid -> Row] /\ cookie \in [Browser -> Cookie]
    BY <1>4, <2>1, Nothing DEF NoRow, Row, Cookie
  <2>3. \A s \in Sid : session[s].status # "none" => s = 1 /\ session[s].user = u
    BY <1>4 DEF NoRow
  <2>4. cookie[a].sid = 1
    BY <1>4, <2>1
  <2>5. LiveSessionsAreHeld /\ \A v \in User : OnlyOne(v)
    BY <2>1, <2>3, <2>4 DEF LiveSessionsAreHeld, Live, OnlyOne, LiveOf
  <2>6. session[1].status = "live" /\ \A b \in Browser : cookie[b].sid \in {0, 1}
    BY <1>4, <2>1 DEF NoCookie
  <2>7. Ended
    BY <1>2, <2>6 DEF Known, Sid
  <2> QED BY <1>1, <2>2, <2>3, <2>5, <2>7 DEF Init, Rows, RowTypes, Held, IInv
<1> QED BY <1>3, <1>4 DEF Init

(* The two invariants hold together.                                       *)
LEMMA Invariance == Spec => []IInv
<1>1. Init => IInv
  BY InitHolds
<1>2. IInv /\ [Next]_vars => IInv'
  BY StepKeepsTabs, StepKeepsRows DEF IInv
<1> QED BY <1>1, <1>2, PTL DEF Spec

(* Tabs, storage, cookies and rows keep their types, and a tab that is     *)
(* signed out keeps no board, stream or countdown.                         *)
THEOREM SessionTypes == Spec => []TypeOK
<1>1. IInv => TypeOK
  <2> SUFFICES ASSUME IInv PROVE TypeOK
    OBVIOUS
  <2>1. tab \in [Tab -> TabState]
    BY DEF IInv, Tabs, AllSound, Sound
  <2>2. ASSUME NEW t \in Tab
        PROVE  /\ ~SignedIn(t) => ~tab[t].ready /\ tab[t].stream = 0 /\ tab[t].warn = 0
               /\ tab[t].pc \in {"rotating", "answering"} => tab[t].ask.sid # 0
    BY DEF IInv, Tabs, AllSound, Sound, SignedIn
  <2> QED BY <2>1, <2>2 DEF IInv, Tabs, AllSound, Rows, RowTypes, TypeOK
<1> QED BY <1>1, Invariance, PTL

(* No live row is orphaned, whatever order statements and answers take,    *)
(* but by the late and the lost answers that the property names.           *)
THEOREM SessionsAreHeld == Spec => []LiveSessionsAreHeld
<1>1. IInv => LiveSessionsAreHeld
  BY DEF IInv, Rows, Held
<1> QED BY <1>1, Invariance, PTL

(* A set that holds one thing at most has at most one element.             *)
LEMMA AtMostOne ==
    ASSUME NEW S, \A x, y \in S : x = y
    PROVE  Cardinality(S) <= 1
<1>1. CASE S = {}
  BY <1>1, FS_EmptySet
<1>2. CASE S # {}
  <2>1. PICK x \in S : S = {x}
    BY <1>2
  <2> QED BY <2>1, FS_Singleton
<1> QED BY <1>1, <1>2

(* A user of the single session option has one live session, but for the   *)
(* rows that a revocation has missed or not met yet.                       *)
THEOREM LastSignInWins == Spec => []OneLiveSession
<1>1. IInv => OneLiveSession
  <2> SUFFICES ASSUME IInv, NEW u \in User, single[u]
               PROVE  Cardinality(LiveOf(u) \ missed) <= 1
    BY DEF OneLiveSession
  <2>1. \A r, s \in LiveOf(u) \ missed : r = s
    BY DEF IInv, Rows, OnlyOne
  <2> QED BY <2>1, AtMostOne
<1> QED BY <1>1, Invariance, PTL

(* A countdown that runs out has seen no activity in any tab of the        *)
(* browser, or has not heard of it yet.                                    *)
THEOREM CountdownEndsInSilence == Spec => QuietBeforeIdleLogout
<1>1. IInv => \A t \in Tab : TickLogout(t) /\ ~AbsoluteReached(store[Home[t]]) =>
                    store[Home[t]].act <= tab[t].warn \/ tab[t].news
  BY DEF IInv, Tabs, AllSound, Sound, TickLogout
<1>2. IInv => \A t \in Tab : store[Home[t]].act \in Int /\ tab[t].warn \in Int
  BY HomeAssumption DEF IInv, Tabs, AllSound, Sound, TabState, Storage
<1>3. IInv => \A t \in Tab : store[Home[t]].act > tab[t].warn /\ ~tab[t].news =>
                    AbsoluteReached(store[Home[t]]) \/ ~TickLogout(t)
  BY <1>1, <1>2
<1> QED BY <1>3, Invariance, PTL DEF QuietBeforeIdleLogout

(* The saved draft of App's form replaces what was typed into it since the *)
(* sign-in only after the tab had lost its board to a failure.             *)
THEOREM DraftsReplaceNoNewText == Spec => RestoreKeepsNewText
<1>1. IInv /\ [Next]_vars =>
        \A t \in Tab : tab[t].typed /\ ~tab[t].failed /\ tab'[t].form # tab[t].form
                        => ~LoadWorkspace(t)
  <2> SUFFICES ASSUME IInv, NEW t \in Tab, LoadWorkspace(t), tab'[t].form # tab[t].form, tab[t].typed
               PROVE  tab[t].failed
    OBVIOUS
  <2>1. Sound(tab[t], store[Home[t]]) /\ DOMAIN tab = Tab
    BY DEF IInv, Tabs, AllSound
  <2>2. CASE Restores(t)
    BY <2>1, <2>2 DEF Sound, Restores
  <2>3. CASE ~Restores(t)
    <3> DEFINE stream == IF tab[t].stream = 0 THEN cookie[Home[t]].sid ELSE tab[t].stream
               shown == [tab[t] EXCEPT !.ready = TRUE, !.stream = stream]
    <3>1. tab' = [tab EXCEPT ![t] = shown]
      BY <2>3 DEF LoadWorkspace
    <3>2. shown.form = tab[t].form
      BY <2>1 DEF Sound, TabState
    <3> HIDE DEF shown
    <3> QED BY <2>1, <3>1, <3>2 DEF IInv, Tabs, AllSound
  <2> QED BY <2>2, <2>3
<1> QED BY <1>1, Invariance, PTL DEF RestoreKeepsNewText, Spec
=============================================================================
