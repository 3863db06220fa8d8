--------------------------- MODULE BrowserSession ---------------------------
(***************************************************************************)
(* Who is signed in where: the refresh sessions of the server              *)
(* (internal/server/auth/sessions.go, handler.go), the cookie and the      *)
(* localStorage that the tabs of one browser share, and each tab's App     *)
(* (frontend/src/App.tsx) with its idle watcher (lib/idleTimer.ts), its    *)
(* change stream and the drafts it saves (lib/idleDrafts.ts).              *)
(*                                                                         *)
(* A step is one reaction of a tab or one statement of a request at the    *)
(* server: the rows a request writes, the sessions it revokes and the      *)
(* answer that carries its cookie are steps of their own, and the client   *)
(* may leave between any two of them.                                      *)
(***************************************************************************)
EXTENDS Integers, FiniteSets

CONSTANTS
    Browser, Tab, User,
    Home,        \* the browser of each tab
    NoUser,
    MaxSession,  \* bound: refresh sessions ever issued
    MaxClock,    \* bound: the clock, in units of the idle watcher
    MaxAsked,    \* bound: what users ask for and what fails
    MaxText,     \* bound: different texts typed into the forms
    Idle,        \* idleLogoutMinutes; 0 switches the idle logout off
    Warning,     \* warningSeconds
    Absolute     \* absoluteHours

ASSUME HomeAssumption == Home \in [Tab -> Browser] /\ NoUser \notin User
ASSUME LimitAssumption ==
    /\ MaxSession \in Nat \ {0} /\ MaxClock \in Nat \ {0} /\ MaxAsked \in Nat /\ MaxText \in Nat
    /\ Idle \in Nat /\ Warning \in Nat \ {0} /\ Absolute \in Nat \ {0}

VARIABLES
    clock,
    session,  \* the rows of refresh_sessions
    single,   \* users.single_session
    cookie,   \* the cookies of each browser
    store,    \* the localStorage of each browser
    tab,
    logouts,  \* POST /api/auth/logout on their way
    asked,    \* the number of requests and mishaps so far
    missed,   \* history: rows that a revocation has missed or not met yet
    dropped   \* history: sessions whose cookie was overwritten or lost

vars == <<clock, session, single, cookie, store, tab, logouts, asked, missed, dropped>>

Sid == 1 .. MaxSession
Text == 0 .. MaxText                     \* 0: empty
Row == [status : {"none", "live", "revoked"}, user : User \cup {NoUser}, chain : 0 .. MaxSession]
Cookie == [sid : 0 .. MaxSession, expired : BOOLEAN]
Payload == [form : Text, modal : Text]
Storage == [login : 0 .. MaxClock, act : 0 .. MaxClock, drafts : Payload]

(* A request is asking, rotating, answering (who is signed in), signing,   *)
(* issued, granted (a login), choosing or saved (the preference).  ask: the*)
(* cookie it carries.  who, single: its account and the preference read    *)
(* with it.  sid: the row it has made, or keeps.  stream: the session of   *)
(* the open change stream, 0 for none.  form: the text of App's form.      *)
(* modal: that of the open modal, 0 while none is open or edited.  cache:  *)
(* sessionCache.  typed, failed: the form was edited, a request failed,    *)
(* since the sign-in (history).                                            *)
OnItsWay == {"answering", "issued", "granted"}
Phase == OnItsWay \cup {"closed", "idle", "asking", "rotating", "signing", "choosing", "saved"}
TabState ==
    [pc : Phase, ask : Cookie, who : User \cup {NoUser}, single : BOOLEAN, sid : 0 .. MaxSession,
     user : User \cup {NoUser}, ready : BOOLEAN, stream : 0 .. MaxSession, revoke : BOOLEAN,
     warn : 0 .. MaxClock, news : BOOLEAN, form : Text, modal : Text, cache : Payload,
     typed : BOOLEAN, failed : BOOLEAN]

NoCookie == [sid |-> 0, expired |-> FALSE]
NoDrafts == [form |-> 0, modal |-> 0]
Closed ==
    [pc |-> "closed", ask |-> NoCookie, who |-> NoUser, single |-> FALSE, sid |-> 0,
     user |-> NoUser, ready |-> FALSE, stream |-> 0, revoke |-> FALSE, warn |-> 0, news |-> FALSE,
     form |-> 0, modal |-> 0, cache |-> NoDrafts, typed |-> FALSE, failed |-> FALSE]

Live(s) == s # 0 /\ session[s].status = "live"
LiveOf(u) == {s \in Sid : session[s].status = "live" /\ session[s].user = u}
SignedIn(t) == tab[t].user # NoUser
Board(t) == SignedIn(t) /\ tab[t].ready
Authenticated(c) == Live(c.sid) /\ ~c.expired
Authorised(b) == Authenticated(cookie[b])
Unused == {s \in Sid : session[s].status = "none" /\ \A r \in Sid : r < s => session[r].status # "none"}

Asked == asked < MaxAsked /\ asked' = asked + 1

---------------------------------------------------------------------------
(* localStorage and the storage event, which only the other tabs get.      *)

Others(t) == {o \in Tab \ {t} : Home[o] = Home[t] /\ SignedIn(o)}
Notify(tabs, t) == [o \in Tab |-> [tabs[o] EXCEPT !.news = @ \/ o \in Others(t)]]

(* The two stamps are written when a sign-in finds none.                   *)
Seeded(s) == [s EXCEPT !.login = IF @ = 0 THEN clock ELSE @, !.act = IF @ = 0 THEN clock ELSE @]
NotifySeed(tabs, t) == IF store[Home[t]].act = 0 THEN Notify(tabs, t) ELSE tabs

---------------------------------------------------------------------------
(* Signing in and out, in the tab.                                         *)

(* No request is under way any more.                                       *)
Answered(tb) ==
    [tb EXCEPT !.pc = "idle", !.ask = NoCookie, !.who = NoUser, !.single = FALSE, !.sid = 0]

(* setSession: the watcher starts with a new sign-in and stops when the    *)
(* answer is no; logout() is not run then.                                 *)
SetSession(t, u) ==
    LET shown == [Answered(tab[t]) EXCEPT !.user = u]
        bare == [shown EXCEPT !.ready = FALSE, !.stream = 0, !.revoke = FALSE, !.warn = 0,
                              !.news = FALSE, !.modal = 0, !.failed = @ \/ SignedIn(t)]
        starts == u # NoUser /\ ~SignedIn(t)
        next == [tab EXCEPT ![t] = IF u = NoUser THEN bare ELSE shown]
    IN  /\ tab' = IF starts THEN NotifySeed(next, t) ELSE next
        /\ store' = IF starts THEN [store EXCEPT ![Home[t]] = Seeded(@)] ELSE store

Automatic == {"idle", "absolute"}

(* Mutant of SignedOut: the countdown is left standing.                    *)
SignedOutCounting(tb) ==
    [tb EXCEPT !.user = NoUser, !.ready = FALSE, !.stream = 0, !.revoke = FALSE,
               !.news = FALSE, !.modal = 0, !.cache = NoDrafts, !.typed = FALSE, !.failed = FALSE]

SignedOut(tb) ==
    [tb EXCEPT !.user = NoUser, !.ready = FALSE, !.stream = 0, !.revoke = FALSE, !.warn = 0,
               !.news = FALSE, !.modal = 0, !.cache = NoDrafts, !.typed = FALSE, !.failed = FALSE]

(* captureAndSaveDrafts: App's form and what the open modal flushes.       *)
Captured(t) == [form |-> tab[t].form, modal |-> tab[t].modal]

(* logout(reason): an automatic one saves what is typed, any other wipes   *)
(* the drafts; App's form keeps its text.                                  *)
Logout(t, reason) ==
    LET b == Home[t]
    IN  /\ SignedIn(t)
        /\ tab' = Notify([tab EXCEPT ![t] = SignedOut(@)], t)
        /\ store' = [store EXCEPT ![b] =
                [login |-> 0, act |-> 0,
                 drafts |-> IF reason \in Automatic THEN Captured(t) ELSE NoDrafts]]
        /\ logouts' = logouts \cup {[browser |-> b, sid |-> cookie[b].sid, done |-> FALSE]}
        /\ UNCHANGED <<clock, session, single, cookie, asked, missed, dropped>>

LogoutByUser(t) == Board(t) /\ Logout(t, "user")

(* The answer of a request that carried session s replaces a newer cookie. *)
Overlap(b, s) == IF cookie[b].sid = s THEN dropped ELSE dropped \cup {cookie[b].sid}

(* handleLogout: revoke the session the request carried, whatever it is by *)
(* now; a revocation that fails is not looked at.                          *)
HandleLogout(l) ==
    /\ ~l.done
    /\ logouts' = (logouts \ {l}) \cup {[l EXCEPT !.done = TRUE]}
    /\ \/ /\ session' = IF l.sid = 0 THEN session ELSE [session EXCEPT ![l.sid].status = "revoked"]
          /\ UNCHANGED <<asked, dropped>>
       \/ /\ l.sid # 0 /\ Asked
          /\ dropped' = dropped \cup {l.sid}
          /\ UNCHANGED session
    /\ UNCHANGED <<clock, single, cookie, store, tab, missed>>

(* Its answer clears the cookies of the browser.                           *)
ClearCookies(l) ==
    /\ l.done
    /\ cookie' = [cookie EXCEPT ![l.browser] = NoCookie]
    /\ logouts' = logouts \ {l}
    /\ dropped' = Overlap(l.browser, l.sid)
    /\ UNCHANGED <<clock, session, single, store, tab, asked, missed>>

(* The request or its answer is lost.                                      *)
LoseLogout(l) ==
    /\ logouts' = logouts \ {l}
    /\ Asked
    /\ UNCHANGED <<clock, session, single, cookie, store, tab, missed, dropped>>

---------------------------------------------------------------------------
(* The sessions of the server.                                             *)

(* Mutant of RevokeOthers: the other sessions are left alone.               *)
RevokesNothing(rows, u, s) == rows

(* RevokeAllUserSessions.                                                  *)
RevokeOthers(rows, u, s) ==
    [r \in Sid |-> IF rows[r].user = u /\ rows[r].status = "live" /\ r # s
                   THEN [rows[r] EXCEPT !.status = "revoked"] ELSE rows[r]]

(* notifyUserSessionRevoked: the marker goes to every stream of the user.  *)
PushRevoked(tabs, u) ==
    [t \in Tab |-> [tabs[t] EXCEPT !.revoke = @ \/ (tabs[t].stream # 0 /\ session[tabs[t].stream].user = u)]]

Inserted(n, u, chain) == [session EXCEPT ![n] = [status |-> "live", user |-> u, chain |-> chain]]

ChainRevoked(s) ==
    [r \in Sid |-> IF session[r].chain = session[s].chain /\ session[r].status = "live"
                   THEN [session[r] EXCEPT !.status = "revoked"] ELSE session[r]]

(* refreshSession: at the start and after the profile has changed.         *)
RefreshSession(t) ==
    /\ \/ tab[t].pc = "closed" /\ UNCHANGED asked
       \/ tab[t].pc = "idle" /\ Board(t) /\ Asked
    /\ tab' = [tab EXCEPT ![t].pc = "asking", ![t].ask = cookie[Home[t]]]
    /\ UNCHANGED <<clock, session, single, cookie, store, logouts, missed, dropped>>

(* handleSession: the access token, or else the refresh token, is checked. *)
(* A token that was replaced or revoked ends its chain, if that statement  *)
(* does not fail, and the answer clears the cookies (ErrRefreshReuse).     *)
HandleSession(t) ==
    LET c == tab[t].ask
    IN  /\ tab[t].pc = "asking"
        /\ \/ /\ Authenticated(c)
              /\ SetSession(t, session[c.sid].user)
              /\ UNCHANGED <<session, asked>>
           \/ /\ Live(c.sid) /\ c.expired
              /\ tab' = [tab EXCEPT ![t].pc = "rotating"]
              /\ UNCHANGED <<session, store, asked>>
           \/ /\ c.sid = 0
              /\ SetSession(t, NoUser)
              /\ UNCHANGED <<session, asked>>
           \/ /\ c.sid # 0 /\ session[c.sid].status = "revoked"
              /\ \/ session' = ChainRevoked(c.sid) /\ UNCHANGED asked
                 \/ Asked /\ UNCHANGED session
              /\ tab' = [tab EXCEPT ![t].pc = "answering", ![t].sid = 0]
              /\ UNCHANGED store
        /\ UNCHANGED <<clock, single, cookie, logouts, missed, dropped>>

(* A request that fails before it has written anything answers no.         *)
RefreshFails(t) ==
    /\ tab[t].pc \in {"asking", "rotating"}
    /\ SetSession(t, NoUser)
    /\ Asked
    /\ UNCHANGED <<clock, session, single, cookie, logouts, missed, dropped>>

(* Mutant of Rotated: the old row stays live.                               *)
RotatedTwice(s, n) == Inserted(n, session[s].user, session[s].chain)

Rotated(s, n) ==
    [Inserted(n, session[s].user, session[s].chain) EXCEPT ![s].status = "revoked"]

(* RotateRefresh: a transaction of its own, which does not look whether    *)
(* the row it has read is still live.                                      *)
RotateRefresh(t, n) ==
    LET s == tab[t].ask.sid
    IN  /\ tab[t].pc = "rotating"
        /\ n \in Unused
        /\ session' = Rotated(s, n)
        /\ tab' = [tab EXCEPT ![t].pc = "answering", ![t].sid = n]
        /\ missed' = IF Live(s) /\ s \notin missed THEN missed ELSE missed \cup {n}
        /\ UNCHANGED <<clock, single, cookie, store, logouts, asked, dropped>>

(* The answer with its cookie; it says no when the user cannot be read.    *)
AnswerSession(t) ==
    LET n == tab[t].sid
        b == Home[t]
    IN  /\ tab[t].pc = "answering"
        /\ cookie' = [cookie EXCEPT ![b] = [sid |-> n, expired |-> FALSE]]
        /\ dropped' = Overlap(b, tab[t].ask.sid)
        /\ \/ SetSession(t, IF n = 0 THEN NoUser ELSE session[n].user) /\ UNCHANGED asked
           \/ n # 0 /\ SetSession(t, NoUser) /\ Asked
        /\ UNCHANGED <<clock, session, single, logouts, missed>>

(* submitLogin and handleLogin: the account is read with its preference,   *)
(* then the session is inserted.                                           *)
SubmitLogin(t, u) ==
    /\ tab[t].pc = "idle" /\ ~SignedIn(t)
    /\ tab' = [tab EXCEPT ![t].pc = "signing", ![t].who = u, ![t].single = single[u]]
    /\ Asked
    /\ UNCHANGED <<clock, session, single, cookie, store, logouts, missed, dropped>>

(* IssueRefresh.  With the preference the rows that were live are to be    *)
(* revoked; one that came on after it was read has missed the new row.     *)
IssueRefresh(t, n) ==
    LET u == tab[t].who
    IN  /\ tab[t].pc = "signing"
        /\ n \in Unused
        /\ session' = Inserted(n, u, n)
        /\ tab' = [tab EXCEPT ![t].pc = IF tab[t].single THEN "issued" ELSE "granted", ![t].sid = n]
        /\ missed' = IF tab[t].single THEN missed \cup LiveOf(u)
                     ELSE IF single[u] THEN missed \cup {n} ELSE missed
        /\ UNCHANGED <<clock, single, cookie, store, logouts, asked, dropped>>

(* handleLogin's answer.                                                   *)
AnswerLogin(t) ==
    /\ tab[t].pc = "granted"
    /\ cookie' = [cookie EXCEPT ![Home[t]] = [sid |-> tab[t].sid, expired |-> FALSE]]
    /\ dropped' = dropped \cup {cookie[Home[t]].sid}
    /\ SetSession(t, tab[t].who)
    /\ UNCHANGED <<clock, session, single, logouts, asked, missed>>

(* The answer never arrives, or the handler fails once the row is there.   *)
LoseAnswer(t) ==
    /\ tab[t].pc \in OnItsWay
    /\ dropped' = dropped \cup {tab[t].sid}
    /\ SetSession(t, NoUser)
    /\ Asked
    /\ UNCHANGED <<clock, session, single, cookie, logouts, missed>>

(* handleSecurity: the preference is read, then written.                   *)
ToggleSingleSession(t) ==
    LET s == cookie[Home[t]].sid
        u == session[s].user
    IN  /\ tab[t].pc = "idle" /\ Board(t) /\ Authorised(Home[t])
        /\ tab' = [tab EXCEPT ![t] = [@ EXCEPT !.pc = "choosing", !.who = u, !.single = single[u],
                                               !.sid = s]]
        /\ Asked
        /\ UNCHANGED <<clock, session, single, cookie, store, logouts, missed, dropped>>

(* Written over one that was read as off, it is to be applied at once.     *)
SavePreference(t, on) ==
    LET tb == tab[t]
    IN  /\ tb.pc = "choosing"
        /\ single' = [single EXCEPT ![tb.who] = on]
        /\ tab' = [tab EXCEPT ![t] = IF on /\ ~tb.single THEN [@ EXCEPT !.pc = "saved"] ELSE Answered(@)]
        /\ missed' = IF on /\ ~single[tb.who] THEN missed \cup (LiveOf(tb.who) \ {tb.sid}) ELSE missed
        /\ UNCHANGED <<clock, session, cookie, store, logouts, asked, dropped>>

(* The revocation of a login or of the preference: a statement of its own, *)
(* whose error is ignored.                                                 *)
ApplyLastWins(t) ==
    LET tb == tab[t]
        others == LiveOf(tb.who) \ {tb.sid}
        next == [tab EXCEPT ![t] = IF tb.pc = "issued" THEN [@ EXCEPT !.pc = "granted"] ELSE Answered(@)]
    IN  /\ tb.pc \in {"issued", "saved"}
        /\ \/ /\ session' = RevokeOthers(session, tb.who, tb.sid)
              /\ tab' = IF others # {} THEN PushRevoked(next, tb.who) ELSE next
              /\ missed' = {s \in missed : session[s].user # tb.who}
              /\ UNCHANGED asked
           \/ /\ others # {} /\ Asked
              /\ tab' = next
              /\ UNCHANGED <<session, missed>>
        /\ UNCHANGED <<clock, single, cookie, store, logouts, dropped>>

(* A login or a preference that is refused: nothing has been written.      *)
RequestFails(t) ==
    /\ tab[t].pc \in {"signing", "choosing"}
    /\ tab' = [tab EXCEPT ![t] = Answered(@)]
    /\ Asked
    /\ UNCHANGED <<clock, session, single, cookie, store, logouts, missed, dropped>>

(* onRevokeSession: a row of the list that is not the current one.         *)
RevokeSession(t, s) ==
    /\ Board(t) /\ Authorised(Home[t])
    /\ s \in LiveOf(session[cookie[Home[t]].sid].user) \ {cookie[Home[t]].sid}
    /\ session' = [session EXCEPT ![s].status = "revoked"]
    /\ Asked
    /\ UNCHANGED <<clock, single, cookie, store, tab, logouts, missed, dropped>>

---------------------------------------------------------------------------
(* The board of a tab: loading it, its stream, its drafts.                 *)

(* Mutant of Restores: the effect runs after every load.                    *)
RestoresAlways(t) == TRUE

(* The effect depends on workspaceReady.                                   *)
Restores(t) == ~tab[t].ready

(* readDrafts: localStorage, then the session's cache.  Older than a day,  *)
(* drafts are dropped.                                                     *)
Drafts(t) == IF store[Home[t]].drafts # NoDrafts THEN store[Home[t]].drafts ELSE tab[t].cache

(* App's form takes its part at once; the modals are not there yet.        *)
Restored(tb, d) ==
    [tb EXCEPT !.cache = d, !.form = IF d.form = 0 THEN @ ELSE d.form, !.typed = @ /\ d.form = 0]

LoadWorkspace(t) ==
    LET b == Home[t]
        d == Drafts(t)
        shown == [tab[t] EXCEPT !.ready = TRUE, !.stream = IF @ = 0 THEN cookie[b].sid ELSE @]
    IN  /\ SignedIn(t) /\ tab[t].pc = "idle" /\ Authorised(b)
        /\ IF Restores(t) /\ d # NoDrafts
           THEN /\ \/ tab' = [tab EXCEPT ![t] = Restored(shown, d)]
                   \/ tab' = [tab EXCEPT ![t] = shown]    \* older than a day
                /\ store' = [store EXCEPT ![b].drafts = NoDrafts]
           ELSE tab' = [tab EXCEPT ![t] = shown] /\ UNCHANGED store
        /\ UNCHANGED <<clock, session, single, cookie, logouts, asked, missed, dropped>>

(* A modal that opens takes its draft, each time until the logout.         *)
OpenModal(t) ==
    /\ Board(t) /\ tab[t].modal = 0 /\ Drafts(t).modal # 0
    /\ tab' = [tab EXCEPT ![t].modal = Drafts(t).modal]
    /\ UNCHANGED <<clock, session, single, cookie, store, logouts, asked, missed, dropped>>

(* It is closed, its text saved to the card or thrown away.                *)
CloseModal(t) ==
    /\ Board(t) /\ tab[t].modal # 0
    /\ tab' = [tab EXCEPT ![t].modal = 0]
    /\ UNCHANGED <<clock, session, single, cookie, store, logouts, asked, missed, dropped>>

(* A load that fails takes the board away; the tab stays signed in.        *)
LoadFails(t) ==
    /\ Board(t) /\ tab[t].pc = "idle"
    /\ tab' = [tab EXCEPT ![t] = [@ EXCEPT !.ready = FALSE, !.stream = 0, !.revoke = FALSE,
                                           !.modal = 0, !.failed = TRUE]]
    /\ Asked
    /\ UNCHANGED <<clock, session, single, cookie, store, logouts, missed, dropped>>

(* The revoke marker reaches the tab.                                      *)
SessionRevoked(t) == tab[t].revoke /\ Logout(t, "kicked")

(* The stream's heartbeat checks the cookie the stream was opened with.    *)
StreamRefused(t) ==
    LET s == tab[t].stream
    IN  s # 0 /\ (~Live(s) \/ cookie[Home[t]] = [sid |-> s, expired |-> TRUE])

Heartbeat(t) == Board(t) /\ StreamRefused(t) /\ Logout(t, "kicked")

(* refresh, every 15 seconds: 401.                                         *)
Refresh(t) == Board(t) /\ ~Authorised(Home[t]) /\ Logout(t, "kicked")

---------------------------------------------------------------------------
(* The idle watcher.                                                       *)

(* bumpActivity: any input, and the button of the warning.                 *)
Bump(t, tb) ==
    LET b == Home[t]
        calm == [tab EXCEPT ![t] = [tb EXCEPT !.warn = 0]]
    IN  /\ SignedIn(t)
        /\ store' = [store EXCEPT ![b].act = clock]
        /\ tab' = IF store[b].act = clock THEN calm ELSE Notify(calm, t)
        /\ UNCHANGED <<clock, session, single, cookie, logouts, missed, dropped>>

BumpActivity(t) == Bump(t, tab[t]) /\ UNCHANGED asked

(* Into App's form, or out of it when a task is created.                   *)
Type(t, x) ==
    /\ Board(t) /\ tab[t].form # x
    /\ Bump(t, [tab[t] EXCEPT !.form = x, !.typed = TRUE])
    /\ UNCHANGED asked

(* Into a modal, which it opens if need be.                                *)
TypeInModal(t, x) ==
    /\ Board(t) /\ x \notin {0, tab[t].modal}
    /\ Bump(t, [tab[t] EXCEPT !.modal = x])
    /\ Asked

(* Mutant of Heard: another tab's activity leaves the warning.              *)
HeardAndIgnored(tb) == [tb EXCEPT !.news = FALSE]

(* handleStorage: any change of the stamp, its removal too.                *)
Heard(tb) == [tb EXCEPT !.news = FALSE, !.warn = 0]

HandleStorage(t) ==
    /\ tab[t].news
    /\ tab' = [tab EXCEPT ![t] = Heard(@)]
    /\ UNCHANGED <<clock, session, single, cookie, store, logouts, asked, missed, dropped>>

AbsoluteReached(s) == s.login > 0 /\ clock - s.login >= Absolute

(* tick: once it warns, it counts down and no longer reads the stamp.      *)
TickLogout(t) ==
    LET s == store[Home[t]]
    IN  \/ AbsoluteReached(s) /\ Logout(t, "absolute")
        \/ /\ ~AbsoluteReached(s) /\ Idle # 0 /\ s.act # 0
           /\ tab[t].warn # 0 /\ clock - tab[t].warn >= Warning
           /\ Logout(t, "idle")

TickWarn(t) ==
    LET s == store[Home[t]]
    IN  /\ SignedIn(t) /\ Idle # 0 /\ ~AbsoluteReached(s)
        /\ IF s.act = 0
           THEN /\ store' = [store EXCEPT ![Home[t]].act = clock]
                /\ tab' = Notify(tab, t)
           ELSE /\ tab[t].warn = 0 /\ clock - s.act >= Idle
                /\ tab' = [tab EXCEPT ![t].warn = clock]
                /\ UNCHANGED store
        /\ UNCHANGED <<clock, session, single, cookie, logouts, asked, missed, dropped>>

---------------------------------------------------------------------------
(* The requests of a tab end with it, and their answers go nowhere.        *)
CloseTab(t) ==
    /\ tab[t].pc # "closed"
    /\ tab' = [tab EXCEPT ![t] = Closed]
    /\ dropped' = IF tab[t].pc \in OnItsWay THEN dropped \cup {tab[t].sid} ELSE dropped
    /\ Asked
    /\ UNCHANGED <<clock, session, single, cookie, store, logouts, missed>>

Advance ==
    /\ clock < MaxClock
    /\ clock' = clock + 1
    /\ UNCHANGED <<session, single, cookie, store, tab, logouts, asked, missed, dropped>>

ExpireAccess(b) ==
    /\ Authorised(b)
    /\ cookie' = [cookie EXCEPT ![b].expired = TRUE]
    /\ Asked
    /\ UNCHANGED <<clock, session, single, store, tab, logouts, missed, dropped>>

(* A device outside the model's tabs is signed in already.                 *)
Away == Browser \ {Home[t] : t \in Tab}
NoRow == [status |-> "none", user |-> NoUser, chain |-> 0]

Init ==
    /\ clock = 1
    /\ single \in [User -> BOOLEAN]
    /\ \/ /\ Away = {}
          /\ session = [s \in Sid |-> NoRow]
          /\ cookie = [b \in Browser |-> NoCookie]
       \/ \E u \in User, a \in Away :
            /\ session = [s \in Sid |-> IF s = 1 THEN [status |-> "live", user |-> u, chain |-> 1] ELSE NoRow]
            /\ cookie = [b \in Browser |-> IF b = a THEN [sid |-> 1, expired |-> FALSE] ELSE NoCookie]
    /\ store = [b \in Browser |-> [login |-> 0, act |-> 0, drafts |-> NoDrafts]]
    /\ tab = [t \in Tab |-> Closed]
    /\ logouts = {}
    /\ asked = 0
    /\ missed = {}
    /\ dropped = {}

Login(t) ==
    \/ RefreshSession(t)
    \/ HandleSession(t)
    \/ RefreshFails(t)
    \/ AnswerSession(t)
    \/ AnswerLogin(t)
    \/ LoseAnswer(t)
    \/ RequestFails(t)
    \/ \E n \in Sid : RotateRefresh(t, n) \/ IssueRefresh(t, n)
    \/ \E u \in User : SubmitLogin(t, u)

Security(t) ==
    \/ ToggleSingleSession(t)
    \/ \E on \in BOOLEAN : SavePreference(t, on)
    \/ ApplyLastWins(t)
    \/ \E s \in Sid : RevokeSession(t, s)

Work(t) ==
    \/ LoadWorkspace(t)
    \/ LoadFails(t)
    \/ OpenModal(t)
    \/ CloseModal(t)
    \/ \E x \in Text : Type(t, x) \/ TypeInModal(t, x)
    \/ CloseTab(t)

Kick(t) == SessionRevoked(t) \/ Heartbeat(t) \/ Refresh(t)

Watch(t) == BumpActivity(t) \/ HandleStorage(t) \/ TickLogout(t) \/ TickWarn(t)

Next ==
    \/ \E t \in Tab : Login(t) \/ LogoutByUser(t) \/ Security(t) \/ Work(t) \/ Kick(t) \/ Watch(t)
    \/ \E l \in logouts : HandleLogout(l) \/ ClearCookies(l) \/ LoseLogout(l)
    \/ \E b \in Browser : ExpireAccess(b)
    \/ Advance

Spec == Init /\ [][Next]_vars

---------------------------------------------------------------------------
(* Properties.                                                             *)

(* Every variable holds what the program can put there, and a tab that is  *)
(* signed out has no board, no stream and no countdown left.               *)
TypeOK ==
    /\ clock \in 1 .. MaxClock
    /\ session \in [Sid -> Row]
    /\ single \in [User -> BOOLEAN]
    /\ cookie \in [Browser -> Cookie]
    /\ store \in [Browser -> Storage]
    /\ tab \in [Tab -> TabState]
    /\ logouts \subseteq [browser : Browser, sid : 0 .. MaxSession, done : BOOLEAN]
    /\ asked \in 0 .. MaxAsked
    /\ missed \subseteq Sid /\ dropped \subseteq 0 .. MaxSession
    /\ \A t \in Tab :
          /\ ~SignedIn(t) => ~tab[t].ready /\ tab[t].stream = 0 /\ tab[t].warn = 0
          /\ tab[t].pc \in {"rotating", "answering"} => tab[t].ask.sid # 0

(* "Activity in any open tab resets every tab's soft timer": a countdown   *)
(* ends in a logout only when nobody was active in the browser after it    *)
(* began, but for activity whose storage event is still on its way.        *)
QuietBeforeIdleLogout ==
    [][\A t \in Tab : store[Home[t]].act > tab[t].warn /\ ~tab[t].news =>
            AbsoluteReached(store[Home[t]]) \/ ~TickLogout(t)]_vars

(* Last-wins: a user of the single session option has one live session,    *)
(* whatever the order of logins, rotations, logouts and switches, but for  *)
(* the rows that missed a revocation: one was due and has not been made    *)
(* yet, failed or was cut off with its client, or the row was inserted on  *)
(* a preference or a parent row that was read before it changed.           *)
OneLiveSession == \A u \in User : single[u] => Cardinality(LiveOf(u) \ missed) <= 1

(* Every live session is held by some browser or on its way to one:        *)
(* rotations, reuse and logouts revoke what they take from a browser.  The *)
(* exceptions are the cookie that a late answer overwrites, the answer     *)
(* that never arrives, and the logout whose revocation failed.             *)
LiveSessionsAreHeld ==
    \A s \in Sid : Live(s) /\ s \notin dropped =>
        \/ \E b \in Browser : cookie[b].sid = s
        \/ \E t \in Tab : tab[t].pc \in OnItsWay /\ tab[t].sid = s

(* A sign-in restores the draft of App's form once: text typed into it     *)
(* since is replaced only after a load or a session request of that tab    *)
(* has failed.  (The modals take theirs at each opening, see OpenModal.)   *)
RestoreKeepsNewText ==
    [][\A t \in Tab : tab[t].typed /\ ~tab[t].failed /\ tab'[t].form # tab[t].form =>
            ~LoadWorkspace(t)]_vars

(* "Revoking every OTHER active refresh session": whoever is kicked out    *)
(* was signed in with a session that is revoked.                           *)
KickSparesLiveSession ==
    [][\A t \in Tab : SessionRevoked(t) => ~Live(tab[t].stream)]_vars
=============================================================================
