------------------------------ MODULE Accounts ------------------------------
(***************************************************************************)
(* Accounts: passwords, lockout, the second factor with its recovery       *)
(* codes, reset links and administration (internal/server/auth), with the  *)
(* views that drive them: sign-up, sign-in, the second-factor screen, the  *)
(* set-up dialog, the security panel (frontend/src/components).            *)
(*                                                                         *)
(* A seat is a browser; anyone may sit down at it.  A handler that reads   *)
(* the account, computes and writes is a step for each of them, Begin and  *)
(* End at least: what it has read is in the seat's doing.  The revocation  *)
(* of sessions is a statement of its own, whose error is ignored, and a    *)
(* request may be cut off between two statements.                          *)
(***************************************************************************)
EXTENDS Integers, FiniteSets

CONSTANTS
    User, Seat,
    NoUser,
    Tier1, Tier2, \* lockTier1Threshold, lockTier2Threshold
    MaxAsked,     \* bound: the requests people make and what fails
    MaxPassword,  \* bound: password changes of a user
    MaxSecret,    \* bound: TOTP secrets made for a user
    MaxCode,      \* bound: recovery codes made for a user
    MaxLinks      \* bound: reset links of a user at a time

ASSUME UserAssumption == NoUser \notin User
ASSUME TierAssumption ==
    /\ Tier1 \in Nat \ {0} /\ Tier2 \in Nat /\ Tier1 <= Tier2
    /\ MaxAsked \in Nat /\ MaxPassword \in Nat /\ MaxSecret \in Nat \ {0} /\ MaxCode \in Nat \ {0}
    /\ MaxLinks \in Nat

VARIABLES
    account,  \* the row of each user, its codes, links and failed attempts
    super,    \* who has the SuperAdminID
    person,   \* what each person has kept
    seat,
    asked,    \* the number of requests and failures so far
    banned,   \* history: users an administrator's lock still holds
    lost      \* history: an active administrator went by other than a guarded request

vars == <<account, super, person, seat, asked, banned, lost>>

(* recent, day: failed attempts of the last hour and day.  password: its   *)
(* version.  links: unused reset tokens.  A tier-1 lock ends by a reset    *)
(* only (100 years).                                                       *)
Account ==
    [exists : BOOLEAN, admin : BOOLEAN, lock : {"open", "reset", "permanent"}, recent : 0 .. Tier1,
     day : 0 .. Tier2, password : 0 .. MaxPassword, secret : 0 .. MaxSecret, enabled : BOOLEAN,
     codes : SUBSET (1 .. MaxCode), links : 0 .. MaxLinks, single : BOOLEAN]

(* accepted: the secrets whose code the server has taken from the person.  *)
(* made, minted: the last secret and code issued.  resetup: setup was run  *)
(* past an enabled secret.  spent, again: codes taken, codes whose check   *)
(* began after that (history).                                             *)
Person ==
    [accepted : SUBSET (1 .. MaxSecret), saved : 0 .. MaxCode, made : 0 .. MaxSecret,
     minted : 0 .. MaxCode, resetup : BOOLEAN, spent : SUBSET (1 .. MaxCode),
     again : SUBSET (1 .. MaxCode)]

(* A reset has taken its token, changed the password and revoked the       *)
(* sessions before it is a reset that has read the lock.  locked: a lock   *)
(* is to revoke the sessions, issued: a sign-in those of the other seats.  *)
Verb == {"lock", "unlock", "grant", "revoke", "reset-password"}
Step == {"token", "changed", "revoked", "locked", "issued"}
Request ==
    [kind : {"none", "login", "failure", "reset", "enable", "recovery"} \cup Verb \cup Step,
     who : User \cup {NoUser}, password : 0 .. MaxPassword, totp : BOOLEAN,
     lock : {"open", "reset", "permanent"}, secret : 0 .. MaxSecret, code : 0 .. MaxCode,
     admins : SUBSET User]

(* under: the password version the sign-in was checked with.  missed: a    *)
(* change of it or a lock is to revoke the session and has not, or has     *)
(* come before the session, which was issued on an earlier check (history).*)
(* stepUp: mfa_at is recent.  shown: session.totpEnabled of the view.      *)
(* user: who has signed in, or is about to prove the second factor.        *)
(* qr, fresh: the secret and the codes on show.                            *)
SeatState ==
    [user : User \cup {NoUser}, screen : {"login", "mfa", "in"}, live : BOOLEAN,
     under : 0 .. MaxPassword, missed : BOOLEAN, challenge : BOOLEAN, stepUp : BOOLEAN,
     shown : BOOLEAN, modal : {"closed", "setup", "codes"}, qr : 0 .. MaxSecret, fresh : 0 .. MaxCode,
     doing : Request]

NoRequest ==
    [kind |-> "none", who |-> NoUser, password |-> 0, totp |-> FALSE, lock |-> "open",
     secret |-> 0, code |-> 0, admins |-> {}]
AtLogin ==
    [user |-> NoUser, screen |-> "login", live |-> FALSE, under |-> 0, missed |-> FALSE,
     challenge |-> FALSE, stepUp |-> FALSE, shown |-> FALSE, modal |-> "closed", qr |-> 0, fresh |-> 0,
     doing |-> NoRequest]
NewAccount ==
    [exists |-> TRUE, admin |-> FALSE, lock |-> "open", recent |-> 0, day |-> 0, password |-> 0,
     secret |-> 0, enabled |-> FALSE, codes |-> {}, links |-> 0, single |-> TRUE]
NewPerson ==
    [accepted |-> {}, saved |-> 0, made |-> 0, minted |-> 0, resetup |-> FALSE, spent |-> {},
     again |-> {}]

ActiveAdmins == {u \in User : account[u].exists /\ account[u].admin /\ account[u].lock = "open"}

Asked == asked < MaxAsked /\ asked' = asked + 1
Free(s) == seat[s].doing = NoRequest
Authenticated(s) == seat[s].live
Panel(s) == seat[s].screen = "in" /\ Free(s) /\ Authenticated(s)

(* The request of seat s has read the account of u.                        *)
Reads(s, kind, u, code) ==
    seat' = [seat EXCEPT ![s].doing =
        [kind |-> kind, who |-> u, password |-> account[u].password, totp |-> account[u].enabled,
         lock |-> account[u].lock, secret |-> account[u].secret, code |-> code,
         admins |-> ActiveAdmins]]

Done(st) == [st EXCEPT !.doing = NoRequest]
Revoked(seats, u) == [s \in Seat |-> IF seats[s].user = u THEN [seats[s] EXCEPT !.live = FALSE] ELSE seats[s]]

---------------------------------------------------------------------------
(* Sign-up and sign-in.                                                    *)

(* A session for seat s, whose answer waits for the end of the others if   *)
(* the user wants a single one.                                            *)
Issue(s, u, password, stepUp) ==
    LET opened == [AtLogin EXCEPT !.user = u, !.live = TRUE, !.under = password,
                                  !.missed = password # account[u].password \/ u \in banned,
                                  !.stepUp = stepUp, !.shown = account[u].enabled]
    IN  seat' = [seat EXCEPT ![s] =
            IF account[u].single
            THEN [opened EXCEPT !.doing = [NoRequest EXCEPT !.kind = "issued", !.who = u]]
            ELSE [opened EXCEPT !.screen = "in"]]

(* single_session: the last one wins, if its revocation does not fail.     *)
LastWins(s) ==
    LET d == seat[s].doing
        in == [Done(seat[s]) EXCEPT !.screen = "in"]
    IN  /\ d.kind = "issued"
        /\ \/ seat' = [Revoked(seat, d.who) EXCEPT ![s] = in] /\ UNCHANGED asked
           \/ seat' = [seat EXCEPT ![s] = in] /\ Asked
        /\ UNCHANGED <<account, super, person, banned, lost>>

(* The first account of a deployment may become the super-admin.  The view *)
(* drops the answer's session with a logout, which may be lost.            *)
Signup(s, u) ==
    LET first == \A v \in User : ~account[v].exists
    IN  /\ seat[s].screen = "login" /\ Free(s)
        /\ ~account[u].exists /\ \A r \in Seat : seat[r].doing.who # u
        /\ Asked
        /\ \E boot \in IF first THEN BOOLEAN ELSE {FALSE}, kept \in BOOLEAN :
              /\ account' = [account EXCEPT ![u] = [NewAccount EXCEPT !.admin = boot]]
              /\ super' = IF boot THEN u ELSE super
              /\ seat' = [seat EXCEPT ![s] = IF kept THEN [AtLogin EXCEPT !.user = u, !.live = TRUE] ELSE AtLogin]
        /\ UNCHANGED <<person, banned, lost>>

(* refreshSession: what the page shows becomes what the server says.       *)
RefreshSession(s) ==
    /\ seat[s].screen # "mfa" /\ Free(s)
    /\ seat' = [seat EXCEPT ![s] =
            IF Authenticated(s) THEN [@ EXCEPT !.screen = "in", !.shown = account[seat[s].user].enabled]
            ELSE AtLogin]
    /\ UNCHANGED <<account, super, person, asked, banned, lost>>

Logout(s) ==
    /\ Panel(s)
    /\ seat' = [seat EXCEPT ![s] = AtLogin]
    /\ UNCHANGED <<account, super, person, asked, banned, lost>>

(* submitLogin and handleLogin up to the password check.                   *)
LoginBegin(s, kind, u) ==
    /\ seat[s].screen = "login" /\ Free(s)
    /\ account[u].exists /\ account[u].lock = "open"
    /\ Asked
    /\ Reads(s, kind, u, 0)
    /\ UNCHANGED <<account, super, person, banned, lost>>

(* The password was right: a challenge, or a session.                      *)
LoginEnd(s) ==
    LET d == seat[s].doing
        u == d.who
    IN  /\ d.kind = "login"
        /\ account' = IF account[u].exists THEN [account EXCEPT ![u].recent = 0, ![u].day = 0]
                      ELSE account
        /\ IF ~account[u].exists THEN seat' = [seat EXCEPT ![s] = Done(@)]
           ELSE IF d.totp
           THEN seat' = [seat EXCEPT ![s] =
                    [AtLogin EXCEPT !.user = u, !.screen = "mfa", !.challenge = TRUE,
                                    !.under = d.password]]
           ELSE Issue(s, u, d.password, FALSE)
        /\ UNCHANGED <<super, person, asked, banned, lost>>

(* maybeEscalateLock: what the attempts of the day and hour lead to.       *)
Escalated(a) ==
    IF a.day >= Tier2 THEN "permanent" ELSE IF a.recent >= Tier1 THEN "reset" ELSE a.lock

(* The password was wrong.                                                 *)
FailureEnd(s) ==
    LET u == seat[s].doing.who
        failed == [account[u] EXCEPT !.recent = IF @ < Tier1 THEN @ + 1 ELSE @,
                                     !.day = IF @ < Tier2 THEN @ + 1 ELSE @]
        locked == Escalated(failed)
    IN  /\ seat[s].doing.kind = "failure"
        /\ seat' = [seat EXCEPT ![s] = Done(@)]
        /\ IF account[u].exists
           THEN /\ account' = [account EXCEPT ![u] = [failed EXCEPT !.lock = locked]]
                /\ lost' = (lost \/ (ActiveAdmins = {u} /\ locked # "open"))
                /\ banned' = IF locked = "permanent" THEN banned ELSE banned \ {u}
           ELSE UNCHANGED <<account, lost, banned>>
        /\ UNCHANGED <<super, person, asked>>

HourPasses(u) ==
    /\ account[u].recent > 0
    /\ account' = [account EXCEPT ![u].recent = 0]
    /\ UNCHANGED <<super, person, seat, asked, banned, lost>>

DayPasses(u) ==
    /\ account[u].day > 0
    /\ account' = [account EXCEPT ![u].recent = 0, ![u].day = 0]
    /\ UNCHANGED <<super, person, seat, asked, banned, lost>>

---------------------------------------------------------------------------
(* The second factor at sign-in: the challenge is consumed before the code *)
(* is looked at, and the view keeps the consumed one.                      *)

Challenged(s) == seat[s].screen = "mfa" /\ Free(s)

TotpVerify(s, right) ==
    LET u == seat[s].user
    IN  /\ Challenged(s) /\ Asked
        /\ IF right /\ seat[s].challenge /\ account[u].secret \in person[u].accepted
           THEN Issue(s, u, seat[s].under, TRUE)
           ELSE seat' = [seat EXCEPT ![s].challenge = FALSE]
        /\ UNCHANGED <<account, super, person, banned, lost>>

(* checkRecoveryCode: list the unused codes and compare ...                *)
CodeBegin(s) ==
    LET u == seat[s].user
        c == person[u].saved
    IN  /\ c \in account[u].codes
        /\ person' = IF c \in person[u].spent THEN [person EXCEPT ![u].again = @ \cup {c}] ELSE person
        /\ Reads(s, "recovery", u, c)

RecoveryBegin(s) ==
    /\ Challenged(s) /\ seat[s].challenge /\ Asked
    /\ CodeBegin(s)
    /\ UNCHANGED <<account, super, banned, lost>>

(* ... and mark the match used, which succeeds for a used one too.         *)
SpentKept(a, c) == a  \* mutant: the code is not marked used
Spent(a, c) == [a EXCEPT !.codes = @ \ {c}]
NoSecondFactor(a) == [a EXCEPT !.secret = 0, !.enabled = FALSE, !.codes = {}]

RecoveryEnd(s) ==
    LET u == seat[s].user
        d == seat[s].doing
    IN  /\ d.kind = "recovery"
        /\ person' = [person EXCEPT ![u].spent = @ \cup {d.code}]
        /\ IF ~account[u].exists
           THEN seat' = [seat EXCEPT ![s] = Done([@ EXCEPT !.challenge = FALSE])] /\ account' = account
           ELSE IF seat[s].screen = "mfa"
           THEN /\ account' = [account EXCEPT ![u] = Spent(@, d.code)]
                /\ Issue(s, u, seat[s].under, TRUE)
           ELSE /\ account' = [account EXCEPT ![u] = NoSecondFactor(@)]
                /\ seat' = [seat EXCEPT ![s] = [Done(@) EXCEPT !.shown = FALSE]]
        /\ UNCHANGED <<super, asked, banned, lost>>

CancelMFA(s) ==
    /\ Challenged(s)
    /\ seat' = [seat EXCEPT ![s] = AtLogin]
    /\ UNCHANGED <<account, super, person, asked, banned, lost>>

(* Five minutes: the challenge, or mfa_at of the step-up, is too old.      *)
FiveMinutesPass(s) ==
    /\ seat[s].challenge \/ seat[s].stepUp
    /\ seat' = [seat EXCEPT ![s].challenge = FALSE, ![s].stepUp = FALSE]
    /\ UNCHANGED <<account, super, person, asked, banned, lost>>

---------------------------------------------------------------------------
(* Setting the second factor up and taking it down.                        *)

(* Opening the dialog makes a new secret, whatever there is.               *)
OpenSetup(s) ==
    LET u == seat[s].user
        secret == person[u].made + 1
    IN  /\ Panel(s) /\ ~seat[s].shown /\ seat[s].modal = "closed"
        /\ person[u].made < MaxSecret /\ Asked
        /\ account' = [account EXCEPT ![u].secret = secret]
        /\ person' = [person EXCEPT ![u].made = secret, ![u].resetup = @ \/ account[u].enabled]
        /\ seat' = [seat EXCEPT ![s].modal = "setup", ![s].qr = secret]
        /\ UNCHANGED <<super, banned, lost>>

CodeUnchecked(s) == seat[s].qr # 0  \* mutant: any code will do
CodeMatches(s) == seat[s].qr = account[seat[s].user].secret

EnableBegin(s) ==
    LET u == seat[s].user
    IN  /\ Panel(s) /\ seat[s].modal = "setup"
        /\ account[u].secret # 0 /\ CodeMatches(s)
        /\ person[u].minted < MaxCode /\ Asked
        /\ person' = [person EXCEPT ![u].accepted = @ \cup {seat[s].qr}]
        /\ Reads(s, "enable", u, 0)
        /\ UNCHANGED <<account, super, banned, lost>>

(* generateAndStoreRecoveryCodes: the new codes replace the old.           *)
NewCodes(s, a) ==
    LET u == seat[s].user
        c == person[u].minted + 1
    IN  /\ account' = [account EXCEPT ![u] = [a EXCEPT !.codes = {c}]]
        /\ seat' = [seat EXCEPT ![s] = [Done(@) EXCEPT !.modal = "codes", !.fresh = c]]

EnableEnd(s) ==
    LET u == seat[s].user
        d == seat[s].doing
    IN  /\ d.kind = "enable"
        /\ IF account[u].exists /\ person[u].minted < MaxCode
           THEN /\ NewCodes(s, [account[u] EXCEPT !.enabled = TRUE])
                /\ person' = [person EXCEPT ![u].minted = @ + 1, ![u].resetup = account[u].secret # d.secret]
           ELSE /\ seat' = [seat EXCEPT ![s] = Done(@)]
                /\ UNCHANGED <<account, person>>
        /\ UNCHANGED <<super, asked, banned, lost>>

Regenerate(s) ==
    LET u == seat[s].user
    IN  /\ Panel(s) /\ seat[s].shown /\ seat[s].modal = "closed" /\ seat[s].stepUp
        /\ person[u].minted < MaxCode /\ Asked
        /\ NewCodes(s, account[u])
        /\ person' = [person EXCEPT ![u].minted = @ + 1]
        /\ UNCHANGED <<super, banned, lost>>

(* "저장했어요": only now does App learn that the second factor is on.     *)
SaveCodes(s) ==
    LET u == seat[s].user
        shown == seat[s].shown \/ account[u].enabled
    IN  /\ seat[s].modal = "codes" /\ Free(s)
        /\ person' = [person EXCEPT ![u].saved = seat[s].fresh]
        /\ seat' = [seat EXCEPT ![s] =
                IF ~@.shown /\ ~Authenticated(s) THEN AtLogin
                ELSE [@ EXCEPT !.modal = "closed", !.shown = shown]]
        /\ UNCHANGED <<account, super, asked, banned, lost>>

CloseSetup(s) ==
    /\ seat[s].modal # "closed" /\ Free(s)
    /\ seat' = [seat EXCEPT ![s].modal = "closed"]
    /\ UNCHANGED <<account, super, person, asked, banned, lost>>

Disable(s) ==
    LET u == seat[s].user
    IN  /\ Panel(s) /\ seat[s].shown /\ Asked
        /\ account[u].enabled /\ account[u].secret \in person[u].accepted
        /\ account' = [account EXCEPT ![u] = NoSecondFactor(@)]
        /\ seat' = [seat EXCEPT ![s].shown = FALSE]
        /\ UNCHANGED <<super, person, banned, lost>>

DisableByCodeBegin(s) ==
    /\ Panel(s) /\ seat[s].shown /\ Asked
    /\ CodeBegin(s)
    /\ UNCHANGED <<account, super, banned, lost>>

---------------------------------------------------------------------------
(* Reset links; one that expires is one that nobody opens.                 *)

ForgotPassword(s, u) ==
    /\ seat[s].screen = "login" /\ Free(s)
    /\ account[u].exists /\ account[u].links < MaxLinks /\ Asked
    /\ account' = [account EXCEPT ![u].links = @ + 1]
    /\ UNCHANGED <<super, person, seat, banned, lost>>

(* handleResetPasswordComplete: the token is consumed, whatever comes of   *)
(* it ...                                                                  *)
LinkAlwaysUnused(u) == TRUE  \* mutant: a used token is taken again
LinkUnused(u) == account[u].links > 0

ResetBegin(s, u) ==
    /\ Free(s)
    /\ account[u].exists /\ LinkUnused(u)
    /\ Asked
    /\ account' = [account EXCEPT ![u].links = @ - 1]
    /\ seat' = [seat EXCEPT ![s].doing = [NoRequest EXCEPT !.kind = "token", !.who = u]]
    /\ UNCHANGED <<super, person, banned, lost>>

(* ... the password is set, which is to end the sessions there are ...     *)
Owing(seats, u) ==
    [s \in Seat |-> IF seats[s].user = u /\ seats[s].live THEN [seats[s] EXCEPT !.missed = TRUE] ELSE seats[s]]

SetPassword(s) ==
    LET d == seat[s].doing
        u == d.who
    IN  /\ d.kind = "token" /\ account[u].password < MaxPassword
        /\ seat' = [Owing(seat, u) EXCEPT ![s].doing.kind = "changed"]
        /\ account' = IF account[u].exists THEN [account EXCEPT ![u].password = @ + 1] ELSE account
        /\ UNCHANGED <<super, person, asked, banned, lost>>

(* ... they are revoked, by a reset or by a lock, and an error is ignored. *)
(* A session that comes through has missed nothing.                        *)
SignedOutHereOnly(s, u) == [seat EXCEPT ![s].live = FALSE]  \* mutant: the other sessions stay
SignedOutBy(s, u) == Revoked(seat, u)
Met(seats, u) ==
    [s \in Seat |-> IF seats[s].user = u THEN [seats[s] EXCEPT !.missed = FALSE] ELSE seats[s]]

RevokeSessions(s) ==
    LET d == seat[s].doing
        next(st) == IF d.kind = "changed" THEN [st EXCEPT !.doing.kind = "revoked"] ELSE Done(st)
    IN  /\ d.kind \in {"changed", "locked"}
        /\ \/ seat' = [Met(SignedOutBy(s, d.who), d.who) EXCEPT ![s] = next(@)] /\ UNCHANGED asked
           \/ seat' = [seat EXCEPT ![s] = next(@)] /\ Asked
        /\ UNCHANGED <<account, super, person, banned, lost>>

(* ... the lock is read ...                                                *)
ReadLock(s) ==
    LET u == seat[s].doing.who
    IN  /\ seat[s].doing.kind = "revoked"
        /\ seat' = [seat EXCEPT ![s].doing.kind = "reset", ![s].doing.lock = account[u].lock]
        /\ UNCHANGED <<account, super, person, asked, banned, lost>>

(* ... and a tier-1 lock is lifted, a permanent one is not.                *)
Landed(st) == IF st.live THEN [Done(st) EXCEPT !.screen = "login", !.modal = "closed"] ELSE AtLogin

LiftsAny(lock) == lock # "open"  \* mutant: a reset lifts a permanent lock too
Lifts(lock) == lock = "reset"

ResetEnd(s) ==
    LET d == seat[s].doing
        u == d.who
        lock == IF Lifts(d.lock) THEN "open" ELSE account[u].lock
    IN  /\ d.kind = "reset"
        /\ account' = IF account[u].exists
                      THEN [account EXCEPT ![u].lock = lock, ![u].recent = 0, ![u].day = 0]
                      ELSE account
        /\ banned' = IF lock = "permanent" THEN banned ELSE banned \ {u}
        /\ seat' = [seat EXCEPT ![s] = Landed(@)]
        /\ UNCHANGED <<super, person, asked, lost>>

---------------------------------------------------------------------------
(* Administration.  The rows of the panel are not polled: any verb may be  *)
(* asked for about anyone, and the handler decides.                        *)

SomeLeft == Cardinality(ActiveAdmins) > 0  \* mutant: off by one
OthersLeft == Cardinality(ActiveAdmins) > 1

Allowed(me, verb, u) ==
    \/ verb = "lock" /\ u # me /\ account[u].lock = "open" /\ (account[u].admin => OthersLeft)
    \/ verb = "unlock"
    \/ verb = "grant" /\ ~account[u].admin /\ account[u].lock = "open"
    \/ verb = "revoke" /\ u # me /\ account[u].admin /\ (account[u].lock = "open" => OthersLeft)
    \/ verb = "reset-password" /\ account[u].links < MaxLinks

(* requireAdmin, the shield of the super-admin, the guards of the verb.    *)
AdminBegin(s, verb, u) ==
    /\ Panel(s) /\ account[seat[s].user].admin /\ account[u].exists
    /\ u = super => seat[s].user = u
    /\ Asked
    /\ Allowed(seat[s].user, verb, u)
    /\ Reads(s, verb, u, 0)
    /\ UNCHANGED <<account, super, person, banned, lost>>

Written(a, verb) ==
    CASE verb = "lock" -> [a EXCEPT !.lock = "permanent"]
      [] verb = "unlock" -> [a EXCEPT !.lock = "open", !.recent = 0, !.day = 0]
      [] verb = "grant" -> [a EXCEPT !.admin = TRUE]
      [] verb = "revoke" -> [a EXCEPT !.admin = FALSE]
      [] verb = "reset-password" -> [a EXCEPT !.links = IF @ < MaxLinks THEN @ + 1 ELSE @]

AdminEnd(s) ==
    LET d == seat[s].doing
        u == d.who
    IN  /\ d.kind \in Verb
        /\ seat' = IF d.kind = "lock" THEN [Owing(seat, u) EXCEPT ![s].doing.kind = "locked"]
                   ELSE [seat EXCEPT ![s] = Done(@)]
        /\ IF account[u].exists
           THEN /\ account' = [account EXCEPT ![u] = Written(@, d.kind)]
                /\ lost' = (lost \/ (d.kind \in {"lock", "revoke"} /\ d.admins # ActiveAdmins))
                /\ banned' = CASE d.kind = "lock" -> banned \cup {u}
                               [] d.kind = "unlock" -> banned \ {u}
                               [] OTHER -> banned
           ELSE UNCHANGED <<account, lost, banned>>
        /\ UNCHANGED <<super, person, asked>>

(* handleDeleteAccount: the row goes with everything that refers to it.    *)
Delete(s) ==
    LET u == seat[s].user
    IN  /\ Panel(s) /\ Asked
        /\ account[u].enabled => seat[s].shown /\ account[u].secret \in person[u].accepted
        /\ account' = [account EXCEPT ![u] = [NewAccount EXCEPT !.exists = FALSE]]
        /\ seat' = [r \in Seat |-> IF r = s THEN AtLogin
                                   ELSE IF seat[r].user = u
                                   THEN [seat[r] EXCEPT !.live = FALSE, !.challenge = FALSE]
                                   ELSE seat[r]]
        /\ super' = IF u = super THEN NoUser ELSE super
        /\ lost' = (lost \/ ActiveAdmins = {u})
        /\ banned' = banned \ {u}
        /\ UNCHANGED person

(* A request ends between two statements: one fails, the client leaves and *)
(* takes the context along, or the server restarts.  A challenge it used   *)
(* is spent, and the cookie of a session it has issued arrives nowhere.    *)
CutOff(s) ==
    LET kind == seat[s].doing.kind
    IN  /\ ~Free(s) /\ Asked
        /\ seat' = [seat EXCEPT ![s] =
                IF kind = "issued" THEN AtLogin
                ELSE IF kind \in {"token", "changed", "revoked", "reset"} THEN Landed(@)
                ELSE [Done(@) EXCEPT !.challenge = FALSE]]
        /\ UNCHANGED <<account, super, person, banned, lost>>

---------------------------------------------------------------------------
(* Some people begin signed in, with the second factor set up or with a    *)
(* link in their mail.                                                     *)
Start(admin, single, links) ==
    [NewAccount EXCEPT !.admin = admin, !.single = single, !.links = links]
Enrolled(a) == [a EXCEPT !.secret = 1, !.enabled = TRUE, !.codes = {1}]
Keeper == [NewPerson EXCEPT !.accepted = {1}, !.saved = 1, !.made = 1, !.minted = 1]
SignedIn(u, shown) == [AtLogin EXCEPT !.user = u, !.screen = "in", !.live = TRUE, !.shown = shown]

Init ==
    \E admins, factor \in SUBSET User, single, linked \in {{}, User},
       at \in [Seat -> User \cup {NoUser}] :
        /\ \A r, s \in Seat : at[r] = at[s] /\ at[r] \in single => r = s
        /\ account = [u \in User |->
                LET a == Start(u \in admins, u \in single, IF u \in linked THEN MaxLinks ELSE 0)
                IN  IF u \in factor THEN Enrolled(a) ELSE a]
        /\ person = [u \in User |-> IF u \in factor THEN Keeper ELSE NewPerson]
        /\ super \in admins \cup {NoUser}
        /\ seat = [s \in Seat |->
                IF at[s] = NoUser THEN AtLogin
                ELSE SignedIn(at[s], at[s] \in factor)]
        /\ asked = 0
        /\ banned = {}
        /\ lost = (admins = {})

Entry(s) ==
    \/ \E u \in User : Signup(s, u)
    \/ RefreshSession(s)
    \/ Logout(s)
    \/ \E kind \in {"login", "failure"}, u \in User : LoginBegin(s, kind, u)
    \/ LoginEnd(s)
    \/ LastWins(s)
    \/ FailureEnd(s)
    \/ \E right \in BOOLEAN : TotpVerify(s, right)
    \/ RecoveryBegin(s)
    \/ RecoveryEnd(s)
    \/ CancelMFA(s)
    \/ FiveMinutesPass(s)

Upkeep(s) ==
    \/ OpenSetup(s)
    \/ EnableBegin(s)
    \/ EnableEnd(s)
    \/ Regenerate(s)
    \/ SaveCodes(s)
    \/ CloseSetup(s)
    \/ Disable(s)
    \/ DisableByCodeBegin(s)
    \/ \E u \in User : ForgotPassword(s, u) \/ ResetBegin(s, u)
    \/ SetPassword(s)
    \/ RevokeSessions(s)
    \/ ReadLock(s)
    \/ ResetEnd(s)
    \/ \E verb \in Verb, u \in User : AdminBegin(s, verb, u)
    \/ AdminEnd(s)
    \/ Delete(s)
    \/ CutOff(s)

Next ==
    \/ \E s \in Seat : Entry(s) \/ Upkeep(s)
    \/ \E u \in User : HourPasses(u) \/ DayPasses(u)

Spec == Init /\ [][Next]_vars

---------------------------------------------------------------------------
(* Every variable holds what the program can put there.                    *)
TypeOK ==
    /\ account \in [User -> Account]
    /\ super \in User \cup {NoUser}
    /\ person \in [User -> Person]
    /\ seat \in [Seat -> SeatState]
    /\ asked \in 0 .. MaxAsked
    /\ banned \subseteq User
    /\ lost \in BOOLEAN

(* Guarded administration never locks or demotes the last active           *)
(* administrator: there is one, unless a count went stale between two      *)
(* overlapping requests, failed sign-ins locked one or one deleted its own *)
(* account (handleAdminLock, handleAdminRevoke).                           *)
Administered == ActiveAdmins # {} \/ lost

(* A second factor that is on asks for codes of a secret whose code the    *)
(* server has once taken from the person: EnableTOTP switches on what was  *)
(* checked, unless the set-up was run again in between or afterwards.      *)
SecondFactorIsHeld ==
    \A u \in User : account[u].enabled =>
        account[u].secret \in person[u].accepted \/ person[u].resetup

(* A live session was opened with the present password and not against an  *)
(* administrator's lock: a reset and a lock end the older ones.  Left is a *)
(* session whose revocation is due and not made, failed or was cut off,    *)
(* and one that passed the password check before the change and was issued *)
(* after it; the next revocation that succeeds ends these as well.         *)
SessionsFollowAccount ==
    \A s \in Seat : seat[s].live =>
        seat[s].missed \/ (seat[s].under = account[seat[s].user].password /\ seat[s].user \notin banned)

(* A recovery code is refused by every check that begins after it was      *)
(* taken; new codes refuse all older ones.                                 *)
SpentCodesAreRefused == \A u \in User : person[u].again = {}

(* A permanent lock is opened or softened by an administrator's unlock, or *)
(* by a write that was decided before the lock was there; not by a reset   *)
(* of the password, and not by signing in.                                 *)
Unlocks(u) == \E s \in Seat : seat[s].doing.kind = "unlock" /\ seat[s].doing.who = u
DecidedBefore(u) ==
    \E s \in Seat :
        /\ seat[s].doing.who = u /\ seat[s].doing.kind \in {"reset", "failure"}
        /\ seat[s].doing.lock # "permanent" /\ seat'[s].doing = NoRequest

PermanentLockStands ==
    [][\A u \in User :
          account[u].lock = "permanent" /\ account'[u].exists /\ account'[u].lock # "permanent" =>
              Unlocks(u) \/ DecidedBefore(u)]_vars
=============================================================================
