--------------------------- MODULE AccountsProofs ---------------------------
(***************************************************************************)
(* What Accounts promises, for any people, browsers and limits: an active  *)
(* administrator is left, the second factor asks for a secret that was     *)
(* proved, a recovery code works once, sessions follow the account, and a  *)
(* permanent lock is only an administrator's to lift.                      *)
(*                                                                         *)
(* One invariant carries it all: of each user the row with what the person *)
(* keeps, of each seat its session and the request it has begun.           *)
(***************************************************************************)
EXTENDS Accounts, FiniteSetTheorems, TLAPS

(* The row of a user beside what the person has.  Codes taken are not      *)
(* among the codes that count, and codes are numbered as they are made.    *)
UserSound(a, p) ==
    /\ a \in Account /\ p \in Person
    /\ ~a.exists => a.lock = "open" /\ a.codes = {} /\ ~a.enabled
    /\ a.enabled => a.secret \in p.accepted \/ p.resetup
    /\ a.codes \cap p.spent = {} /\ p.again = {}
    /\ a.codes \subseteq 1 .. p.minted /\ p.spent \subseteq 1 .. p.minted

(* What a request has read was true once, and what depends on it still is. *)
RequestSound(d, u, persons, gone) ==
    /\ d.kind # "none" => d.who \in User
    /\ d.kind \in {"enable", "recovery", "issued"} => d.who = u
    /\ d.kind = "enable" => d.secret \in persons[d.who].accepted
    /\ d.kind = "recovery" => d.code \in 1 .. persons[d.who].minted
    /\ d.kind = "failure" => d.lock = "open"
    /\ d.kind \in {"lock", "revoke"} => gone \/ \E v \in d.admins : v # d.who

(* A session or a challenge belongs to an account, and a session to its    *)
(* password unless it has missed a revocation.                             *)
SeatSound(st, accounts, persons, held, gone) ==
    /\ st \in SeatState
    /\ st.user = NoUser => st.screen = "login" /\ ~st.live /\ ~st.challenge /\ st.modal = "closed"
    /\ st.live \/ st.challenge => accounts[st.user].exists
    /\ st.live => st.missed \/ (st.under = accounts[st.user].password /\ st.user \notin held)
    /\ RequestSound(st.doing, st.user, persons, gone)

AllSeats(seats, accounts, persons, held, gone) ==
    /\ DOMAIN seats = Seat /\ seats = [s \in Seat |-> seats[s]]
    /\ \A s \in Seat : SeatSound(seats[s], accounts, persons, held, gone)

People ==
    /\ DOMAIN account = User /\ account = [u \in User |-> account[u]]
    /\ DOMAIN person = User /\ person = [u \in User |-> person[u]]
    /\ \A u \in User : UserSound(account[u], person[u])
    /\ super \in User \cup {NoUser} /\ asked \in 0 .. MaxAsked
    /\ banned \subseteq User /\ \A u \in banned : account[u].exists
    /\ lost \in BOOLEAN

IInv ==
    /\ People
    /\ AllSeats(seat, account, person, banned, lost)
    /\ Administered

---------------------------------------------------------------------------
(* Facts about the records.                                                *)

(* None of each thing is one of its kind.                                  *)
LEMMA Nothing ==
    /\ 0 \in 0 .. MaxPassword /\ 0 \in 0 .. MaxSecret /\ 0 \in 0 .. MaxCode
    /\ 0 \in 0 .. Tier1 /\ 0 \in 0 .. Tier2 /\ 0 \in 0 .. MaxLinks
    /\ NoRequest \in Request /\ NoRequest.kind = "none" /\ NoRequest.who = NoUser
BY TierAssumption DEF NoRequest, Request

(* A seat at the login screen is sound whatever the accounts are.          *)
LEMMA AtLoginIsSound ==
    ASSUME NEW accounts, NEW persons, NEW held, NEW gone
    PROVE  SeatSound(AtLogin, accounts, persons, held, gone)
<1>1. AtLogin \in SeatState
  BY Nothing DEF AtLogin, SeatState
<1>2. /\ AtLogin.screen = "login" /\ ~AtLogin.live /\ ~AtLogin.challenge /\ AtLogin.modal = "closed"
      /\ AtLogin.doing = NoRequest
  BY DEF AtLogin
<1> QED BY <1>1, <1>2, Nothing DEF SeatSound, RequestSound

(* A seat that is done with its request.                                   *)
LEMMA DoneIsSound ==
    ASSUME NEW st, NEW accounts, NEW persons, NEW held, NEW gone,
           SeatSound(st, accounts, persons, held, gone)
    PROVE  SeatSound(Done(st), accounts, persons, held, gone)
<1>1. Done(st) \in SeatState /\ Done(st).doing = NoRequest
  BY Nothing DEF SeatSound, SeatState, Done
<1>2. /\ Done(st).user = st.user /\ Done(st).screen = st.screen /\ Done(st).live = st.live
      /\ Done(st).missed = st.missed /\ Done(st).under = st.under
      /\ Done(st).challenge = st.challenge /\ Done(st).modal = st.modal
  BY DEF SeatSound, SeatState, Done
<1> QED BY <1>1, <1>2, Nothing DEF SeatSound, RequestSound

(* Accounts stay, keep their passwords and lose only bans; people forget   *)
(* nothing.                                                                *)
Steady ==
    /\ \A u \in User :
          /\ account[u].exists => account'[u].exists /\ account'[u].password = account[u].password
          /\ person[u].accepted \subseteq person'[u].accepted
          /\ 1 .. person[u].minted \subseteq 1 .. person'[u].minted
    /\ banned' \subseteq banned
    /\ lost => lost'

(* Seats do not notice a steady step.                                      *)
LEMMA SteadyKeepsSeat ==
    ASSUME Steady, NEW st, SeatSound(st, account, person, banned, lost)
    PROVE  SeatSound(st, account', person', banned', lost')
<1>1. st.user \in User \cup {NoUser}
  BY DEF SeatSound, SeatState
<1>2. st.live \/ st.challenge => st.user \in User
  BY <1>1 DEF SeatSound
<1>3. RequestSound(st.doing, st.user, person', lost')
  <2>1. st.doing.kind \in {"enable", "recovery"} => st.doing.who \in User
    BY DEF SeatSound, RequestSound
  <2>2. st.doing.kind = "recovery" => st.doing.code \in 1 .. person'[st.doing.who].minted
    BY <2>1 DEF SeatSound, RequestSound, Steady
  <2> QED BY <2>1, <2>2 DEF SeatSound, RequestSound, Steady
<1> QED BY <1>2, <1>3 DEF SeatSound, Steady

(* In a steady step seats that were sound before are sound after.          *)
LEMMA SteadyKeepsSeats ==
    ASSUME Steady, NEW seats, AllSeats(seats, account, person, banned, lost)
    PROVE  AllSeats(seats, account', person', banned', lost')
<1>1. ASSUME NEW s \in Seat PROVE SeatSound(seats[s], account', person', banned', lost')
  <2>1. SeatSound(seats[s], account, person, banned, lost)
    BY DEF AllSeats
  <2> QED BY <2>1, SteadyKeepsSeat
<1> QED BY <1>1 DEF AllSeats

(* One seat changes.                                                       *)
LEMMA OneSeat ==
    ASSUME NEW seats, NEW accounts, NEW persons, NEW held, NEW gone, NEW s \in Seat, NEW st,
           AllSeats(seats, accounts, persons, held, gone),
           SeatSound(st, accounts, persons, held, gone)
    PROVE  AllSeats([seats EXCEPT ![s] = st], accounts, persons, held, gone)
BY DEF AllSeats

(* Sessions that end leave sound seats.                                    *)
LEMMA RevokedSeats ==
    ASSUME NEW seats, NEW accounts, NEW persons, NEW held, NEW gone, NEW u,
           AllSeats(seats, accounts, persons, held, gone)
    PROVE  /\ AllSeats(Revoked(seats, u), accounts, persons, held, gone)
           /\ \A s \in Seat : Revoked(seats, u)[s].user = u => ~Revoked(seats, u)[s].live
<1> DEFINE next == Revoked(seats, u)
<1>1. DOMAIN next = Seat /\ next = [s \in Seat |-> next[s]]
  BY DEF Revoked
<1>2. ASSUME NEW s \in Seat
      PROVE  /\ SeatSound(next[s], accounts, persons, held, gone)
             /\ next[s].user = u => ~next[s].live
  <2>1. SeatSound(seats[s], accounts, persons, held, gone)
    BY DEF AllSeats
  <2>2. next[s] = IF seats[s].user = u THEN [seats[s] EXCEPT !.live = FALSE] ELSE seats[s]
    BY DEF Revoked
  <2>3. [seats[s] EXCEPT !.live = FALSE] \in SeatState
    BY <2>1 DEF SeatSound, SeatState
  <2> HIDE DEF next
  <2> QED BY <2>1, <2>2, <2>3 DEF SeatSound, SeatState
<1> HIDE DEF next
<1>3. AllSeats(next, accounts, persons, held, gone)
  BY <1>1, <1>2 DEF AllSeats
<1> QED BY <1>2, <1>3 DEF next

(* What a new request has read is typed, and it is about a user.           *)
LEMMA ReadsIsRequest ==
    ASSUME IInv, NEW s \in Seat, NEW u \in User, NEW code \in 0 .. MaxCode,
           NEW kind \in {"login", "failure", "enable", "recovery"} \cup Verb, Reads(s, kind, u, code)
    PROVE  \E d \in Request :
              /\ d.kind = kind /\ d.who = u /\ d.code = code
              /\ d.lock = account[u].lock /\ d.secret = account[u].secret /\ d.admins = ActiveAdmins
              /\ seat' = [seat EXCEPT ![s] = [seat[s] EXCEPT !.doing = d]]
<1> DEFINE d == [kind |-> kind, who |-> u, password |-> account[u].password,
                 totp |-> account[u].enabled, lock |-> account[u].lock,
                 secret |-> account[u].secret, code |-> code, admins |-> ActiveAdmins]
<1>1. account[u] \in Account
  BY DEF IInv, People, UserSound
<1>2. ActiveAdmins \in SUBSET User
  BY DEF ActiveAdmins
<1>3. d \in Request
  <2> HIDE DEF ActiveAdmins
  <2> QED BY <1>1, <1>2 DEF Account, Request
<1>4. seat' = [seat EXCEPT ![s] = [seat[s] EXCEPT !.doing = d]]
  BY DEF Reads
<1> QED BY <1>3, <1>4

(* A seat that begins a request.                                           *)
LEMMA BusyIsSound ==
    ASSUME NEW st, NEW accounts, NEW persons, NEW held, NEW gone,
           SeatSound(st, accounts, persons, held, gone), NEW d \in Request,
           RequestSound(d, st.user, persons, gone)
    PROVE  SeatSound([st EXCEPT !.doing = d], accounts, persons, held, gone)
BY DEF SeatSound, SeatState

(* A request about one user's row, seen by the people.                     *)
LEMMA OneUser ==
    ASSUME People, NEW u \in User, NEW a, NEW p, UserSound(a, p),
           account' = [account EXCEPT ![u] = a], person' = [person EXCEPT ![u] = p],
           super' \in User \cup {NoUser}, asked' \in 0 .. MaxAsked, lost' \in BOOLEAN,
           banned' \subseteq User, \A v \in banned' : IF v = u THEN a.exists ELSE v \in banned
    PROVE  People'
BY DEF People

(* ... or about nobody's.                                                  *)
LEMMA SamePeople ==
    ASSUME People, UNCHANGED <<account, person, super, banned, lost>>, asked' \in 0 .. MaxAsked
    PROVE  People'
BY DEF People

(* An active administrator is left when the rows stay active.              *)
LEMMA AdminsStay ==
    ASSUME Administered, lost => lost', ActiveAdmins \subseteq ActiveAdmins'
    PROVE  Administered'
BY DEF Administered

(* A request that changes its seat only.                                   *)
LEMMA SeatOnly ==
    ASSUME IInv, NEW s \in Seat, NEW st, SeatSound(st, account, person, banned, lost),
           seat' = [seat EXCEPT ![s] = st], asked' \in 0 .. MaxAsked,
           UNCHANGED <<account, super, person, banned, lost>>
    PROVE  IInv'
<1>1. AllSeats(seat', account, person, banned, lost)
  BY OneSeat DEF IInv
<1>2. People' /\ Administered'
  BY SamePeople DEF IInv, Administered, ActiveAdmins
<1> QED BY <1>1, <1>2 DEF IInv

(* A new session is sound, whether its answer goes out or waits.           *)
LEMMA IssueKeepsSeats ==
    ASSUME IInv, NEW s \in Seat, NEW u \in User, NEW password \in 0 .. MaxPassword,
           NEW stepUp \in BOOLEAN, account[u].exists, Issue(s, u, password, stepUp)
    PROVE  AllSeats(seat', account, person, banned, lost)
<1> DEFINE missed == password # account[u].password \/ u \in banned
           opened == [AtLogin EXCEPT !.user = u, !.live = TRUE, !.under = password,
                                     !.missed = missed, !.stepUp = stepUp, !.shown = account[u].enabled]
           d == [NoRequest EXCEPT !.kind = "issued", !.who = u]
           st == IF account[u].single THEN [opened EXCEPT !.doing = d] ELSE [opened EXCEPT !.screen = "in"]
<1>1. account[u].enabled \in BOOLEAN /\ missed \in BOOLEAN /\ u # NoUser
  BY UserAssumption DEF IInv, People, UserSound, Account
<1>2. SeatSound(opened, account, person, banned, lost) /\ opened.user = u
  <2>1. opened \in SeatState /\ opened.doing = NoRequest
    <3> HIDE DEF missed
    <3> QED BY <1>1, Nothing DEF AtLogin, SeatState
  <2>2. opened.user = u /\ opened.live /\ opened.missed = missed /\ opened.under = password
    <3> HIDE DEF missed
    <3> QED BY DEF AtLogin
  <2> HIDE DEF opened
  <2> QED BY <1>1, <2>1, <2>2, Nothing DEF SeatSound, RequestSound
<1>3. d \in Request /\ d.kind = "issued" /\ d.who = u
  BY Nothing DEF NoRequest, Request, Step
<1>4. seat' = [seat EXCEPT ![s] = st]
  BY DEF Issue
<1> HIDE DEF opened, d
<1>5. CASE account[u].single
  <2>1. RequestSound(d, opened.user, person, lost)
    BY <1>2, <1>3 DEF RequestSound, Verb
  <2>2. SeatSound([opened EXCEPT !.doing = d], account, person, banned, lost)
    BY <1>2, <1>3, <2>1, BusyIsSound
  <2> QED BY <1>4, <1>5, <2>2, OneSeat DEF IInv
<1>6. CASE ~account[u].single
  <2>1. SeatSound([opened EXCEPT !.screen = "in"], account, person, banned, lost)
    BY <1>1, <1>2 DEF SeatSound, SeatState
  <2> QED BY <1>4, <1>6, <2>1, OneSeat DEF IInv
<1> QED BY <1>5, <1>6

---------------------------------------------------------------------------
(* Signing in.                                                             *)

(* A new account has nothing that others could hold.                       *)
LEMMA SignupKeeps ==
    ASSUME IInv, NEW s \in Seat, NEW u \in User, Signup(s, u)
    PROVE  IInv'
<1>1. PICK boot \in BOOLEAN, kept \in BOOLEAN :
         /\ account' = [account EXCEPT ![u] = [NewAccount EXCEPT !.admin = boot]]
         /\ super' = IF boot THEN u ELSE super
         /\ seat' = [seat EXCEPT ![s] =
                IF kept THEN [AtLogin EXCEPT !.user = u, !.live = TRUE] ELSE AtLogin]
  BY DEF Signup
<1>2. /\ ~account[u].exists /\ asked' \in 0 .. MaxAsked
      /\ UNCHANGED <<person, banned, lost>>
  BY TierAssumption DEF Signup, Asked, IInv, People
<1> DEFINE a == [NewAccount EXCEPT !.admin = boot]
           st == IF kept THEN [AtLogin EXCEPT !.user = u, !.live = TRUE] ELSE AtLogin
<1>3. a \in Account /\ a.exists /\ a.lock = "open" /\ a.codes = {} /\ ~a.enabled /\ a.password = 0
  BY Nothing DEF NewAccount, Account
<1> HIDE DEF a
<1>4. UserSound(a, person[u])
  BY <1>3 DEF UserSound, IInv, People
<1>5. u \notin banned
  BY <1>2 DEF IInv, People
<1>6. People'
  <2>1. person' = [person EXCEPT ![u] = person[u]]
    BY <1>2 DEF IInv, People
  <2> QED BY <1>1, <1>2, <1>4, <1>5, <2>1, OneUser DEF IInv, People, a
<1>7. account'[u] = a /\ \A v \in User \ {u} : account'[v] = account[v]
  BY <1>1 DEF IInv, People, a
<1>8. Steady
  BY <1>2, <1>7 DEF Steady
<1>9. SeatSound(st, account', person', banned', lost')
  <2>1. CASE st = AtLogin
    BY <2>1, AtLoginIsSound
  <2>2. CASE st = [AtLogin EXCEPT !.user = u, !.live = TRUE]
    <3>1. st \in SeatState /\ st.user = u /\ st.under = 0 /\ st.doing = NoRequest
      BY <2>2, Nothing DEF AtLogin, SeatState
    <3> HIDE DEF st
    <3> QED BY <1>2, <1>3, <1>5, <1>7, <3>1, Nothing, UserAssumption DEF SeatSound, RequestSound
  <2> QED BY <2>1, <2>2
<1>10. AllSeats(seat', account', person', banned', lost')
  <2>1. AllSeats(seat, account', person', banned', lost')
    BY <1>8, SteadyKeepsSeats DEF IInv
  <2>2. seat' = [seat EXCEPT ![s] = st]
    BY <1>1
  <2> HIDE DEF st
  <2> QED BY <1>9, <2>1, <2>2, OneSeat
<1>11. Administered'
  <2>1. ActiveAdmins \subseteq ActiveAdmins'
    BY <1>2, <1>7 DEF ActiveAdmins
  <2> QED BY <1>2, <2>1, AdminsStay DEF IInv
<1> QED BY <1>6, <1>10, <1>11 DEF IInv

(* The requests of a seat that read, and the clicks that send none.        *)
LEMMA SmallEntryKeeps ==
    ASSUME IInv, NEW s \in Seat,
           \/ RefreshSession(s) \/ Logout(s) \/ CancelMFA(s) \/ FiveMinutesPass(s) \/ CloseSetup(s)
           \/ \E kind \in {"login", "failure"}, u \in User : LoginBegin(s, kind, u)
    PROVE  IInv'
<1>1. SeatSound(seat[s], account, person, banned, lost) /\ asked \in 0 .. MaxAsked
  BY DEF IInv, AllSeats, People
<1>2. ASSUME Asked PROVE asked' \in 0 .. MaxAsked
  BY <1>1, <1>2, TierAssumption DEF Asked
<1>3. CASE RefreshSession(s)
  <2> DEFINE st == IF Authenticated(s)
                   THEN [seat[s] EXCEPT !.screen = "in", !.shown = account[seat[s].user].enabled]
                   ELSE AtLogin
  <2>1. SeatSound(st, account, person, banned, lost)
    <3>1. CASE ~Authenticated(s)
      BY <3>1, AtLoginIsSound
    <3>2. CASE Authenticated(s)
      <4>1. seat[s].live /\ seat[s].user \in User
        BY <1>1, <3>2 DEF Authenticated, SeatSound, SeatState
      <4>2. account[seat[s].user].enabled \in BOOLEAN
        BY <4>1 DEF IInv, People, UserSound, Account
      <4>3. st = [seat[s] EXCEPT !.screen = "in", !.shown = account[seat[s].user].enabled]
        BY <3>2
      <4> HIDE DEF st
      <4> QED BY <1>1, <4>1, <4>2, <4>3, UserAssumption DEF SeatSound, SeatState
    <3> QED BY <3>1, <3>2
  <2>2. /\ seat' = [seat EXCEPT ![s] = st] /\ asked' \in 0 .. MaxAsked
        /\ UNCHANGED <<account, super, person, banned, lost>>
    BY <1>1, <1>3 DEF RefreshSession
  <2> HIDE DEF st
  <2> QED BY <2>1, <2>2, SeatOnly
<1>4. CASE Logout(s) \/ CancelMFA(s)
  <2>1. /\ seat' = [seat EXCEPT ![s] = AtLogin] /\ asked' \in 0 .. MaxAsked
        /\ UNCHANGED <<account, super, person, banned, lost>>
    BY <1>1, <1>4 DEF Logout, CancelMFA
  <2> QED BY <2>1, AtLoginIsSound, SeatOnly
<1>5. CASE FiveMinutesPass(s)
  <2> DEFINE st == [seat[s] EXCEPT !.challenge = FALSE, !.stepUp = FALSE]
  <2>1. SeatSound(st, account, person, banned, lost)
    BY <1>1 DEF SeatSound, SeatState
  <2>2. /\ seat' = [seat EXCEPT ![s] = st] /\ asked' \in 0 .. MaxAsked
        /\ UNCHANGED <<account, super, person, banned, lost>>
    BY <1>1, <1>5 DEF FiveMinutesPass, IInv, AllSeats
  <2> HIDE DEF st
  <2> QED BY <2>1, <2>2, SeatOnly
<1>6. CASE CloseSetup(s)
  <2> DEFINE st == [seat[s] EXCEPT !.modal = "closed"]
  <2>1. SeatSound(st, account, person, banned, lost)
    BY <1>1 DEF SeatSound, SeatState
  <2>2. /\ seat' = [seat EXCEPT ![s] = st] /\ asked' \in 0 .. MaxAsked
        /\ UNCHANGED <<account, super, person, banned, lost>>
    BY <1>1, <1>6 DEF CloseSetup
  <2> HIDE DEF st
  <2> QED BY <2>1, <2>2, SeatOnly
<1>7. ASSUME NEW kind \in {"login", "failure"}, NEW u \in User, LoginBegin(s, kind, u) PROVE IInv'
  <2>1. /\ Reads(s, kind, u, 0) /\ account[u].lock = "open" /\ asked' \in 0 .. MaxAsked
        /\ UNCHANGED <<account, super, person, banned, lost>>
    BY <1>2, <1>7 DEF LoginBegin
  <2>2. PICK d \in Request :
           /\ d.kind = kind /\ d.who = u /\ d.lock = account[u].lock
           /\ seat' = [seat EXCEPT ![s] = [seat[s] EXCEPT !.doing = d]]
    BY <2>1, Nothing, ReadsIsRequest
  <2>3. RequestSound(d, seat[s].user, person, lost)
    BY <2>1, <2>2 DEF RequestSound
  <2> QED BY <1>1, <2>1, <2>2, <2>3, BusyIsSound, SeatOnly
<1> QED BY <1>3, <1>4, <1>5, <1>6, <1>7

(* A write to one row that leaves account and password, and what the       *)
(* person learns by it.                                                    *)
LEMMA OneRow ==
    ASSUME IInv, NEW u \in User, NEW a, NEW p, UserSound(a, p),
           a.exists = account[u].exists, a.password = account[u].password,
           person[u].accepted \subseteq p.accepted, 1 .. person[u].minted \subseteq 1 .. p.minted,
           account' = [account EXCEPT ![u] = a], person' = [person EXCEPT ![u] = p],
           super' = super, asked' \in 0 .. MaxAsked, banned' \subseteq banned,
           lost' \in BOOLEAN, lost => lost'
    PROVE  /\ People' /\ Steady
           /\ account'[u] = a /\ \A v \in User \ {u} : account'[v] = account[v]
<1>1. account'[u] = a /\ \A v \in User \ {u} : account'[v] = account[v]
  BY DEF IInv, People
<1>2. person'[u] = p /\ \A v \in User \ {u} : person'[v] = person[v]
  BY DEF IInv, People
<1>3. Steady
  BY <1>1, <1>2 DEF Steady
<1>4. People'
  <2>1. \A v \in banned' : IF v = u THEN a.exists ELSE v \in banned
    BY DEF IInv, People
  <2>2. banned' \subseteq User /\ super' \in User \cup {NoUser}
    BY DEF IInv, People
  <2> QED BY <2>1, <2>2, OneUser DEF IInv
<1> QED BY <1>1, <1>3, <1>4

(* The parts of an account that a lemma names.                             *)
LEMMA RowOf ==
    ASSUME IInv, NEW u \in User
    PROVE  /\ UserSound(account[u], person[u])
           /\ account[u] \in Account /\ person[u] \in Person
           /\ person = [person EXCEPT ![u] = person[u]] /\ account = [account EXCEPT ![u] = account[u]]
           /\ asked \in 0 .. MaxAsked /\ (Asked => asked' \in 0 .. MaxAsked)
           /\ super \in User \cup {NoUser} /\ banned \subseteq User /\ lost \in BOOLEAN
<1>1. UserSound(account[u], person[u]) /\ account[u] \in Account /\ person[u] \in Person
  BY DEF IInv, People, UserSound
<1>2. person = [person EXCEPT ![u] = person[u]] /\ account = [account EXCEPT ![u] = account[u]]
  BY DEF IInv, People
<1>3. asked \in 0 .. MaxAsked /\ (Asked => asked' \in 0 .. MaxAsked)
  BY TierAssumption DEF IInv, People, Asked
<1> QED BY <1>1, <1>2, <1>3 DEF IInv, People

(* A write to one row that demotes nobody.                                 *)
LEMMA QuietRow ==
    ASSUME IInv, NEW u \in User, NEW a, UserSound(a, person[u]),
           a.exists = account[u].exists, a.password = account[u].password,
           account[u].lock = "open" /\ account[u].admin => a.lock = "open" /\ a.admin,
           account' = [account EXCEPT ![u] = a],
           UNCHANGED <<person, super, lost>>, asked' \in 0 .. MaxAsked, banned' \subseteq banned
    PROVE  People' /\ Steady /\ Administered'
<1>1. person' = [person EXCEPT ![u] = person[u]] /\ lost' \in BOOLEAN /\ (lost => lost')
  BY RowOf
<1>2. /\ People' /\ Steady /\ account'[u] = a
      /\ \A v \in User \ {u} : account'[v] = account[v]
  BY <1>1, OneRow
<1>3. ActiveAdmins \subseteq ActiveAdmins'
  BY <1>2 DEF ActiveAdmins
<1> QED BY <1>1, <1>2, <1>3, AdminsStay DEF IInv

(* The request a seat is busy with is sound.                               *)
LEMMA SeatOf ==
    ASSUME IInv, NEW s \in Seat
    PROVE  /\ SeatSound(seat[s], account, person, banned, lost)
           /\ seat[s] \in SeatState /\ seat[s].doing \in Request
           /\ RequestSound(seat[s].doing, seat[s].user, person, lost)
           /\ seat[s].doing.kind # "none" => seat[s].doing.who \in User
           /\ seat[s].user \in User \cup {NoUser}
BY DEF IInv, AllSeats, SeatSound, SeatState, RequestSound

(* Failed attempts are forgotten.                                          *)
LEMMA PassesKeeps ==
    ASSUME IInv, NEW u \in User, HourPasses(u) \/ DayPasses(u)
    PROVE  IInv'
<1>1. PICK a \in {[account[u] EXCEPT !.recent = 0], [account[u] EXCEPT !.recent = 0, !.day = 0]} :
         account' = [account EXCEPT ![u] = a]
  BY DEF HourPasses, DayPasses
<1>2. UNCHANGED <<super, person, seat, asked, banned, lost>>
  BY DEF HourPasses, DayPasses
<1>3. /\ UserSound(a, person[u]) /\ a.exists = account[u].exists /\ a.password = account[u].password
      /\ a.lock = account[u].lock /\ a.admin = account[u].admin
  BY Nothing, RowOf DEF UserSound, Account
<1>4. People' /\ Steady /\ Administered'
  <2>1. asked' \in 0 .. MaxAsked
    BY <1>2, RowOf
  <2> QED BY <1>1, <1>2, <1>3, <2>1, QuietRow
<1> QED BY <1>2, <1>4, SteadyKeepsSeats DEF IInv

(* The password was right.                                                 *)
LEMMA LoginEndKeeps ==
    ASSUME IInv, NEW s \in Seat, LoginEnd(s)
    PROVE  IInv'
<1> DEFINE d == seat[s].doing
           u == d.who
           a == IF account[u].exists THEN [account[u] EXCEPT !.recent = 0, !.day = 0] ELSE account[u]
<1>1. d.kind = "login" /\ UNCHANGED <<super, person, asked, banned, lost>>
  BY DEF LoginEnd
<1>2. u \in User /\ d.password \in 0 .. MaxPassword /\ u # NoUser
  BY <1>1, SeatOf, UserAssumption DEF Request
<1>3. account' = [account EXCEPT ![u] = a]
  BY <1>2, RowOf DEF LoginEnd
<1>4. /\ UserSound(a, person[u]) /\ a.exists = account[u].exists /\ a.password = account[u].password
      /\ a.lock = account[u].lock /\ a.admin = account[u].admin
  <2>1. UserSound(account[u], person[u])
    BY <1>2, RowOf
  <2>2. CASE account[u].exists
    BY <2>1, <2>2, Nothing DEF UserSound, Account
  <2> QED BY <2>1, <2>2
<1> HIDE DEF a
<1>5. People' /\ Steady /\ Administered'
  <2>1. asked' \in 0 .. MaxAsked
    BY <1>1, <1>2, RowOf
  <2> HIDE DEF u
  <2> QED BY <1>1, <1>2, <1>3, <1>4, <2>1, QuietRow
<1>6. AllSeats(seat', account, person, banned, lost)
  <2>1. CASE ~account[u].exists
    <3>1. seat' = [seat EXCEPT ![s] = Done(seat[s])]
      BY <2>1 DEF LoginEnd
    <3> QED BY <3>1, SeatOf, DoneIsSound, OneSeat DEF IInv
  <2>2. CASE account[u].exists /\ d.totp
    <3> DEFINE st == [AtLogin EXCEPT !.user = u, !.screen = "mfa", !.challenge = TRUE, !.under = d.password]
    <3>1. seat' = [seat EXCEPT ![s] = st]
      BY <2>2 DEF LoginEnd
    <3>2. st \in SeatState /\ st.user = u /\ ~st.live /\ st.doing = NoRequest
      BY <1>2, Nothing DEF AtLogin, SeatState
    <3> HIDE DEF st
    <3>3. SeatSound(st, account, person, banned, lost)
      BY <1>2, <2>2, <3>2, Nothing DEF SeatSound, RequestSound
    <3> QED BY <3>1, <3>3, OneSeat DEF IInv
  <2>3. CASE account[u].exists /\ ~d.totp
    <3>1. Issue(s, u, d.password, FALSE)
      BY <2>3 DEF LoginEnd
    <3> QED BY <1>2, <2>3, <3>1, IssueKeepsSeats
  <2> QED BY <2>1, <2>2, <2>3
<1> QED BY <1>5, <1>6, SteadyKeepsSeats DEF IInv

(* The password was wrong: the last active administrator may lock itself   *)
(* out, which "lost" records.                                              *)
LEMMA FailureEndKeeps ==
    ASSUME IInv, NEW s \in Seat, FailureEnd(s)
    PROVE  IInv'
<1> DEFINE d == seat[s].doing
           u == d.who
           failed == [account[u] EXCEPT !.recent = IF @ < Tier1 THEN @ + 1 ELSE @,
                                        !.day = IF @ < Tier2 THEN @ + 1 ELSE @]
           locked == Escalated(failed)
           a == IF account[u].exists THEN [failed EXCEPT !.lock = locked] ELSE account[u]
<1>1. /\ d.kind = "failure" /\ UNCHANGED <<super, person, asked>>
      /\ seat' = [seat EXCEPT ![s] = Done(seat[s])]
  BY DEF FailureEnd
<1>2. u \in User
  BY <1>1, SeatOf
<1>3. account' = [account EXCEPT ![u] = a]
  BY <1>2, RowOf DEF FailureEnd
<1>4. failed \in Account /\ failed.exists = account[u].exists /\ failed.password = account[u].password
      /\ failed.codes = account[u].codes /\ failed.enabled = account[u].enabled
      /\ failed.secret = account[u].secret /\ failed.admin = account[u].admin /\ failed.lock = account[u].lock
  <2>1. account[u].recent \in 0 .. Tier1 /\ account[u].day \in 0 .. Tier2
    BY <1>2, RowOf DEF Account
  <2> DEFINE recent == IF account[u].recent < Tier1 THEN account[u].recent + 1 ELSE account[u].recent
             day == IF account[u].day < Tier2 THEN account[u].day + 1 ELSE account[u].day
  <2>2. recent \in 0 .. Tier1 /\ day \in 0 .. Tier2
    BY <2>1, TierAssumption
  <2>3. account[u] \in Account
    BY <1>2, RowOf
  <2>4. failed = [account[u] EXCEPT !.recent = recent, !.day = day]
    OBVIOUS
  <2> HIDE DEF recent, day, failed, u
  <2> QED BY <2>2, <2>3, <2>4 DEF Account
<1>5. locked \in {"open", "reset", "permanent"}
  <2> HIDE DEF failed
  <2> QED BY <1>4 DEF Escalated, Account
<1> HIDE DEF failed, locked
<1>6. UserSound(a, person[u]) /\ a.exists = account[u].exists /\ a.password = account[u].password
  <2>1. UserSound(account[u], person[u])
    BY <1>2, RowOf
  <2>2. CASE account[u].exists
    <3>1. a = [failed EXCEPT !.lock = locked]
      BY <2>2
    <3> HIDE DEF a, u
    <3> QED BY <1>4, <1>5, <2>1, <2>2, <3>1 DEF UserSound, Account
  <2> QED BY <2>1, <2>2
<1>7. /\ lost' = IF account[u].exists THEN lost \/ (ActiveAdmins = {u} /\ locked # "open") ELSE lost
      /\ banned' \subseteq banned
  BY DEF FailureEnd, locked, failed
<1>8. lost' \in BOOLEAN /\ (lost => lost')
  BY <1>2, <1>7, RowOf
<1> HIDE DEF a
<1>9. People' /\ Steady /\ account'[u] = a /\ \A v \in User \ {u} : account'[v] = account[v]
  <2>1. person' = [person EXCEPT ![u] = person[u]] /\ asked' \in 0 .. MaxAsked
    BY <1>1, <1>2, RowOf
  <2> HIDE DEF u
  <2> QED BY <1>1, <1>2, <1>3, <1>6, <1>7, <1>8, <2>1, OneRow
<1>10. Administered'
  <2>1. CASE ActiveAdmins = {u} /\ account[u].exists /\ locked # "open"
    BY <1>7, <2>1 DEF Administered
  <2>2. CASE ActiveAdmins # {u} /\ ActiveAdmins # {}
    <3>1. PICK v \in ActiveAdmins : v # u
      BY <2>2
    <3>2. v \in ActiveAdmins'
      BY <1>9, <3>1 DEF ActiveAdmins
    <3> QED BY <3>2 DEF Administered
  <2>3. CASE ActiveAdmins = {}
    BY <1>8, <2>3 DEF IInv, Administered
  <2>4. CASE ActiveAdmins = {u} /\ ~(account[u].exists /\ locked # "open")
    <3>1. account[u].exists /\ account[u].admin /\ locked = "open"
      BY <2>4 DEF ActiveAdmins
    <3>2. a.exists /\ a.admin /\ a.lock = "open"
      BY <1>4, <1>5, <3>1 DEF a, Account
    <3>3. u \in ActiveAdmins'
      BY <1>2, <1>9, <3>2 DEF ActiveAdmins
    <3> QED BY <3>3 DEF Administered
  <2> QED BY <2>1, <2>2, <2>3, <2>4
<1>11. AllSeats(seat', account, person, banned, lost)
  BY <1>1, SeatOf, DoneIsSound, OneSeat DEF IInv
<1> QED BY <1>9, <1>10, <1>11, SteadyKeepsSeats DEF IInv

---------------------------------------------------------------------------
(* The second factor.                                                      *)

(* A code of the authenticator: a session, or the challenge is gone.       *)
LEMMA TotpVerifyKeeps ==
    ASSUME IInv, NEW s \in Seat, NEW right \in BOOLEAN, TotpVerify(s, right)
    PROVE  IInv'
<1> DEFINE u == seat[s].user
           st == [seat[s] EXCEPT !.challenge = FALSE]
<1>1. SeatSound(seat[s], account, person, banned, lost)
  BY SeatOf
<1>2. /\ UNCHANGED <<account, super, person, banned, lost>> /\ asked' \in 0 .. MaxAsked
      /\ seat[s].screen = "mfa"
  <2>1. Asked => asked' \in 0 .. MaxAsked
    BY TierAssumption DEF Asked, IInv, People
  <2> QED BY <2>1 DEF TotpVerify, Challenged
<1>3. CASE seat' = [seat EXCEPT ![s].challenge = FALSE]
  <2>1. SeatSound(st, account, person, banned, lost)
    BY <1>1 DEF SeatSound, SeatState
  <2>2. seat' = [seat EXCEPT ![s] = st]
    BY <1>3
  <2> HIDE DEF st
  <2> QED BY <1>2, <2>1, <2>2, SeatOnly
<1>4. CASE seat[s].challenge /\ Issue(s, u, seat[s].under, TRUE)
  <2>1. u \in User /\ account[u].exists /\ seat[s].under \in 0 .. MaxPassword
    BY <1>1, <1>2, <1>4 DEF SeatSound, SeatState
  <2> HIDE DEF u
  <2>2. AllSeats(seat', account, person, banned, lost)
    BY <1>4, <2>1, IssueKeepsSeats
  <2>3. People' /\ Administered'
    BY <1>2, SamePeople DEF IInv, Administered, ActiveAdmins
  <2> QED BY <1>2, <2>2, <2>3 DEF IInv
<1> QED BY <1>3, <1>4 DEF TotpVerify

(* A check of a recovery code finds none that was taken, so "again" stays  *)
(* empty.                                                                  *)
LEMMA CodeBeginKeeps ==
    ASSUME IInv, NEW s \in Seat, seat[s].user \in User, CodeBegin(s), asked' \in 0 .. MaxAsked,
           UNCHANGED <<account, super, banned, lost>>
    PROVE  IInv'
<1> DEFINE u == seat[s].user
           c == person[u].saved
<1>1. UserSound(account[u], person[u]) /\ SeatSound(seat[s], account, person, banned, lost)
  BY RowOf, SeatOf
<1>2. c \in account[u].codes /\ c \notin person[u].spent /\ c \in 1 .. person[u].minted /\ c \in 0 .. MaxCode
  BY <1>1 DEF CodeBegin, UserSound, Person
<1>3. person' = person /\ Reads(s, "recovery", u, c)
  BY <1>2 DEF CodeBegin
<1> HIDE DEF c
<1>4. PICK d \in Request :
         /\ d.kind = "recovery" /\ d.who = u /\ d.code = c
         /\ seat' = [seat EXCEPT ![s] = [seat[s] EXCEPT !.doing = d]]
  BY <1>2, <1>3, ReadsIsRequest
<1>5. RequestSound(d, seat[s].user, person, lost)
  BY <1>2, <1>4 DEF RequestSound
<1> QED BY <1>1, <1>3, <1>4, <1>5, BusyIsSound, SeatOnly

(* Both checks of a recovery code.                                         *)
LEMMA RecoveryBeginKeeps ==
    ASSUME IInv, NEW s \in Seat, RecoveryBegin(s) \/ DisableByCodeBegin(s)
    PROVE  IInv'
<1>1. SeatSound(seat[s], account, person, banned, lost) /\ (Asked => asked' \in 0 .. MaxAsked)
  BY SeatOf, TierAssumption DEF Asked, IInv, People
<1>2. seat[s].user \in User
  BY <1>1 DEF RecoveryBegin, DisableByCodeBegin, Challenged, Panel, Authenticated, SeatSound, SeatState
<1> QED BY <1>1, <1>2, CodeBeginKeeps DEF RecoveryBegin, DisableByCodeBegin

(* The code that was checked is taken: it is in no account's codes.        *)
LEMMA RecoveryEndKeeps ==
    ASSUME IInv, NEW s \in Seat, RecoveryEnd(s)
    PROVE  IInv'
<1> DEFINE u == seat[s].user
           d == seat[s].doing
           p == [person[u] EXCEPT !.spent = @ \cup {d.code}]
           a == IF ~account[u].exists THEN account[u]
                ELSE IF seat[s].screen = "mfa" THEN Spent(account[u], d.code)
                ELSE NoSecondFactor(account[u])
<1>1. /\ SeatSound(seat[s], account, person, banned, lost) /\ d.kind = "recovery"
      /\ UNCHANGED <<super, asked, banned, lost>>
  BY SeatOf DEF RecoveryEnd
<1>2. u \in User /\ d.code \in 1 .. person[u].minted /\ d \in Request
  BY <1>1 DEF SeatSound, SeatState, RequestSound
<1>3. UserSound(account[u], person[u]) /\ asked \in 0 .. MaxAsked /\ lost \in BOOLEAN
  BY <1>2, RowOf
<1>4. d.code \in 1 .. MaxCode
  BY <1>2, <1>3, TierAssumption DEF UserSound, Person
<1>5. /\ p \in Person /\ p.spent = person[u].spent \cup {d.code} /\ p.accepted = person[u].accepted
      /\ p.resetup = person[u].resetup /\ p.again = person[u].again /\ p.minted = person[u].minted
  <2>1. person[u].spent \cup {d.code} \in SUBSET (1 .. MaxCode)
    BY <1>3, <1>4 DEF UserSound, Person
  <2> HIDE DEF d, u
  <2> QED BY <1>3, <2>1 DEF UserSound, Person
<1>6. /\ a \in Account /\ a.exists = account[u].exists /\ a.password = account[u].password
      /\ a.lock = account[u].lock /\ a.admin = account[u].admin
      /\ a.codes \subseteq account[u].codes \ {d.code}
      /\ a.enabled => account[u].enabled /\ a.secret = account[u].secret
  <2>1. account[u].codes \ {d.code} \in SUBSET (1 .. MaxCode)
    BY <1>3 DEF UserSound, Account
  <2>2. CASE ~account[u].exists
    BY <1>3, <2>2 DEF UserSound
  <2>3. CASE account[u].exists /\ seat[s].screen = "mfa"
    <3>1. a = [account[u] EXCEPT !.codes = account[u].codes \ {d.code}]
      BY <2>3 DEF Spent
    <3> HIDE DEF a, u, d
    <3> QED BY <1>3, <2>1, <3>1 DEF UserSound, Account
  <2>4. CASE account[u].exists /\ seat[s].screen # "mfa"
    <3>1. a = [account[u] EXCEPT !.secret = 0, !.enabled = FALSE, !.codes = {}]
      BY <2>4 DEF NoSecondFactor
    <3> HIDE DEF a, u, d
    <3> QED BY <1>3, <3>1, Nothing DEF UserSound, Account
  <2> QED BY <2>2, <2>3, <2>4
<1>7. UserSound(a, p)
  <2> HIDE DEF a, p, u, d
  <2> QED BY <1>2, <1>3, <1>5, <1>6 DEF UserSound
<1>8. account' = [account EXCEPT ![u] = a] /\ person' = [person EXCEPT ![u] = p]
  <2>1. account = [account EXCEPT ![u] = account[u]]
    BY DEF IInv, People
  <2> QED BY <2>1 DEF RecoveryEnd
<1>9. /\ People' /\ Steady /\ account'[u] = a
      /\ \A v \in User \ {u} : account'[v] = account[v]
  <2>1. /\ person[u].accepted \subseteq p.accepted /\ 1 .. person[u].minted \subseteq 1 .. p.minted
        /\ super' = super /\ asked' \in 0 .. MaxAsked /\ banned' \subseteq banned
        /\ lost' \in BOOLEAN /\ (lost => lost')
    BY <1>1, <1>3, <1>5
  <2> HIDE DEF a, p, u, d
  <2> QED BY <1>2, <1>6, <1>7, <1>8, <2>1, OneRow
<1>10. Administered'
  <2>1. ActiveAdmins \subseteq ActiveAdmins'
    <3> HIDE DEF a, u
    <3> QED BY <1>2, <1>6, <1>9 DEF ActiveAdmins
  <2> QED BY <1>1, <2>1, AdminsStay DEF IInv
<1>11. AllSeats(seat', account, person, banned, lost)
  <2>1. CASE ~account[u].exists
    <3> DEFINE st == [seat[s] EXCEPT !.challenge = FALSE]
    <3>1. SeatSound(st, account, person, banned, lost)
      BY <1>1 DEF SeatSound, SeatState
    <3>2. seat' = [seat EXCEPT ![s] = Done(st)]
      BY <2>1 DEF RecoveryEnd
    <3> HIDE DEF st
    <3> QED BY <3>1, <3>2, DoneIsSound, OneSeat DEF IInv
  <2>2. CASE account[u].exists /\ seat[s].screen = "mfa"
    <3>1. Issue(s, u, seat[s].under, TRUE) /\ seat[s].under \in 0 .. MaxPassword
      BY <1>1, <2>2 DEF RecoveryEnd, SeatSound, SeatState
    <3> QED BY <1>2, <2>2, <3>1, IssueKeepsSeats
  <2>3. CASE account[u].exists /\ seat[s].screen # "mfa"
    <3> DEFINE st == Done(seat[s])
    <3>1. SeatSound(st, account, person, banned, lost)
      BY <1>1, DoneIsSound
    <3>2. seat' = [seat EXCEPT ![s] = [st EXCEPT !.shown = FALSE]]
      BY <2>3 DEF RecoveryEnd
    <3> HIDE DEF st
    <3>3. SeatSound([st EXCEPT !.shown = FALSE], account, person, banned, lost)
      BY <3>1 DEF SeatSound, SeatState
    <3> QED BY <3>2, <3>3, OneSeat DEF IInv
  <2> QED BY <2>1, <2>2, <2>3
<1> QED BY <1>9, <1>10, <1>11, SteadyKeepsSeats DEF IInv

(* The sessions of the other seats end, or the error is ignored.           *)
LEMMA LastWinsKeeps ==
    ASSUME IInv, NEW s \in Seat, LastWins(s)
    PROVE  IInv'
<1> DEFINE d == seat[s].doing
           done == Done(seat[s])
           in == [done EXCEPT !.screen = "in"]
           rest == Revoked(seat, d.who)
<1>1. /\ d.kind = "issued" /\ UNCHANGED <<account, super, person, banned, lost>>
      /\ SeatSound(seat[s], account, person, banned, lost)
  BY SeatOf DEF LastWins
<1>2. SeatSound(in, account, person, banned, lost)
  <2>1. SeatSound(done, account, person, banned, lost)
    BY <1>1, DoneIsSound
  <2>2. done.user \in User
    BY <1>1 DEF SeatSound, SeatState, RequestSound, Done
  <2> HIDE DEF done
  <2> QED BY <2>1, <2>2, UserAssumption DEF SeatSound, SeatState
<1>3. asked' \in 0 .. MaxAsked
  BY TierAssumption DEF LastWins, Asked, IInv, People
<1> HIDE DEF in
<1>4. CASE seat' = [rest EXCEPT ![s] = in]
  <2>1. AllSeats(rest, account, person, banned, lost)
    BY RevokedSeats DEF IInv
  <2> HIDE DEF rest
  <2>2. AllSeats(seat', account, person, banned, lost)
    BY <1>2, <1>4, <2>1, OneSeat
  <2>3. People' /\ Administered'
    BY <1>1, <1>3, SamePeople DEF IInv, Administered, ActiveAdmins
  <2> QED BY <1>1, <2>2, <2>3 DEF IInv
<1>5. CASE seat' = [seat EXCEPT ![s] = in]
  BY <1>1, <1>2, <1>3, <1>5, SeatOnly
<1> QED BY <1>4, <1>5 DEF LastWins, in

(* A person in the security panel is a user, signed in.                    *)
LEMMA PanelUser ==
    ASSUME IInv, NEW s \in Seat, Panel(s)
    PROVE  /\ seat[s].user \in User /\ account[seat[s].user].exists /\ seat[s].user # NoUser
           /\ SeatSound(seat[s], account, person, banned, lost)
           /\ UserSound(account[seat[s].user], person[seat[s].user])
<1>1. SeatSound(seat[s], account, person, banned, lost) /\ seat[s].live
  BY SeatOf DEF Panel, Authenticated
<1>2. seat[s].user \in User /\ account[seat[s].user].exists /\ seat[s].user # NoUser
  BY <1>1 DEF SeatSound, SeatState
<1> QED BY <1>1, <1>2, RowOf

(* A set-up past an enabled secret is noted.                               *)
LEMMA OpenSetupKeeps ==
    ASSUME IInv, NEW s \in Seat, OpenSetup(s)
    PROVE  IInv'
<1> DEFINE u == seat[s].user
           secret == person[u].made + 1
           again == person[u].resetup \/ account[u].enabled
           a == [account[u] EXCEPT !.secret = secret]
           p == [person[u] EXCEPT !.made = secret, !.resetup = again]
           st == [seat[s] EXCEPT !.modal = "setup", !.qr = secret]
<1>1. /\ Panel(s) /\ person[u].made < MaxSecret /\ UNCHANGED <<super, banned, lost>>
      /\ account' = [account EXCEPT ![u] = a]
      /\ person' = [person EXCEPT ![u] = p]
      /\ seat' = [seat EXCEPT ![s] = st]
  <2>1. /\ account' = [account EXCEPT ![u].secret = secret]
        /\ person' = [person EXCEPT ![u].made = secret, ![u].resetup = @ \/ account[u].enabled]
        /\ seat' = [seat EXCEPT ![s].modal = "setup", ![s].qr = secret]
    BY DEF OpenSetup
  <2>2. account' = [account EXCEPT ![u] = a] /\ seat' = [seat EXCEPT ![s] = st]
    BY <2>1 DEF IInv, People, AllSeats
  <2>3. person' = [person EXCEPT ![u] = p]
    BY <2>1, PanelUser DEF IInv, People, OpenSetup
  <2> QED BY <2>2, <2>3 DEF OpenSetup
<1>2. /\ u \in User /\ UserSound(account[u], person[u]) /\ u # NoUser
      /\ SeatSound(seat[s], account, person, banned, lost)
  BY <1>1, PanelUser
<1>3. asked' \in 0 .. MaxAsked /\ lost \in BOOLEAN
  BY <1>2, RowOf DEF OpenSetup
<1>4. secret \in 0 .. MaxSecret /\ again \in BOOLEAN
  BY <1>1, <1>2, TierAssumption DEF UserSound, Person
<1>5. UserSound(a, p) /\ a.exists = account[u].exists /\ a.password = account[u].password
      /\ a.lock = account[u].lock /\ a.admin = account[u].admin
      /\ p.accepted = person[u].accepted /\ p.minted = person[u].minted
  <2>1. again = (person[u].resetup \/ account[u].enabled)
    OBVIOUS
  <2> HIDE DEF u, secret, again
  <2> QED BY <1>2, <1>4, <2>1 DEF UserSound, Account, Person
<1>6. /\ People' /\ Steady /\ account'[u] = a
      /\ \A v \in User \ {u} : account'[v] = account[v]
  <2>1. /\ person[u].accepted \subseteq p.accepted /\ 1 .. person[u].minted \subseteq 1 .. p.minted
        /\ super' = super /\ banned' \subseteq banned
        /\ lost' \in BOOLEAN /\ (lost => lost')
    BY <1>1, <1>3, <1>5
  <2> HIDE DEF a, p, u
  <2> QED BY <1>1, <1>2, <1>3, <1>5, <2>1, OneRow
<1>7. Administered'
  <2>1. ActiveAdmins \subseteq ActiveAdmins'
    <3> HIDE DEF a, u
    <3> QED BY <1>2, <1>5, <1>6 DEF ActiveAdmins
  <2> QED BY <1>1, <2>1, AdminsStay DEF IInv
<1>8. SeatSound(st, account, person, banned, lost)
  <2> HIDE DEF secret, u
  <2>1. seat[s].user # NoUser
    BY <1>2 DEF u
  <2> QED BY <1>2, <1>4, <2>1 DEF SeatSound, SeatState
<1>9. AllSeats(seat', account, person, banned, lost)
  <2> HIDE DEF st
  <2> QED BY <1>1, <1>8, OneSeat DEF IInv
<1> QED BY <1>6, <1>7, <1>9, SteadyKeepsSeats DEF IInv

(* The code on show is taken from the person, and its secret is the one    *)
(* the request will switch on.                                             *)
LEMMA EnableBeginKeeps ==
    ASSUME IInv, NEW s \in Seat, EnableBegin(s)
    PROVE  IInv'
<1> DEFINE u == seat[s].user
           p == [person[u] EXCEPT !.accepted = @ \cup {seat[s].qr}]
<1>1. /\ Panel(s) /\ UNCHANGED <<account, super, banned, lost>>
      /\ account[u].secret # 0 /\ seat[s].qr = account[u].secret
      /\ person' = [person EXCEPT ![u] = p]
      /\ Reads(s, "enable", u, 0)
  BY DEF EnableBegin, CodeMatches
<1>2. /\ u \in User /\ UserSound(account[u], person[u])
      /\ SeatSound(seat[s], account, person, banned, lost)
  BY <1>1, PanelUser
<1>3. asked' \in 0 .. MaxAsked /\ lost \in BOOLEAN
  BY <1>2, RowOf DEF EnableBegin
<1>4. /\ UserSound(account[u], p) /\ p.minted = person[u].minted
      /\ p.accepted = person[u].accepted \cup {account[u].secret}
  <2>1. account[u].secret \in 1 .. MaxSecret
    BY <1>1, <1>2, TierAssumption DEF UserSound, Account
  <2>2. p = [person[u] EXCEPT !.accepted = person[u].accepted \cup {account[u].secret}]
    BY <1>1
  <2> HIDE DEF p, u
  <2> QED BY <1>2, <2>1, <2>2 DEF UserSound, Person
<1>5. People' /\ Steady
  <2>1. /\ person[u].accepted \subseteq p.accepted /\ 1 .. person[u].minted \subseteq 1 .. p.minted
        /\ super' = super /\ banned' \subseteq banned
        /\ lost' \in BOOLEAN /\ (lost => lost')
        /\ account' = [account EXCEPT ![u] = account[u]]
    BY <1>1, <1>2, <1>3, <1>4, RowOf
  <2> HIDE DEF p, u
  <2> QED BY <1>1, <1>2, <1>3, <1>4, <2>1, OneRow
<1>6. Administered'
  BY <1>1 DEF IInv, Administered, ActiveAdmins
<1>7. PICK d \in Request :
         /\ d.kind = "enable" /\ d.who = u /\ d.secret = account[u].secret
         /\ seat' = [seat EXCEPT ![s] = [seat[s] EXCEPT !.doing = d]]
  BY <1>1, <1>2, Nothing, ReadsIsRequest
<1>8. SeatSound(seat[s], account', person', banned', lost')
  BY <1>2, <1>5, SteadyKeepsSeat
<1>9. RequestSound(d, seat[s].user, person', lost')
  <2>1. person'[u] = p
    BY <1>1, <1>2 DEF IInv, People
  <2> HIDE DEF p
  <2> QED BY <1>2, <1>4, <1>7, <2>1 DEF RequestSound
<1>10. SeatSound([seat[s] EXCEPT !.doing = d], account', person', banned', lost')
  BY <1>8, <1>9, BusyIsSound
<1>11. AllSeats(seat', account', person', banned', lost')
  <2>1. AllSeats(seat, account', person', banned', lost')
    BY <1>5, SteadyKeepsSeats DEF IInv
  <2> QED BY <1>7, <1>10, <2>1, OneSeat
<1> QED BY <1>5, <1>6, <1>11 DEF IInv

(* The new code is none of those that were taken.                          *)
LEMMA NewCodesKeep ==
    ASSUME IInv, NEW s \in Seat, seat[s].user \in User, account[seat[s].user].exists,
           NEW enabled \in BOOLEAN, NEW resetup \in BOOLEAN,
           person[seat[s].user].minted < MaxCode,
           enabled => account[seat[s].user].secret \in person[seat[s].user].accepted \/ resetup,
           NewCodes(s, [account[seat[s].user] EXCEPT !.enabled = enabled]),
           person' = [person EXCEPT ![seat[s].user] =
                [person[seat[s].user] EXCEPT !.minted = @ + 1, !.resetup = resetup]],
           UNCHANGED <<super, banned, lost>>, asked' \in 0 .. MaxAsked
    PROVE  IInv'
<1> DEFINE u == seat[s].user
           c == person[u].minted + 1
           a == [account[u] EXCEPT !.enabled = enabled, !.codes = {c}]
           p == [person[u] EXCEPT !.minted = c, !.resetup = resetup]
           st == [Done(seat[s]) EXCEPT !.modal = "codes", !.fresh = c]
<1>1. UserSound(account[u], person[u]) /\ SeatSound(seat[s], account, person, banned, lost)
  BY RowOf, SeatOf
<1>2. c \in 1 .. MaxCode /\ c = person[u].minted + 1 /\ person[u].minted \in Nat /\ lost \in BOOLEAN
  BY <1>1, TierAssumption, RowOf DEF UserSound, Person
<1>3. /\ account' = [account EXCEPT ![u] = a] /\ person' = [person EXCEPT ![u] = p]
      /\ seat' = [seat EXCEPT ![s] = st]
  BY DEF NewCodes
<1>4. /\ a \in Account /\ a.codes = {c} /\ a.enabled = enabled /\ a.exists = account[u].exists
      /\ a.password = account[u].password /\ a.lock = account[u].lock /\ a.admin = account[u].admin
      /\ a.secret = account[u].secret
  <2> HIDE DEF c, u
  <2> QED BY <1>1, <1>2 DEF UserSound, Account
<1>5. /\ p \in Person /\ p.minted = c /\ p.resetup = resetup /\ p.accepted = person[u].accepted
      /\ p.spent = person[u].spent /\ p.again = person[u].again
  <2>1. person[u] \in Person /\ c \in 0 .. MaxCode
    BY <1>1, <1>2 DEF UserSound
  <2> HIDE DEF c, u
  <2> QED BY <2>1 DEF Person
<1>6. UserSound(a, p)
  <2>1. person[u].spent \subseteq 1 .. c /\ c \notin person[u].spent
    BY <1>1, <1>2 DEF UserSound
  <2>2. {c} \subseteq 1 .. c
    BY <1>2
  <2> HIDE DEF a, p, c
  <2> QED BY <1>4, <1>5, <2>1, <2>2, <1>1 DEF UserSound
<1>7. /\ People' /\ Steady /\ account'[u] = a
      /\ \A v \in User \ {u} : account'[v] = account[v]
  <2>1. /\ person[u].accepted \subseteq p.accepted /\ 1 .. person[u].minted \subseteq 1 .. p.minted
        /\ super' = super /\ banned' \subseteq banned
        /\ lost' \in BOOLEAN /\ (lost => lost') /\ u \in User
    BY <1>2, <1>5
  <2> HIDE DEF a, p, u
  <2> QED BY <1>3, <1>4, <1>6, <2>1, OneRow
<1>8. Administered'
  <2>1. ActiveAdmins \subseteq ActiveAdmins'
    <3> HIDE DEF a, u
    <3> QED BY <1>4, <1>7 DEF ActiveAdmins
  <2> QED BY <2>1, AdminsStay DEF IInv
<1>9. SeatSound(st, account, person, banned, lost)
  <2>1. SeatSound(Done(seat[s]), account, person, banned, lost) /\ c \in 0 .. MaxCode
    BY <1>1, <1>2, DoneIsSound
  <2>2. Done(seat[s]).user # NoUser
    BY <1>1, UserAssumption DEF Done, SeatSound, SeatState
  <2> HIDE DEF c
  <2> QED BY <2>1, <2>2 DEF SeatSound, SeatState
<1>10. AllSeats(seat', account, person, banned, lost)
  <2> HIDE DEF st
  <2> QED BY <1>3, <1>9, OneSeat DEF IInv
<1> QED BY <1>7, <1>8, <1>10, SteadyKeepsSeats DEF IInv

(* Switching it on: the secret is the one that was proved, or the set-up   *)
(* was run again meanwhile.                                                *)
LEMMA EnableEndKeeps ==
    ASSUME IInv, NEW s \in Seat, EnableEnd(s)
    PROVE  IInv'
<1> DEFINE u == seat[s].user
           d == seat[s].doing
           resetup == account[u].secret # d.secret
<1>1. /\ d.kind = "enable" /\ UNCHANGED <<super, asked, banned, lost>>
      /\ SeatSound(seat[s], account, person, banned, lost)
  BY SeatOf DEF EnableEnd
<1>2. u \in User /\ d.secret \in person[u].accepted
  BY <1>1 DEF SeatSound, SeatState, RequestSound
<1>3. asked' \in 0 .. MaxAsked
  BY <1>1 DEF IInv, People
<1>4. CASE account[u].exists /\ person[u].minted < MaxCode
  <2>1. /\ NewCodes(s, [account[u] EXCEPT !.enabled = TRUE])
        /\ person' = [person EXCEPT ![u] = [person[u] EXCEPT !.minted = @ + 1, !.resetup = resetup]]
    <3>1. /\ NewCodes(s, [account[u] EXCEPT !.enabled = TRUE])
          /\ person' = [person EXCEPT ![u].minted = @ + 1, ![u].resetup = resetup]
      BY <1>4 DEF EnableEnd
    <3> QED BY <1>2, <3>1 DEF IInv, People
  <2>2. resetup \in BOOLEAN /\ (account[u].secret \in person[u].accepted \/ resetup)
    BY <1>2
  <2> HIDE DEF resetup
  <2> QED BY <1>1, <1>2, <1>3, <1>4, <2>1, <2>2, NewCodesKeep
<1>5. CASE ~(account[u].exists /\ person[u].minted < MaxCode)
  <2>1. seat' = [seat EXCEPT ![s] = Done(seat[s])] /\ UNCHANGED <<account, person>>
    BY <1>5 DEF EnableEnd
  <2> QED BY <1>1, <1>3, <2>1, DoneIsSound, SeatOnly
<1> QED BY <1>4, <1>5

(* Regenerating the codes leaves the second factor as it is.               *)
LEMMA RegenerateKeeps ==
    ASSUME IInv, NEW s \in Seat, Regenerate(s)
    PROVE  IInv'
<1> DEFINE u == seat[s].user
           a == account[u]
           p == person[u]
<1>1. /\ u \in User /\ a.exists /\ UserSound(a, p) /\ p.minted < MaxCode
      /\ NewCodes(s, a) /\ UNCHANGED <<super, banned, lost>>
  BY PanelUser DEF Regenerate
<1>2. asked' \in 0 .. MaxAsked
  BY <1>1, RowOf DEF Regenerate
<1>3. person' = [person EXCEPT ![u] = [p EXCEPT !.minted = @ + 1, !.resetup = p.resetup]]
  <2>1. person' = [person EXCEPT ![u].minted = @ + 1]
    BY DEF Regenerate
  <2>2. [p EXCEPT !.minted = @ + 1, !.resetup = p.resetup] = [p EXCEPT !.minted = @ + 1]
    BY <1>1 DEF UserSound, Person
  <2> QED BY <1>1, <2>1, <2>2 DEF IInv, People
<1>4. NewCodes(s, [a EXCEPT !.enabled = a.enabled])
  <2>1. a = [a EXCEPT !.enabled = a.enabled]
    BY <1>1 DEF UserSound, Account
  <2> QED BY <1>1, <2>1
<1>5. /\ a.enabled \in BOOLEAN /\ p.resetup \in BOOLEAN
      /\ a.enabled => a.secret \in p.accepted \/ p.resetup
  BY <1>1 DEF UserSound, Account, Person
<1> QED BY <1>1, <1>2, <1>3, <1>4, <1>5, NewCodesKeep

(* The person keeps the code, the page learns that the factor is on.       *)
LEMMA SaveCodesKeeps ==
    ASSUME IInv, NEW s \in Seat, SaveCodes(s)
    PROVE  IInv'
<1> DEFINE u == seat[s].user
           p == [person[u] EXCEPT !.saved = seat[s].fresh]
           shown == seat[s].shown \/ account[u].enabled
           st == IF ~seat[s].shown /\ ~Authenticated(s) THEN AtLogin
                 ELSE [seat[s] EXCEPT !.modal = "closed", !.shown = shown]
<1>1. /\ SeatSound(seat[s], account, person, banned, lost) /\ seat[s].modal = "codes"
      /\ UNCHANGED <<account, super, asked, banned, lost>>
      /\ person' = [person EXCEPT ![u] = p]
  <2>1. person' = [person EXCEPT ![u].saved = seat[s].fresh]
    BY DEF SaveCodes
  <2>2. person' = [person EXCEPT ![u] = p]
    BY <2>1
  <2> QED BY <2>2, SeatOf DEF SaveCodes
<1>2. u \in User /\ seat[s].fresh \in 0 .. MaxCode
  BY <1>1 DEF SeatSound, SeatState
<1>3. UserSound(account[u], person[u]) /\ asked' \in 0 .. MaxAsked /\ lost' \in BOOLEAN
  BY <1>1, <1>2, RowOf
<1>4. UserSound(account[u], p) /\ p.accepted = person[u].accepted /\ p.minted = person[u].minted
  <2> HIDE DEF u
  <2> QED BY <1>2, <1>3 DEF UserSound, Person
<1>5. People' /\ Steady
  <2>1. /\ person[u].accepted \subseteq p.accepted /\ 1 .. person[u].minted \subseteq 1 .. p.minted
        /\ super' = super /\ banned' \subseteq banned /\ (lost => lost')
        /\ account' = [account EXCEPT ![u] = account[u]]
    BY <1>1, <1>2, <1>4, RowOf
  <2> HIDE DEF p, u
  <2> QED BY <1>1, <1>2, <1>3, <1>4, <2>1, OneRow
<1>6. Administered'
  BY <1>1 DEF IInv, Administered, ActiveAdmins
<1>7. SeatSound(st, account, person, banned, lost)
  <2>1. shown \in BOOLEAN
    OBVIOUS
  <2>2. CASE st = AtLogin
    BY <2>2, AtLoginIsSound
  <2>3. CASE st = [seat[s] EXCEPT !.modal = "closed", !.shown = shown]
    <3> HIDE DEF st, shown
    <3> QED BY <1>1, <2>1, <2>3 DEF SeatSound, SeatState
  <2> QED BY <2>2, <2>3
<1>8. AllSeats(seat', account, person, banned, lost)
  <2>1. seat' = [seat EXCEPT ![s] = st]
    BY DEF SaveCodes
  <2> HIDE DEF st
  <2> QED BY <1>7, <2>1, OneSeat DEF IInv
<1> QED BY <1>5, <1>6, <1>8, SteadyKeepsSeats DEF IInv

(* Taking it down with a code of the authenticator; and a link by e-mail.  *)
LEMMA DisableKeeps ==
    ASSUME IInv, NEW s \in Seat, Disable(s)
    PROVE  IInv'
<1> DEFINE u == seat[s].user
           a == NoSecondFactor(account[u])
           st == [seat[s] EXCEPT !.shown = FALSE]
<1>1. /\ u \in User /\ UserSound(account[u], person[u])
      /\ SeatSound(seat[s], account, person, banned, lost)
      /\ account' = [account EXCEPT ![u] = a]
      /\ seat' = [seat EXCEPT ![s] = st]
      /\ UNCHANGED <<super, person, banned, lost>>
  BY PanelUser DEF Disable
<1>2. asked' \in 0 .. MaxAsked
  BY <1>1, RowOf DEF Disable
<1>3. UserSound(a, person[u]) /\ a.exists = account[u].exists /\ a.password = account[u].password
      /\ a.lock = account[u].lock /\ a.admin = account[u].admin
  <2> HIDE DEF u
  <2> QED BY <1>1, Nothing DEF UserSound, Account, NoSecondFactor
<1>4. People' /\ Steady /\ Administered'
  <2> HIDE DEF a, u
  <2> QED BY <1>1, <1>2, <1>3, QuietRow
<1>5. SeatSound(st, account, person, banned, lost)
  BY <1>1 DEF SeatSound, SeatState
<1>6. AllSeats(seat', account, person, banned, lost)
  <2> HIDE DEF st
  <2> QED BY <1>1, <1>5, OneSeat DEF IInv
<1> QED BY <1>4, <1>6, SteadyKeepsSeats DEF IInv

(* A reset link is sent.                                                   *)
LEMMA ForgotPasswordKeeps ==
    ASSUME IInv, NEW s \in Seat, NEW u \in User, ForgotPassword(s, u)
    PROVE  IInv'
<1> DEFINE links == account[u].links + 1
           a == [account[u] EXCEPT !.links = links]
<1>1. /\ account' = [account EXCEPT ![u] = a] /\ account[u].links < MaxLinks
      /\ UNCHANGED <<super, person, seat, banned, lost>> /\ UserSound(account[u], person[u])
  BY RowOf DEF ForgotPassword
<1>2. asked' \in 0 .. MaxAsked
  BY RowOf DEF ForgotPassword
<1>3. links \in 0 .. MaxLinks
  BY <1>1, TierAssumption DEF UserSound, Account
<1>4. UserSound(a, person[u]) /\ a.exists = account[u].exists /\ a.password = account[u].password
      /\ a.lock = account[u].lock /\ a.admin = account[u].admin
  <2> HIDE DEF links
  <2> QED BY <1>1, <1>3 DEF UserSound, Account
<1>5. People' /\ Steady /\ Administered'
  <2> HIDE DEF a
  <2> QED BY <1>1, <1>2, <1>4, QuietRow
<1> QED BY <1>1, <1>5, SteadyKeepsSeats DEF IInv

---------------------------------------------------------------------------
(* Resets, administration, and the end of an account.                      *)

(* A session that is to be revoked does not notice what happens to the     *)
(* password and the lock of its account.                                   *)
LEMMA OwingNoticesNothing ==
    ASSUME IInv, NEW u \in User, NEW seats, AllSeats(seats, account, person, banned, lost),
           \A s \in Seat : seats[s].user = u =>
                /\ seats[s].live => seats[s].missed
                /\ seats[s].live \/ seats[s].challenge => account'[u].exists,
           \A v \in User \ {u} : account'[v] = account[v],
           person' = person, banned' \subseteq banned \cup {u}, lost => lost'
    PROVE  AllSeats(seats, account', person', banned', lost')
<1>1. ASSUME NEW s \in Seat PROVE SeatSound(seats[s], account', person', banned', lost')
  <2>1. SeatSound(seats[s], account, person, banned, lost)
    BY DEF AllSeats
  <2>2. seats[s].live \/ seats[s].challenge => seats[s].user \in User
    BY <2>1 DEF SeatSound, SeatState
  <2>3. RequestSound(seats[s].doing, seats[s].user, person', lost')
    BY <2>1 DEF SeatSound, RequestSound
  <2> QED BY <2>1, <2>2, <2>3 DEF SeatSound
<1> QED BY <1>1 DEF AllSeats

(* Noting that a revocation is due, or met, leaves sound seats.            *)
LEMMA OwingSeats ==
    ASSUME NEW seats, NEW accounts, NEW persons, NEW held, NEW gone, NEW u,
           AllSeats(seats, accounts, persons, held, gone)
    PROVE  /\ AllSeats(Owing(seats, u), accounts, persons, held, gone)
           /\ \A s \in Seat : Owing(seats, u)[s].user = u /\ Owing(seats, u)[s].live =>
                  Owing(seats, u)[s].missed
           /\ \A s \in Seat :
                  /\ Owing(seats, u)[s].user = seats[s].user /\ Owing(seats, u)[s].doing = seats[s].doing
                  /\ Owing(seats, u)[s].challenge = seats[s].challenge
<1> DEFINE next == Owing(seats, u)
<1>1. DOMAIN next = Seat /\ next = [s \in Seat |-> next[s]]
  BY DEF Owing
<1>2. ASSUME NEW s \in Seat
      PROVE  /\ SeatSound(next[s], accounts, persons, held, gone)
             /\ next[s].user = u /\ next[s].live => next[s].missed
             /\ next[s].user = seats[s].user /\ next[s].doing = seats[s].doing
             /\ next[s].challenge = seats[s].challenge
  <2>1. SeatSound(seats[s], accounts, persons, held, gone)
    BY DEF AllSeats
  <2>2. next[s] = IF seats[s].user = u /\ seats[s].live THEN [seats[s] EXCEPT !.missed = TRUE] ELSE seats[s]
    BY DEF Owing
  <2> HIDE DEF next
  <2> QED BY <2>1, <2>2 DEF SeatSound, SeatState
<1> HIDE DEF next
<1>3. AllSeats(next, accounts, persons, held, gone)
  BY <1>1, <1>2 DEF AllSeats
<1> QED BY <1>2, <1>3 DEF next

(* A revocation that comes through leaves sound seats.                     *)
LEMMA MetSeats ==
    ASSUME NEW seats, NEW accounts, NEW persons, NEW held, NEW gone, NEW u,
           AllSeats(seats, accounts, persons, held, gone),
           \A s \in Seat : seats[s].user = u => ~seats[s].live
    PROVE  AllSeats(Met(seats, u), accounts, persons, held, gone)
<1> DEFINE next == Met(seats, u)
<1>1. DOMAIN next = Seat /\ next = [s \in Seat |-> next[s]]
  BY DEF Met
<1>2. ASSUME NEW s \in Seat PROVE SeatSound(next[s], accounts, persons, held, gone)
  <2>1. SeatSound(seats[s], accounts, persons, held, gone)
    BY DEF AllSeats
  <2>2. next[s] = IF seats[s].user = u THEN [seats[s] EXCEPT !.missed = FALSE] ELSE seats[s]
    BY DEF Met
  <2> HIDE DEF next
  <2> QED BY <2>1, <2>2 DEF SeatSound, SeatState
<1> HIDE DEF next
<1> QED BY <1>1, <1>2 DEF AllSeats, next

(* A request that comes a step further.                                    *)
LEMMA FurtherIsSound ==
    ASSUME NEW st, NEW accounts, NEW persons, NEW held, NEW gone,
           SeatSound(st, accounts, persons, held, gone), st.doing.kind # "none",
           NEW kind \in {"changed", "revoked", "locked"}
    PROVE  SeatSound([st EXCEPT !.doing.kind = kind], accounts, persons, held, gone)
<1> DEFINE d == [st.doing EXCEPT !.kind = kind]
<1>1. d \in Request /\ d.kind = kind /\ d.who = st.doing.who
  BY DEF SeatSound, SeatState, Request, Step
<1>2. RequestSound(d, st.user, persons, gone)
  <2> HIDE DEF d
  <2> QED BY <1>1 DEF SeatSound, RequestSound, Verb
<1>3. [st EXCEPT !.doing.kind = kind] = [st EXCEPT !.doing = d]
  OBVIOUS
<1> HIDE DEF d
<1> QED BY <1>1, <1>2, <1>3, BusyIsSound

(* A link is opened: the token is gone.                                    *)
LEMMA ResetBeginKeeps ==
    ASSUME IInv, NEW s \in Seat, NEW u \in User, ResetBegin(s, u)
    PROVE  IInv'
<1> DEFINE links == account[u].links - 1
           a == [account[u] EXCEPT !.links = links]
           d == [NoRequest EXCEPT !.kind = "token", !.who = u]
           st == [seat[s] EXCEPT !.doing = d]
<1>1. /\ account[u].links > 0 /\ account' = [account EXCEPT ![u] = a] /\ seat' = [seat EXCEPT ![s] = st]
      /\ UNCHANGED <<super, person, banned, lost>> /\ UserSound(account[u], person[u])
  BY RowOf DEF ResetBegin, LinkUnused
<1>2. asked' \in 0 .. MaxAsked
  BY RowOf DEF ResetBegin
<1>3. links \in 0 .. MaxLinks
  BY <1>1, TierAssumption DEF UserSound, Account
<1>4. UserSound(a, person[u]) /\ a.exists = account[u].exists /\ a.password = account[u].password
      /\ a.lock = account[u].lock /\ a.admin = account[u].admin
  <2> HIDE DEF links
  <2> QED BY <1>1, <1>3 DEF UserSound, Account
<1>5. People' /\ Steady /\ Administered'
  <2> HIDE DEF a
  <2> QED BY <1>1, <1>2, <1>4, QuietRow
<1>6. d \in Request /\ d.kind = "token" /\ d.who = u
  BY Nothing DEF NoRequest, Request, Step
<1>7. SeatSound(st, account, person, banned, lost)
  <2> HIDE DEF d
  <2>1. RequestSound(d, seat[s].user, person, lost)
    BY <1>6 DEF RequestSound, Verb
  <2> QED BY <1>6, <2>1, SeatOf, BusyIsSound
<1>8. AllSeats(seat', account, person, banned, lost)
  <2> HIDE DEF st
  <2> QED BY <1>1, <1>7, OneSeat DEF IInv
<1> QED BY <1>5, <1>8, SteadyKeepsSeats DEF IInv

(* The password changes, and every session there is is to end.             *)
LEMMA SetPasswordKeeps ==
    ASSUME IInv, NEW s \in Seat, SetPassword(s)
    PROVE  IInv'
<1> DEFINE u == seat[s].doing.who
           out == Owing(seat, u)
           password == account[u].password + 1
           a == IF account[u].exists THEN [account[u] EXCEPT !.password = password] ELSE account[u]
           st == [out[s] EXCEPT !.doing.kind = "changed"]
<1>1. /\ seat[s].doing.kind = "token" /\ account[u].password < MaxPassword
      /\ UNCHANGED <<super, person, asked, banned, lost>>
  BY DEF SetPassword
<1>2. u \in User
  BY <1>1, SeatOf
<1>3. UserSound(account[u], person[u]) /\ asked' \in 0 .. MaxAsked
  BY <1>1, <1>2, RowOf
<1>4. account' = [account EXCEPT ![u] = a]
  BY <1>2, RowOf DEF SetPassword
<1>5. /\ AllSeats(out, account, person, banned, lost)
      /\ \A r \in Seat : /\ out[r].user = u /\ out[r].live => out[r].missed
                         /\ out[r].doing = seat[r].doing
  <2>1. AllSeats(seat, account, person, banned, lost)
    BY DEF IInv
  <2>2. /\ AllSeats(out, account, person, banned, lost)
        /\ \A r \in Seat : out[r].user = u /\ out[r].live => out[r].missed
    <3> HIDE DEF u
    <3> QED BY <2>1, OwingSeats
  <2>3. ASSUME NEW r \in Seat PROVE out[r].doing = seat[r].doing
    <3> HIDE DEF u
    <3> QED BY SeatOf DEF Owing, SeatState
  <2> QED BY <2>2, <2>3
<1>6. seat' = [out EXCEPT ![s] = st]
  <2>1. seat' = [out EXCEPT ![s].doing.kind = "changed"]
    BY DEF SetPassword
  <2> QED BY <1>5, <2>1 DEF AllSeats
<1>7. /\ UserSound(a, person[u]) /\ a.exists = account[u].exists
      /\ a.lock = account[u].lock /\ a.admin = account[u].admin
  <2>1. password \in 0 .. MaxPassword
    BY <1>1, <1>3, TierAssumption DEF UserSound, Account
  <2>2. CASE account[u].exists
    <3>1. a = [account[u] EXCEPT !.password = password]
      BY <2>2
    <3> HIDE DEF a, password, u
    <3> QED BY <1>3, <2>1, <2>2, <3>1 DEF UserSound, Account
  <2> QED BY <1>3, <2>2
<1> HIDE DEF a
<1>8. People'
  <2>1. /\ person' = [person EXCEPT ![u] = person[u]] /\ super' \in User \cup {NoUser}
        /\ lost' \in BOOLEAN /\ banned' \subseteq User
        /\ \A v \in banned' : IF v = u THEN a.exists ELSE v \in banned
    BY <1>1, <1>2, <1>7, RowOf DEF IInv, People
  <2> HIDE DEF u
  <2> QED BY <1>2, <1>3, <1>4, <1>7, <2>1, OneUser DEF IInv
<1>9. account'[u] = a /\ \A v \in User \ {u} : account'[v] = account[v]
  BY <1>2, <1>4 DEF IInv, People
<1>10. Administered'
  <2>1. ActiveAdmins \subseteq ActiveAdmins'
    <3> HIDE DEF u
    <3> QED BY <1>7, <1>9 DEF ActiveAdmins
  <2> QED BY <1>1, <2>1, AdminsStay DEF IInv
<1>11. SeatSound(st, account, person, banned, lost)
  <2>1. SeatSound(out[s], account, person, banned, lost) /\ out[s].doing.kind = "token"
    BY <1>1, <1>5 DEF AllSeats
  <2> HIDE DEF out
  <2> QED BY <2>1, FurtherIsSound
<1>12. AllSeats(seat', account', person', banned', lost')
  <2>1. AllSeats(seat', account, person, banned, lost)
    <3> HIDE DEF st, out
    <3> QED BY <1>5, <1>6, <1>11, OneSeat
  <2>2. st.user = out[s].user /\ st.live = out[s].live /\ st.missed = out[s].missed
    BY <1>5 DEF AllSeats, SeatSound, SeatState
  <2> HIDE DEF st, out
  <2>3. \A r \in Seat : seat'[r].user = u /\ seat'[r].live => seat'[r].missed
    BY <1>5, <1>6, <2>2 DEF AllSeats
  <2>4. \A r \in Seat : seat'[r].user = u =>
           /\ seat'[r].live => seat'[r].missed
           /\ seat'[r].live \/ seat'[r].challenge => account'[u].exists
    <3> HIDE DEF u
    <3> QED BY <1>7, <1>9, <2>1, <2>3 DEF AllSeats, SeatSound
  <2> HIDE DEF u
  <2> QED BY <1>1, <1>2, <1>9, <2>1, <2>4, OwingNoticesNothing
<1> QED BY <1>8, <1>10, <1>12 DEF IInv

(* The sessions of the account end, or the error is ignored.               *)
LEMMA RevokeSessionsKeeps ==
    ASSUME IInv, NEW s \in Seat, RevokeSessions(s)
    PROVE  IInv'
<1> DEFINE d == seat[s].doing
           further(st) == IF d.kind = "changed" THEN [st EXCEPT !.doing.kind = "revoked"] ELSE Done(st)
           rest == Revoked(seat, d.who)
           met == Met(rest, d.who)
<1>1. /\ d.kind \in {"changed", "locked"} /\ UNCHANGED <<account, super, person, banned, lost>>
      /\ \/ seat' = [met EXCEPT ![s] = further(met[s])]
         \/ seat' = [seat EXCEPT ![s] = further(seat[s])]
  BY DEF RevokeSessions, SignedOutBy
<1>2. asked' \in 0 .. MaxAsked
  <2>1. asked' = asked \/ Asked
    BY DEF RevokeSessions
  <2> QED BY <2>1, TierAssumption DEF Asked, IInv, People
<1>3. AllSeats(met, account, person, banned, lost) /\ met[s].doing = d
  <2>1. /\ AllSeats(rest, account, person, banned, lost)
        /\ \A r \in Seat : rest[r].user = d.who => ~rest[r].live
    BY RevokedSeats DEF IInv
  <2>2. rest[s].doing = d
    BY SeatOf DEF Revoked, SeatState
  <2>3. met[s].doing = rest[s].doing
    BY <2>1 DEF Met, AllSeats, SeatSound, SeatState
  <2> HIDE DEF rest
  <2> QED BY <2>1, <2>2, <2>3, MetSeats
<1>4. ASSUME NEW st, SeatSound(st, account, person, banned, lost), st.doing = d
      PROVE  SeatSound(further(st), account, person, banned, lost)
  BY <1>1, <1>4, FurtherIsSound, DoneIsSound
<1> HIDE DEF met, further
<1>5. AllSeats(seat', account, person, banned, lost)
  <2>1. CASE seat' = [met EXCEPT ![s] = further(met[s])]
    <3>1. SeatSound(further(met[s]), account, person, banned, lost)
      BY <1>3, <1>4 DEF AllSeats
    <3> QED BY <1>3, <2>1, <3>1, OneSeat
  <2>2. CASE seat' = [seat EXCEPT ![s] = further(seat[s])]
    <3>1. SeatSound(further(seat[s]), account, person, banned, lost)
      BY <1>4, SeatOf
    <3> QED BY <2>2, <3>1, OneSeat DEF IInv
  <2> QED BY <1>1, <2>1, <2>2
<1>6. People' /\ Administered'
  BY <1>1, <1>2, SamePeople DEF IInv, Administered, ActiveAdmins
<1> QED BY <1>1, <1>5, <1>6 DEF IInv

(* The reset reads the lock.                                               *)
LEMMA ReadLockKeeps ==
    ASSUME IInv, NEW s \in Seat, ReadLock(s)
    PROVE  IInv'
<1> DEFINE u == seat[s].doing.who
           lock == account[u].lock
           d == [seat[s].doing EXCEPT !.kind = "reset", !.lock = lock]
<1>1. /\ seat[s].doing.kind = "revoked" /\ UNCHANGED <<account, super, person, asked, banned, lost>>
      /\ seat' = [seat EXCEPT ![s] = [seat[s] EXCEPT !.doing = d]]
  BY SeatOf DEF ReadLock
<1>2. u \in User /\ seat[s].doing \in Request
  BY <1>1, SeatOf
<1>3. lock \in {"open", "reset", "permanent"} /\ asked' \in 0 .. MaxAsked
  BY <1>1, <1>2, RowOf DEF Account
<1>4. d \in Request /\ d.kind = "reset" /\ d.who = u
  <2> HIDE DEF lock
  <2> QED BY <1>2, <1>3 DEF Request
<1> HIDE DEF d
<1>5. RequestSound(d, seat[s].user, person, lost)
  BY <1>2, <1>4 DEF RequestSound
<1> QED BY <1>1, <1>3, <1>4, <1>5, SeatOf, BusyIsSound, SeatOnly

(* A seat that comes back from a reset.                                    *)
LEMMA LandedIsSound ==
    ASSUME NEW st, SeatSound(st, account, person, banned, lost)
    PROVE  SeatSound(Landed(st), account, person, banned, lost)
<1>1. CASE ~st.live
  BY <1>1, AtLoginIsSound DEF Landed
<1>2. CASE st.live
  <2>1. SeatSound(Done(st), account, person, banned, lost)
    BY DoneIsSound
  <2>2. SeatSound([Done(st) EXCEPT !.screen = "login", !.modal = "closed"],
                  account, person, banned, lost)
    BY <2>1 DEF SeatSound, SeatState
  <2> QED BY <1>2, <2>2 DEF Landed
<1> QED BY <1>1, <1>2

(* A request that is cut off has written what it has written.              *)
LEMMA CutOffKeeps ==
    ASSUME IInv, NEW s \in Seat, CutOff(s)
    PROVE  IInv'
<1>1. /\ SeatSound(seat[s], account, person, banned, lost)
      /\ UNCHANGED <<account, super, person, banned, lost>>
  BY SeatOf DEF CutOff
<1>2. asked' \in 0 .. MaxAsked
  BY TierAssumption DEF CutOff, Asked, IInv, People
<1>3. CASE seat' = [seat EXCEPT ![s] = AtLogin]
  BY <1>1, <1>2, <1>3, AtLoginIsSound, SeatOnly
<1>4. CASE seat' = [seat EXCEPT ![s] = Landed(seat[s])]
  BY <1>1, <1>2, <1>4, LandedIsSound, SeatOnly
<1>5. CASE seat' = [seat EXCEPT ![s] = [Done(seat[s]) EXCEPT !.challenge = FALSE]]
  <2>1. SeatSound(Done(seat[s]), account, person, banned, lost)
    BY <1>1, DoneIsSound
  <2>2. SeatSound([Done(seat[s]) EXCEPT !.challenge = FALSE], account, person, banned, lost)
    BY <2>1 DEF SeatSound, SeatState
  <2> QED BY <1>1, <1>2, <1>5, <2>2, SeatOnly
<1> QED BY <1>3, <1>4, <1>5 DEF CutOff

(* A tier-1 lock is lifted; a permanent one stays.                         *)
LEMMA ResetEndKeeps ==
    ASSUME IInv, NEW s \in Seat, ResetEnd(s)
    PROVE  IInv'
<1> DEFINE d == seat[s].doing
           u == d.who
           lock == IF Lifts(d.lock) THEN "open" ELSE account[u].lock
           a == IF account[u].exists
                THEN [account[u] EXCEPT !.lock = lock, !.recent = 0, !.day = 0] ELSE account[u]
           st == Landed(seat[s])
<1>1. /\ d.kind = "reset" /\ UNCHANGED <<super, person, asked, lost>> /\ banned' \subseteq banned
      /\ seat' = [seat EXCEPT ![s] = st]
  BY DEF ResetEnd
<1>2. u \in User /\ SeatSound(seat[s], account, person, banned, lost)
  BY <1>1, SeatOf
<1>3. UserSound(account[u], person[u]) /\ asked' \in 0 .. MaxAsked
  BY <1>1, <1>2, RowOf
<1>4. account' = [account EXCEPT ![u] = a]
  <2>1. CASE account[u].exists
    <3>1. account' = [account EXCEPT ![u].lock = lock, ![u].recent = 0, ![u].day = 0]
      BY <2>1 DEF ResetEnd
    <3> QED BY <1>2, <2>1, <3>1 DEF IInv, People
  <2>2. CASE ~account[u].exists
    BY <1>2, <2>2, RowOf DEF ResetEnd
  <2> QED BY <2>1, <2>2
<1>5. /\ UserSound(a, person[u]) /\ a.exists = account[u].exists /\ a.password = account[u].password
      /\ account[u].lock = "open" /\ account[u].admin => a.lock = "open" /\ a.admin
  <2>1. lock \in {"open", "reset", "permanent"} /\ (account[u].lock = "open" => lock = "open")
    BY <1>3 DEF UserSound, Account
  <2>2. CASE account[u].exists
    <3>1. a = [account[u] EXCEPT !.lock = lock, !.recent = 0, !.day = 0]
      BY <2>2
    <3> HIDE DEF a, lock, u
    <3> QED BY <1>3, <2>1, <2>2, <3>1, Nothing DEF UserSound, Account
  <2>3. CASE ~account[u].exists
    BY <1>3, <2>3
  <2> QED BY <2>2, <2>3
<1>6. People' /\ Steady /\ Administered'
  <2> HIDE DEF a, u
  <2> QED BY <1>1, <1>2, <1>3, <1>4, <1>5, QuietRow
<1>7. SeatSound(st, account, person, banned, lost)
  BY <1>2, LandedIsSound
<1>8. AllSeats(seat', account, person, banned, lost)
  <2> HIDE DEF st
  <2> QED BY <1>1, <1>7, OneSeat DEF IInv
<1> QED BY <1>6, <1>8, SteadyKeepsSeats DEF IInv

(* A guard that counts the administrators has seen another one.            *)
LEMMA CountedAnother ==
    ASSUME NEW u, Cardinality(ActiveAdmins) > 1
    PROVE  \E v \in ActiveAdmins : v # u
<1> SUFFICES ASSUME \A v \in ActiveAdmins : v = u PROVE FALSE
  OBVIOUS
<1> DEFINE S == ActiveAdmins
<1> HIDE DEF S
<1>1. CASE S = {}
  BY <1>1, FS_EmptySet DEF S
<1>2. CASE S # {}
  <2>1. S = {u}
    BY <1>2 DEF S
  <2> QED BY <2>1, FS_Singleton DEF S
<1> QED BY <1>1, <1>2

(* A guarded verb keeps the administrators it has counted.                 *)
LEMMA AdminBeginKeeps ==
    ASSUME IInv, NEW s \in Seat, NEW verb \in Verb, NEW u \in User, AdminBegin(s, verb, u)
    PROVE  IInv'
<1>1. /\ Allowed(seat[s].user, verb, u) /\ account[u].exists /\ Reads(s, verb, u, 0)
      /\ UNCHANGED <<account, super, person, banned, lost>>
  BY DEF AdminBegin
<1>2. asked' \in 0 .. MaxAsked
  BY RowOf DEF AdminBegin
<1>3. PICK d \in Request :
         /\ d.kind = verb /\ d.who = u /\ d.admins = ActiveAdmins
         /\ seat' = [seat EXCEPT ![s] = [seat[s] EXCEPT !.doing = d]]
  BY <1>1, Nothing, ReadsIsRequest
<1>4. ASSUME verb \in {"lock", "revoke"} PROVE lost \/ \E v \in ActiveAdmins : v # u
  <2>1. CASE OthersLeft
    BY <2>1, CountedAnother DEF OthersLeft
  <2>2. CASE ~OthersLeft
    <3>1. u \notin ActiveAdmins
      BY <1>1, <1>4, <2>2 DEF Allowed, ActiveAdmins
    <3> QED BY <3>1 DEF IInv, Administered
  <2> QED BY <2>1, <2>2
<1>5. RequestSound(d, seat[s].user, person, lost)
  BY <1>3, <1>4 DEF RequestSound, Verb
<1> QED BY <1>1, <1>2, <1>3, <1>5, SeatOf, BusyIsSound, SeatOnly

(* What a verb writes.                                                     *)
LEMMA WrittenRow ==
    ASSUME NEW a, NEW p, UserSound(a, p), a.exists, NEW verb \in Verb
    PROVE  LET w == Written(a, verb)
           IN  /\ UserSound(w, p) /\ w.exists /\ w.password = a.password
               /\ verb \notin {"lock", "revoke"} =>
                     (a.admin => w.admin) /\ (a.lock = "open" => w.lock = "open")
               /\ verb # "unlock" /\ a.lock = "permanent" => w.lock = "permanent"
<1>1. CASE verb = "lock"
  BY <1>1 DEF Written, UserSound, Account
<1>2. CASE verb = "unlock"
  BY <1>2, Nothing DEF Written, UserSound, Account
<1>3. CASE verb = "grant"
  BY <1>3 DEF Written, UserSound, Account
<1>4. CASE verb = "revoke"
  BY <1>4 DEF Written, UserSound, Account
<1>5. CASE verb = "reset-password"
  <2> DEFINE links == IF a.links < MaxLinks THEN a.links + 1 ELSE a.links
  <2>1. links \in 0 .. MaxLinks
    BY TierAssumption DEF UserSound, Account
  <2>2. Written(a, verb) = [a EXCEPT !.links = links]
    BY <1>5 DEF Written
  <2> HIDE DEF links
  <2> QED BY <1>5, <2>1, <2>2 DEF UserSound, Account
<1> QED BY <1>1, <1>2, <1>3, <1>4, <1>5 DEF Verb

(* A verb is written: its own count was right, or "lost" records that it   *)
(* had gone stale.                                                         *)
LEMMA AdminEndKeeps ==
    ASSUME IInv, NEW s \in Seat, AdminEnd(s)
    PROVE  IInv'
<1> DEFINE d == seat[s].doing
           u == d.who
           out == IF d.kind = "lock" THEN Owing(seat, u) ELSE seat
           st == IF d.kind = "lock" THEN [out[s] EXCEPT !.doing.kind = "locked"] ELSE Done(out[s])
           w == Written(account[u], d.kind)
<1>1. d.kind \in Verb /\ UNCHANGED <<super, person, asked>>
  BY DEF AdminEnd
<1>2. u \in User /\ SeatSound(seat[s], account, person, banned, lost)
  BY <1>1, SeatOf DEF Verb
<1>3. /\ UserSound(account[u], person[u]) /\ asked' \in 0 .. MaxAsked
      /\ person' = [person EXCEPT ![u] = person[u]] /\ super' \in User \cup {NoUser}
      /\ lost \in BOOLEAN /\ banned \subseteq User
  BY <1>1, <1>2, RowOf
<1>4. /\ AllSeats(out, account, person, banned, lost) /\ out[s].doing = d
      /\ d.kind = "lock" => \A r \in Seat : out[r].user = u /\ out[r].live => out[r].missed
  BY OwingSeats DEF IInv
<1>5. SeatSound(st, account, person, banned, lost)
  <2> HIDE DEF out
  <2>1. SeatSound(out[s], account, person, banned, lost)
    BY <1>4 DEF AllSeats
  <2> QED BY <1>1, <1>4, <2>1, DoneIsSound, FurtherIsSound DEF Verb
<1>6. /\ AllSeats(seat', account, person, banned, lost)
      /\ d.kind = "lock" => \A r \in Seat : seat'[r].user = u /\ seat'[r].live => seat'[r].missed
  <2>1. seat' = [out EXCEPT ![s] = st]
    <3>1. CASE d.kind = "lock"
      <4>1. seat' = [out EXCEPT ![s].doing.kind = "locked"]
        BY <3>1 DEF AdminEnd
      <4> QED BY <1>4, <3>1, <4>1 DEF AllSeats
    <3>2. CASE d.kind # "lock"
      BY <3>2 DEF AdminEnd
    <3> QED BY <3>1, <3>2
  <2>2. st.user = out[s].user /\ st.live = out[s].live /\ st.missed = out[s].missed
    <3> HIDE DEF out
    <3> QED BY <1>4 DEF AllSeats, SeatSound, SeatState, Done
  <2> HIDE DEF st, out
  <2>3. AllSeats(seat', account, person, banned, lost)
    BY <1>4, <1>5, <2>1, OneSeat
  <2>4. ASSUME d.kind = "lock", NEW r \in Seat, seat'[r].user = u, seat'[r].live PROVE seat'[r].missed
    BY <1>4, <2>1, <2>2, <2>4 DEF AllSeats
  <2> QED BY <2>3, <2>4
<1> HIDE DEF st, out
<1>7. CASE ~account[u].exists
  <2>1. UNCHANGED <<account, lost, banned>>
    BY <1>7 DEF AdminEnd
  <2>2. People' /\ Administered'
    BY <1>1, <1>3, <2>1, SamePeople DEF IInv, Administered, ActiveAdmins
  <2> QED BY <1>1, <1>6, <2>1, <2>2 DEF IInv
<1>8. CASE account[u].exists
  <2>1. /\ account' = [account EXCEPT ![u] = w]
        /\ lost' = (lost \/ (d.kind \in {"lock", "revoke"} /\ d.admins # ActiveAdmins))
        /\ banned' \subseteq banned \cup {u}
        /\ d.kind # "lock" => banned' \subseteq banned
    BY <1>1, <1>8 DEF AdminEnd, Verb
  <2>2. /\ UserSound(w, person[u]) /\ w.exists /\ w.password = account[u].password
        /\ d.kind \notin {"lock", "revoke"} =>
              (account[u].admin => w.admin) /\ (account[u].lock = "open" => w.lock = "open")
    <3> HIDE DEF u, d
    <3> QED BY <1>1, <1>3, <1>8, WrittenRow
  <2> HIDE DEF w
  <2>3. account'[u] = w /\ \A v \in User \ {u} : account'[v] = account[v]
    BY <1>2, <2>1 DEF IInv, People
  <2>4. People'
    <3>1. /\ lost' \in BOOLEAN /\ banned' \subseteq User
          /\ \A v \in banned' : IF v = u THEN w.exists ELSE v \in banned
      BY <1>2, <1>3, <2>1, <2>2
    <3> HIDE DEF u
    <3> QED BY <1>2, <1>3, <2>1, <2>2, <3>1, OneUser DEF IInv
  <2>5. Administered'
    <3>1. CASE lost'
      BY <3>1 DEF Administered
    <3>2. CASE ~lost' /\ d.kind \in {"lock", "revoke"}
      <4>1. ~lost /\ d.admins = ActiveAdmins
        BY <2>1, <3>2
      <4>2. PICK v \in ActiveAdmins : v # u
        BY <1>2, <3>2, <4>1 DEF SeatSound, RequestSound
      <4>3. v \in ActiveAdmins'
        BY <2>3, <4>2 DEF ActiveAdmins
      <4> QED BY <4>3 DEF Administered
    <3>3. CASE ~lost' /\ d.kind \notin {"lock", "revoke"}
      <4>1. ActiveAdmins \subseteq ActiveAdmins'
        BY <1>2, <2>2, <2>3, <3>3 DEF ActiveAdmins
      <4> QED BY <2>1, <4>1, AdminsStay DEF IInv
    <3> QED BY <3>1, <3>2, <3>3
  <2>6. AllSeats(seat', account', person', banned', lost')
    <3>1. CASE d.kind = "lock"
      <4>1. person' = person /\ (lost => lost')
        BY <1>1, <2>1
      <4>2. \A r \in Seat : seat'[r].user = u =>
               /\ seat'[r].live => seat'[r].missed
               /\ seat'[r].live \/ seat'[r].challenge => account'[u].exists
        BY <1>6, <2>2, <2>3, <3>1
      <4> HIDE DEF u
      <4> QED BY <1>2, <1>6, <2>1, <2>3, <4>1, <4>2, OwingNoticesNothing
    <3>2. CASE d.kind # "lock"
      <4>1. Steady
        BY <1>1, <1>8, <2>1, <2>2, <2>3, <3>2 DEF Steady
      <4> QED BY <1>6, <4>1, SteadyKeepsSeats
    <3> QED BY <3>1, <3>2
  <2> QED BY <2>4, <2>5, <2>6 DEF IInv
<1> QED BY <1>7, <1>8

(* An account and its sessions go together.                                *)
LEMMA DeleteKeeps ==
    ASSUME IInv, NEW s \in Seat, Delete(s)
    PROVE  IInv'
<1> DEFINE u == seat[s].user
           a == [NewAccount EXCEPT !.exists = FALSE]
           gone(r) == [seat[r] EXCEPT !.live = FALSE, !.challenge = FALSE]
<1>1. /\ u \in User /\ UserSound(account[u], person[u]) /\ person' = person
      /\ account' = [account EXCEPT ![u] = a]
      /\ seat' = [r \in Seat |-> IF r = s THEN AtLogin ELSE IF seat[r].user = u THEN gone(r) ELSE seat[r]]
      /\ super' = (IF u = super THEN NoUser ELSE super)
      /\ lost' = (lost \/ ActiveAdmins = {u}) /\ banned' = banned \ {u}
  BY PanelUser DEF Delete
<1>2. /\ asked' \in 0 .. MaxAsked /\ super' \in User \cup {NoUser} /\ lost' \in BOOLEAN
      /\ person' = [person EXCEPT ![u] = person[u]]
  BY <1>1, RowOf DEF Delete
<1>3. a \in Account /\ ~a.exists /\ a.lock = "open" /\ a.codes = {} /\ ~a.enabled
  BY Nothing DEF NewAccount, Account
<1> HIDE DEF a
<1>4. UserSound(a, person[u])
  BY <1>1, <1>3 DEF UserSound
<1>5. People'
  <2>1. banned' \subseteq User /\ \A v \in banned' : IF v = u THEN a.exists ELSE v \in banned
    BY <1>1 DEF IInv, People
  <2> HIDE DEF u
  <2> QED BY <1>1, <1>2, <1>4, <2>1, OneUser DEF IInv
<1>6. account'[u] = a /\ \A v \in User \ {u} : account'[v] = account[v]
  BY <1>1 DEF IInv, People
<1>7. Administered'
  <2>1. CASE ActiveAdmins = {u} \/ lost
    BY <1>1, <2>1 DEF Administered
  <2>2. CASE ActiveAdmins # {u} /\ ~lost
    <3>1. PICK v \in ActiveAdmins : v # u
      BY <2>2 DEF IInv, Administered
    <3>2. v \in ActiveAdmins'
      BY <1>6, <3>1 DEF ActiveAdmins
    <3> QED BY <3>2 DEF Administered
  <2> QED BY <2>1, <2>2
<1>8. /\ AllSeats(seat', account, person, banned, lost)
      /\ \A r \in Seat : seat'[r].user = u => ~seat'[r].live /\ ~seat'[r].challenge
  <2>1. ASSUME NEW r \in Seat
        PROVE  /\ SeatSound(seat'[r], account, person, banned, lost)
               /\ seat'[r].user = u => ~seat'[r].live /\ ~seat'[r].challenge
    <3>1. SeatSound(seat[r], account, person, banned, lost)
      BY DEF IInv, AllSeats
    <3>2. CASE r = s
      <4>1. seat'[r] = AtLogin
        BY <1>1, <3>2
      <4>2. SeatSound(AtLogin, account, person, banned, lost)
        BY AtLoginIsSound
      <4>3. ~AtLogin.live /\ ~AtLogin.challenge
        BY DEF AtLogin
      <4> QED BY <4>1, <4>2, <4>3
    <3>3. CASE r # s /\ seat[r].user = u
      <4> DEFINE st == [seat[r] EXCEPT !.live = FALSE, !.challenge = FALSE]
      <4>1. seat'[r] = st
        BY <1>1, <3>3
      <4>2. SeatSound(st, account, person, banned, lost) /\ ~st.live /\ ~st.challenge
        BY <3>1 DEF SeatSound, SeatState
      <4> HIDE DEF st
      <4> QED BY <4>1, <4>2
    <3>4. CASE r # s /\ seat[r].user # u
      BY <1>1, <3>1, <3>4
    <3> QED BY <3>2, <3>3, <3>4
  <2>2. DOMAIN seat' = Seat /\ seat' = [r \in Seat |-> seat'[r]]
    BY <1>1
  <2> QED BY <2>1, <2>2 DEF AllSeats
<1>9. AllSeats(seat', account', person', banned', lost')
  <2>1. banned' \subseteq banned \cup {u} /\ (lost => lost')
    BY <1>1
  <2> HIDE DEF u
  <2> QED BY <1>1, <1>6, <1>8, <2>1, OwingNoticesNothing
<1> QED BY <1>5, <1>7, <1>9 DEF IInv

---------------------------------------------------------------------------
(* The invariant, from the first state on.                                 *)

(* The row of an account that is there at the start, with the second       *)
(* factor set up and without.                                              *)
LEMMA StartIsSound ==
    ASSUME NEW admin \in BOOLEAN, NEW single \in BOOLEAN, NEW links \in 0 .. MaxLinks
    PROVE  /\ UserSound(Start(admin, single, links), NewPerson)
           /\ UserSound(Enrolled(Start(admin, single, links)), Keeper)
           /\ \A a \in {Start(admin, single, links), Enrolled(Start(admin, single, links))} :
                 a.exists /\ a.password = 0 /\ a.lock = "open" /\ a.admin = admin
<1> DEFINE a == Start(admin, single, links)
<1>1. /\ a \in Account /\ a.exists /\ a.password = 0 /\ a.lock = "open" /\ a.admin = admin
      /\ a.codes = {} /\ ~a.enabled
  BY Nothing DEF Start, NewAccount, Account
<1>2. NewPerson \in Person /\ NewPerson.spent = {} /\ NewPerson.again = {} /\ NewPerson.minted = 0
  BY Nothing DEF NewPerson, Person
<1> HIDE DEF a
<1>3. UserSound(a, NewPerson)
  BY <1>1, <1>2 DEF UserSound
<1>4. 1 \in 1 .. MaxSecret /\ 1 \in 0 .. MaxSecret /\ 1 \in 1 .. MaxCode /\ 1 \in 0 .. MaxCode
  BY TierAssumption
<1>5. /\ Enrolled(a) \in Account /\ Enrolled(a).exists /\ Enrolled(a).password = 0
      /\ Enrolled(a).lock = "open" /\ Enrolled(a).admin = admin
      /\ Enrolled(a).secret = 1 /\ Enrolled(a).enabled /\ Enrolled(a).codes = {1}
  BY <1>1, <1>4 DEF Enrolled, Account
<1>6. /\ Keeper \in Person /\ Keeper.accepted = {1} /\ Keeper.spent = {} /\ Keeper.again = {}
      /\ Keeper.minted = 1
  BY <1>4, Nothing DEF Keeper, NewPerson, Person
<1>7. UserSound(Enrolled(a), Keeper)
  BY <1>5, <1>6 DEF UserSound
<1> QED BY <1>1, <1>3, <1>5, <1>7 DEF a

(* A seat that is signed in at the start.                                  *)
LEMMA SignedInIsSound ==
    ASSUME NEW u \in User, NEW shown \in BOOLEAN,
           account[u].exists, account[u].password = 0, banned = {}
    PROVE  SeatSound(SignedIn(u, shown), account, person, banned, lost)
<1> DEFINE st == SignedIn(u, shown)
<1>1. /\ st \in SeatState /\ st.user = u /\ st.live /\ st.under = 0 /\ ~st.challenge
      /\ st.doing = NoRequest
  BY Nothing DEF SignedIn, AtLogin, SeatState
<1> HIDE DEF st
<1>2. u # NoUser
  BY UserAssumption
<1>3. RequestSound(st.doing, st.user, person, lost)
  BY <1>1, Nothing DEF RequestSound
<1>4. SeatSound(st, account, person, banned, lost)
  BY <1>1, <1>2, <1>3 DEF SeatSound
<1> QED BY <1>4 DEF st

(* The first state.                                                        *)
LEMMA InitHolds == Init => IInv
<1> SUFFICES ASSUME Init PROVE IInv
  OBVIOUS
<1> DEFINE row(u, admins, single, linked) ==
              Start(u \in admins, u \in single, IF u \in linked THEN MaxLinks ELSE 0)
<1>0. PICK admins \in SUBSET User, factor \in SUBSET User, single \in {{}, User},
           linked \in {{}, User}, at \in [Seat -> User \cup {NoUser}] :
        /\ account = [u \in User |-> IF u \in factor THEN Enrolled(row(u, admins, single, linked))
                                     ELSE row(u, admins, single, linked)]
        /\ person = [u \in User |-> IF u \in factor THEN Keeper ELSE NewPerson]
        /\ super \in admins \cup {NoUser}
        /\ seat = [s \in Seat |-> IF at[s] = NoUser THEN AtLogin
                                  ELSE SignedIn(at[s], at[s] \in factor)]
        /\ asked = 0 /\ banned = {} /\ lost = (admins = {})
  BY DEF Init
<1>1. \A u \in User : /\ UserSound(account[u], person[u]) /\ account[u].exists
                     /\ account[u].password = 0 /\ account[u].lock = "open"
                     /\ account[u].admin = (u \in admins)
  <2> SUFFICES ASSUME NEW u \in User
               PROVE  /\ UserSound(account[u], person[u]) /\ account[u].exists
                      /\ account[u].password = 0 /\ account[u].lock = "open"
                      /\ account[u].admin = (u \in admins)
    OBVIOUS
  <2> DEFINE admin == u \in admins
             alone == u \in single
             links == IF u \in linked THEN MaxLinks ELSE 0
  <2>1. admin \in BOOLEAN /\ alone \in BOOLEAN /\ links \in 0 .. MaxLinks
    BY Nothing, TierAssumption
  <2>2. /\ account[u] = IF u \in factor THEN Enrolled(Start(admin, alone, links))
                        ELSE Start(admin, alone, links)
        /\ person[u] = IF u \in factor THEN Keeper ELSE NewPerson
    BY <1>0
  <2> HIDE DEF admin, alone, links
  <2>3. /\ UserSound(account[u], person[u]) /\ account[u].exists
        /\ account[u].password = 0 /\ account[u].lock = "open" /\ account[u].admin = admin
    BY <2>1, <2>2, StartIsSound
  <2> QED BY <2>3 DEF admin
<1>2. People
  <2>1. /\ DOMAIN account = User /\ account = [u \in User |-> account[u]]
        /\ DOMAIN person = User /\ person = [u \in User |-> person[u]]
    BY <1>0
  <2>2. super \in User \cup {NoUser} /\ asked \in 0 .. MaxAsked /\ lost \in BOOLEAN
    BY <1>0, TierAssumption
  <2>3. banned \subseteq User /\ \A u \in banned : account[u].exists
    BY <1>0
  <2> QED BY <1>1, <2>1, <2>2, <2>3 DEF People
<1>3. AllSeats(seat, account, person, banned, lost)
  <2>1. ASSUME NEW s \in Seat PROVE SeatSound(seat[s], account, person, banned, lost)
    <3>1. CASE at[s] = NoUser
      BY <1>0, <3>1, AtLoginIsSound
    <3>2. CASE at[s] # NoUser
      <4> DEFINE u == at[s]
                 shown == u \in factor
      <4>1. /\ u \in User /\ shown \in BOOLEAN
            /\ seat[s] = SignedIn(u, shown)
        BY <1>0, <3>2
      <4> HIDE DEF u, shown
      <4> QED BY <1>0, <1>1, <4>1, SignedInIsSound
    <3> QED BY <3>1, <3>2
  <2>2. DOMAIN seat = Seat /\ seat = [s \in Seat |-> seat[s]]
    BY <1>0
  <2> QED BY <2>1, <2>2 DEF AllSeats
<1>4. Administered
  BY <1>0, <1>1 DEF Administered, ActiveAdmins
<1> QED BY <1>2, <1>3, <1>4 DEF IInv

(* Every step.                                                             *)
LEMMA StepKeeps == IInv /\ [Next]_vars => IInv'
<1> SUFFICES ASSUME IInv, [Next]_vars PROVE IInv'
  OBVIOUS
<1>1. ASSUME NEW s \in Seat, Entry(s) PROVE IInv'
  BY <1>1, SignupKeeps, SmallEntryKeeps, LoginEndKeeps, FailureEndKeeps, TotpVerifyKeeps,
     RecoveryBeginKeeps, RecoveryEndKeeps, LastWinsKeeps
  DEF Entry
<1>2. ASSUME NEW s \in Seat, Upkeep(s) PROVE IInv'
  BY <1>2, OpenSetupKeeps, EnableBeginKeeps, EnableEndKeeps, RegenerateKeeps, SaveCodesKeeps,
     SmallEntryKeeps, DisableKeeps, RecoveryBeginKeeps, ForgotPasswordKeeps, ResetBeginKeeps,
     SetPasswordKeeps, RevokeSessionsKeeps, ReadLockKeeps, ResetEndKeeps, AdminBeginKeeps,
     AdminEndKeeps, DeleteKeeps, CutOffKeeps
  DEF Upkeep
<1>3. ASSUME NEW u \in User, HourPasses(u) \/ DayPasses(u) PROVE IInv'
  BY <1>3, PassesKeeps
<1>4. CASE UNCHANGED vars
  BY <1>4 DEF vars, IInv, People, Administered, ActiveAdmins
<1> QED BY <1>1, <1>2, <1>3, <1>4 DEF Next

(* The invariant holds throughout.                                         *)
LEMMA Invariance == Spec => []IInv
BY InitHolds, StepKeeps, PTL DEF Spec

---------------------------------------------------------------------------
(* What it says of a state.                                                *)

(* Every variable of the accounts holds what the handlers can put there.   *)
THEOREM AccountsTypes == Spec => []TypeOK
<1>1. IInv => TypeOK
  <2> SUFFICES ASSUME IInv PROVE TypeOK
    OBVIOUS
  <2>1. \A u \in User : account[u] \in Account /\ person[u] \in Person
    BY DEF IInv, People, UserSound
  <2>2. \A s \in Seat : seat[s] \in SeatState
    BY DEF IInv, AllSeats, SeatSound
  <2>3. account \in [User -> Account] /\ person \in [User -> Person]
    BY <2>1 DEF IInv, People
  <2>4. seat \in [Seat -> SeatState]
    BY <2>2 DEF IInv, AllSeats
  <2> QED BY <2>3, <2>4 DEF TypeOK, IInv, People
<1> QED BY <1>1, Invariance, PTL

(* However the requests of administrators overlap, the last active one is  *)
(* lost only by a stale count, by failed sign-ins or by deleting an        *)
(* account (handleAdminLock, handleAdminRevoke).                           *)
THEOREM AnAdministratorIsLeft == Spec => []Administered
<1>1. IInv => Administered
  BY DEF IInv
<1> QED BY <1>1, Invariance, PTL

(* A second factor that is on asks for a secret the person has proved, or  *)
(* the set-up was run again (handleMFASetup, handleMFAEnable).             *)
THEOREM SecondFactorIsProved == Spec => []SecondFactorIsHeld
<1>1. IInv => SecondFactorIsHeld
  BY DEF IInv, People, UserSound, SecondFactorIsHeld
<1> QED BY <1>1, Invariance, PTL

(* A live session was opened with the present password and is not an       *)
(* administrator's to refuse, unless it has missed a revocation: due and   *)
(* not made, failed or cut off, or made before the session of an earlier   *)
(* check was issued (handleResetPasswordComplete, handleAdminLock).        *)
THEOREM SessionsFollow == Spec => []SessionsFollowAccount
<1>1. IInv => SessionsFollowAccount
  BY DEF IInv, AllSeats, SeatSound, SessionsFollowAccount
<1> QED BY <1>1, Invariance, PTL

(* No check that begins after a recovery code was taken accepts it         *)
(* (checkRecoveryCode, generateAndStoreRecoveryCodes).                     *)
THEOREM CodesWorkOnce == Spec => []SpentCodesAreRefused
<1>1. IInv => SpentCodesAreRefused
  BY DEF IInv, People, UserSound, SpentCodesAreRefused
<1> QED BY <1>1, Invariance, PTL

---------------------------------------------------------------------------
(* A permanent lock.                                                       *)

(* Most requests leave the lock of every account that stays.               *)
Unbent ==
    \A u \in User : account'[u].exists /\ account[u].lock = "permanent" => account'[u].lock = "permanent"

(* A row that changes nothing of the lock leaves it.                       *)
LEMMA RowUnbent ==
    ASSUME IInv, NEW u \in User, NEW a, account' = [account EXCEPT ![u] = a],
           a.exists /\ account[u].lock = "permanent" => a.lock = "permanent"
    PROVE  Unbent
BY DEF IInv, People, Unbent

(* Signing up and signing in lift no permanent lock.                       *)
LEMMA EntryUnbent ==
    ASSUME IInv, NEW s \in Seat, Entry(s), ~FailureEnd(s)
    PROVE  Unbent
<1>1. CASE UNCHANGED account
  BY <1>1 DEF Unbent
<1>2. ASSUME NEW u \in User, Signup(s, u) PROVE Unbent
  <2>1. PICK a : account' = [account EXCEPT ![u] = a]
    BY <1>2 DEF Signup
  <2>2. account[u].lock = "open"
    BY <1>2 DEF Signup, IInv, People, UserSound
  <2> QED BY <2>1, <2>2, RowUnbent
<1>3. CASE LoginEnd(s)
  <2> DEFINE u == seat[s].doing.who
             a == [account[u] EXCEPT !.recent = 0, !.day = 0]
  <2>1. u \in User /\ account[u] \in Account
    BY <1>3, SeatOf, RowOf DEF LoginEnd
  <2>2. account' = account \/ account' = [account EXCEPT ![u] = a]
    BY <1>3 DEF LoginEnd
  <2>3. a.lock = account[u].lock
    BY <2>1 DEF Account
  <2> QED BY <1>1, <2>1, <2>2, <2>3, RowUnbent
<1>4. CASE RecoveryEnd(s)
  <2> DEFINE u == seat[s].user
             c == seat[s].doing.code
  <2>1. u \in User /\ account[u] \in Account
    BY <1>4, SeatOf, RowOf DEF RecoveryEnd, RequestSound
  <2>2. PICK a \in {account[u], Spent(account[u], c), NoSecondFactor(account[u])} :
          account' = account \/ account' = [account EXCEPT ![u] = a]
    BY <1>4 DEF RecoveryEnd
  <2>3. a.lock = account[u].lock
    BY <2>1, <2>2 DEF Spent, NoSecondFactor, Account
  <2> QED BY <1>1, <2>1, <2>2, <2>3, RowUnbent
<1> QED BY <1>1, <1>2, <1>3, <1>4
    DEF Entry, RefreshSession, Logout, LoginBegin, LastWins, TotpVerify, RecoveryBegin, CancelMFA, FiveMinutesPass

(* Nor do the second factor, a link that is asked for or opened, and a     *)
(* deletion.                                                               *)
LEMMA UpkeepUnbent ==
    ASSUME IInv, NEW s \in Seat, Upkeep(s), ~ResetEnd(s), ~AdminEnd(s)
    PROVE  Unbent
<1>1. CASE UNCHANGED account
  BY <1>1 DEF Unbent
<1> DEFINE u == seat[s].user
<1>2. CASE OpenSetup(s)
  <2> DEFINE n == person[u].made + 1
             a == [account[u] EXCEPT !.secret = n]
  <2>1. u \in User /\ account[u] \in Account /\ account' = [account EXCEPT ![u] = a]
    BY <1>2, PanelUser, RowOf DEF OpenSetup
  <2>2. a.lock = account[u].lock
    BY <2>1 DEF Account
  <2> HIDE DEF a, u
  <2> QED BY <2>1, <2>2, RowUnbent
<1>3. ASSUME NEW b, NEW c, u \in User, account' = [account EXCEPT ![u] = [b EXCEPT !.codes = {c}]],
             b \in Account, b.lock = account[u].lock
      PROVE  Unbent
  <2> DEFINE a == [b EXCEPT !.codes = {c}]
  <2>1. a.lock = account[u].lock
    BY <1>3 DEF Account
  <2> HIDE DEF a, u
  <2> QED BY <1>3, <2>1, RowUnbent DEF a
<1>4. CASE EnableEnd(s) \/ Regenerate(s)
  <2> DEFINE b == [account[u] EXCEPT !.enabled = TRUE]
  <2>1. u \in User /\ account[u] \in Account
    BY <1>4, SeatOf, RowOf, PanelUser DEF EnableEnd, Regenerate, RequestSound
  <2>2. b \in Account /\ b.lock = account[u].lock
    BY <2>1 DEF Account
  <2>3. UNCHANGED account \/ NewCodes(s, b) \/ NewCodes(s, account[u])
    BY <1>4 DEF EnableEnd, Regenerate
  <2> QED BY <1>1, <1>3, <2>1, <2>2, <2>3 DEF NewCodes
<1>5. CASE Disable(s)
  <2> DEFINE a == NoSecondFactor(account[u])
  <2>1. u \in User /\ account[u] \in Account /\ account' = [account EXCEPT ![u] = a]
    BY <1>5, PanelUser, RowOf DEF Disable
  <2>2. a.lock = account[u].lock
    BY <2>1 DEF NoSecondFactor, Account
  <2> HIDE DEF a, u
  <2> QED BY <2>1, <2>2, RowUnbent
<1>6. ASSUME NEW v \in User, ForgotPassword(s, v) \/ ResetBegin(s, v) PROVE Unbent
  <2> DEFINE more == [account[v] EXCEPT !.links = @ + 1]
             opened == [account[v] EXCEPT !.links = @ - 1]
  <2>1. PICK a \in {more, opened} : account' = [account EXCEPT ![v] = a]
    BY <1>6 DEF ForgotPassword, ResetBegin
  <2>2. a.lock = account[v].lock
    BY <2>1, RowOf DEF Account
  <2> QED BY <2>1, <2>2, RowUnbent
<1>7. CASE SetPassword(s)
  <2> DEFINE v == seat[s].doing.who
             a == [account[v] EXCEPT !.password = @ + 1]
  <2>1. v \in User /\ account[v] \in Account
    BY <1>7, SeatOf, RowOf DEF SetPassword
  <2>2. account' = account \/ account' = [account EXCEPT ![v] = a]
    BY <1>7 DEF SetPassword
  <2>3. a.lock = account[v].lock
    BY <2>1 DEF Account
  <2> QED BY <1>1, <2>1, <2>2, <2>3, RowUnbent
<1>8. CASE Delete(s)
  <2> DEFINE a == [NewAccount EXCEPT !.exists = FALSE]
  <2>1. u \in User /\ account' = [account EXCEPT ![u] = a]
    BY <1>8, PanelUser DEF Delete
  <2>2. ~a.exists
    BY DEF NewAccount
  <2> HIDE DEF a, u
  <2> QED BY <2>1, <2>2, RowUnbent
<1> QED BY <1>1, <1>2, <1>4, <1>5, <1>6, <1>7, <1>8
    DEF Upkeep, EnableBegin, SaveCodes, CloseSetup, DisableByCodeBegin, RevokeSessions, ReadLock,
        AdminBegin, CutOff

(* A failed sign-in or a reset that lifts a permanent lock was decided     *)
(* before the lock was there.                                              *)
LEMMA DecidedSoftens ==
    ASSUME IInv, NEW s \in Seat, FailureEnd(s) \/ ResetEnd(s)
    PROVE  \/ Unbent
           \/ /\ DecidedBefore(seat[s].doing.who)
              /\ \A v \in User \ {seat[s].doing.who} : account'[v] = account[v]
<1> DEFINE d == seat[s].doing
           u == d.who
<1>1. u \in User /\ d.kind \in {"failure", "reset"} /\ account[u] \in Account
  BY SeatOf, RowOf DEF FailureEnd, ResetEnd
<1>2. \A v \in User \ {u} : account'[v] = account[v]
  BY <1>1 DEF FailureEnd, ResetEnd, IInv, People
<1>3. seat'[s].doing = NoRequest
  <2>1. Done(seat[s]).doing = NoRequest /\ AtLogin.doing = NoRequest
    BY SeatOf DEF Done, SeatState, AtLogin
  <2>2. CASE FailureEnd(s)
    <3>1. seat'[s] = Done(seat[s])
      BY <2>2 DEF FailureEnd, IInv, AllSeats
    <3> QED BY <2>1, <3>1
  <2>3. CASE ResetEnd(s)
    <3> DEFINE st == [Done(seat[s]) EXCEPT !.screen = "login", !.modal = "closed"]
    <3>1. st.doing = NoRequest
      BY SeatOf DEF Done, SeatState
    <3>2. seat'[s] = st \/ seat'[s] = AtLogin
      BY <2>3 DEF ResetEnd, Landed, IInv, AllSeats
    <3> HIDE DEF st
    <3> QED BY <2>1, <3>1, <3>2
  <2> QED BY <2>2, <2>3
<1>4. CASE d.lock # "permanent"
  <2>1. DecidedBefore(u)
    BY <1>1, <1>3, <1>4 DEF DecidedBefore
  <2> QED BY <1>2, <2>1
<1>5. CASE d.lock = "permanent"
  <2>1. ResetEnd(s)
    BY <1>5, SeatOf DEF FailureEnd, RequestSound
  <2> DEFINE a == [account[u] EXCEPT !.lock = account[u].lock, !.recent = 0, !.day = 0]
  <2>2. account' = account \/ account' = [account EXCEPT ![u] = a]
    BY <1>5, <2>1 DEF ResetEnd, Lifts
  <2>3. a.lock = account[u].lock
    BY <1>1 DEF Account
  <2> HIDE DEF a
  <2>4. CASE account' = account
    BY <2>4 DEF Unbent
  <2> QED BY <1>1, <2>2, <2>3, <2>4, RowUnbent
<1> QED BY <1>4, <1>5

(* An administrator's request lifts a permanent lock by its unlock only.   *)
LEMMA AdminEndUnlocks ==
    ASSUME IInv, NEW s \in Seat, AdminEnd(s)
    PROVE  \/ Unbent
           \/ /\ Unlocks(seat[s].doing.who)
              /\ \A v \in User \ {seat[s].doing.who} : account'[v] = account[v]
<1> DEFINE d == seat[s].doing
           u == d.who
           a == Written(account[u], d.kind)
<1>1. u \in User /\ d.kind \in Verb
  BY SeatOf DEF AdminEnd, Verb
<1>2. account' = account \/ (account[u].exists /\ account' = [account EXCEPT ![u] = a])
  BY DEF AdminEnd
<1>3. \A v \in User \ {u} : account'[v] = account[v]
  BY <1>1, <1>2 DEF IInv, People
<1>4. CASE d.kind = "unlock"
  BY <1>3, <1>4 DEF Unlocks
<1>5. CASE d.kind # "unlock" /\ account' # account
  <2>1. account[u].lock = "permanent" => a.lock = "permanent"
    BY <1>1, <1>2, <1>5, RowOf, WrittenRow
  <2> HIDE DEF a, u
  <2> QED BY <1>1, <1>2, <1>5, <2>1, RowUnbent
<1>6. CASE account' = account
  BY <1>6 DEF Unbent
<1> QED BY <1>4, <1>5, <1>6

(* A permanent lock gives way to an administrator's unlock, or to a write  *)
(* decided before it was there: not to a reset link and not to a sign-in   *)
(* (handleAdminUnlock, handleResetPasswordComplete, maybeEscalateLock).    *)
THEOREM PermanentMeansPermanent == Spec => PermanentLockStands
<1> DEFINE Kept == \A u \in User :
              account[u].lock = "permanent" /\ account'[u].exists /\ account'[u].lock # "permanent" =>
                  Unlocks(u) \/ DecidedBefore(u)
<1>1. IInv /\ Next => Kept
  <2> SUFFICES ASSUME IInv, Next PROVE Kept
    OBVIOUS
  <2>1. ASSUME Unbent PROVE Kept
    BY <2>1 DEF Unbent
  <2>2. ASSUME NEW s \in Seat, FailureEnd(s) \/ ResetEnd(s) PROVE Kept
    BY <2>1, <2>2, DecidedSoftens
  <2>3. ASSUME NEW s \in Seat, AdminEnd(s) PROVE Kept
    BY <2>1, <2>3, AdminEndUnlocks
  <2>4. ASSUME NEW s \in Seat, Entry(s) \/ Upkeep(s) PROVE Kept
    BY <2>1, <2>2, <2>3, <2>4, EntryUnbent, UpkeepUnbent
  <2>5. ASSUME NEW u \in User, HourPasses(u) \/ DayPasses(u) PROVE Kept
    <3> DEFINE day == [account[u] EXCEPT !.recent = 0, !.day = 0]
               hour == [account[u] EXCEPT !.recent = 0]
    <3>1. PICK a \in {day, hour} : account' = [account EXCEPT ![u] = a]
      BY <2>5 DEF HourPasses, DayPasses
    <3>2. a.lock = account[u].lock
      BY <3>1, RowOf DEF Account
    <3> QED BY <2>1, <3>1, <3>2, RowUnbent
  <2> QED BY <2>4, <2>5 DEF Next
<1>2. IInv /\ [Next]_vars => [Kept]_vars
  BY <1>1
<1>3. Spec => [][Kept]_vars
  BY <1>2, Invariance, PTL DEF Spec
<1> QED BY <1>3 DEF PermanentLockStands
=============================================================================
