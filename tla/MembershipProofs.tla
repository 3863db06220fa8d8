-------------------------- MODULE MembershipProofs --------------------------
(***************************************************************************)
(* The two tables agree on who owns a workspace, and a workspace loses its *)
(* owner's membership only through the race of a removal with a transfer,  *)
(* an invitation is spent by whoever joins, and the cap is overrun by no   *)
(* more than the requests under way: for any users, bounds and             *)
(* interleaving of requests.                                               *)
(***************************************************************************)
EXTENDS Membership, FiniteSetTheorems, TLAPS

(* No member rows without a workspace row, and a request past its first    *)
(* read is about a workspace that exists or has existed.                   *)
RowsNeedWorkspaces ==
    /\ \A w \in Wid, u \in User : ~Exists(w) => role[w][u] = "none"
    /\ \A i \in Slot : req[i].pc \in {"role", "act"} => ws[req[i].ws].status # "unused"

(* A removal under way does not aim at the owner, or will notice it does,  *)
(* unless a transfer came in between.                                      *)
RemovalsMissTheOwner ==
    \A i \in Slot :
        LET r == req[i]
        IN  r.pc \in {"role", "act"} /\ Exists(r.ws) /\ r.ws \notin raced =>
              /\ r.pc = "act" /\ r.verb \in {"remove", "leave"} => Removed(r) # ws[r.ws].owner
              /\ r.pc = "role" /\ r.verb = "remove" =>
                    r.owner = ws[r.ws].owner \/ r.target # ws[r.ws].owner

IInv ==
    /\ TypeOK
    /\ RowsNeedWorkspaces
    /\ OneOwner
    /\ OrphanedOnlyByRace
    /\ RemovalsMissTheOwner

(* The placeholder user is a user. *)
LEMMA AnyUserIsUser == AnyUser \in User
  BY UserAssumption DEF AnyUser

(* A free slot holds a request record. *)
LEMMA FreeIsRequest == Free \in Request /\ Free.pc = "free"
  BY AnyUserIsUser DEF Free, Request, Verb, OwnerVerb, Pc

(* A new request keeps the invariant when it reads a workspace that exists *)
(* and notes its owner, or touches none.                                   *)
LEMMA AskKeeps ==
    ASSUME IInv, NEW i \in Slot, NEW r \in Request, Ask(i, r),
           r.pc \in {"role", "insert"},
           r.pc = "role" => r.ws \in Wid /\ Exists(r.ws) /\ r.owner = ws[r.ws].owner,
           account' \in [User -> Account],
           UNCHANGED <<ws, role, invite, raced>>
    PROVE  IInv'
<1> USE DEF IInv, Ask, Arrive
<1>1. /\ req' \in [Slot -> Request] /\ asked' \in 0 .. MaxAsked
      /\ req'[i] = r /\ \A j \in Slot \ {i} : req'[j] = req[j]
  BY BoundsAssumption DEF TypeOK
<1>2. TypeOK'
  BY <1>1 DEF TypeOK
<1>3. RowsNeedWorkspaces'
  BY <1>1 DEF RowsNeedWorkspaces, Exists, TypeOK
<1>4. OneOwner' /\ OrphanedOnlyByRace'
  BY DEF OneOwner, OrphanedOnlyByRace, Exists
<1>5. RemovalsMissTheOwner'
  BY <1>1 DEF RemovalsMissTheOwner, Exists, Removed
<1> QED BY <1>2, <1>3, <1>4, <1>5

(* Slot i leaves its request, or turns to its last writes; it is none of   *)
(* those the invariant speaks of.                                          *)
Settled(i) ==
    /\ req' \in [Slot -> Request]
    /\ req'[i].pc \notin {"role", "act"}
    /\ \A j \in Slot \ {i} : req'[j] = req[j]

(* Every Goto but to the write settles the slot. *)
LEMMA GotoSettles ==
    ASSUME IInv, NEW i \in Slot, NEW pc \in {"free", "list", "insert"}, Goto(i, pc)
    PROVE  Settled(i)
<1> DEFINE r == IF pc = "free" THEN Free ELSE [req[i] EXCEPT !.pc = pc]
<1>1. r \in Request /\ r.pc \notin {"role", "act"}
  BY FreeIsRequest DEF IInv, TypeOK, Request, Pc
<1>2. req' = [req EXCEPT ![i] = r]
  BY DEF Goto
<1> HIDE DEF r
<1> QED BY <1>1, <1>2 DEF Settled, IInv, TypeOK

(* A step that settles its slot and changes no workspace's owner keeps     *)
(* what is known of the other requests.                                    *)
LEMMA SettledKeeps ==
    ASSUME IInv, NEW i \in Slot, Settled(i),
           \A w \in Wid : ws'[w].status \in {"live", "deleted"}
                            => Exists(w) /\ ws'[w].owner = ws[w].owner,
           \A w \in Wid : ws[w].status # "unused" => ws'[w].status # "unused",
           UNCHANGED raced
    PROVE  /\ RemovalsMissTheOwner'
           /\ \A j \in Slot : req'[j].pc \in {"role", "act"} =>
                    req'[j].ws \in Wid /\ ws'[req'[j].ws].status # "unused"
<1>1. /\ req'[i].pc \notin {"role", "act"}
      /\ \A j \in Slot \ {i} : req'[j] = req[j]
  BY DEF Settled
<1>2. \A j \in Slot : req[j].pc \in {"role", "act"} => req[j].ws \in Wid
  BY DEF IInv, TypeOK
<1>3. RemovalsMissTheOwner'
  <2> SUFFICES ASSUME NEW j \in Slot, req'[j].pc \in {"role", "act"},
                      ws'[req'[j].ws].status \in {"live", "deleted"}, req'[j].ws \notin raced
               PROVE  /\ req'[j].pc = "act" /\ req'[j].verb \in {"remove", "leave"}
                            => Removed(req'[j]) # ws'[req'[j].ws].owner
                      /\ req'[j].pc = "role" /\ req'[j].verb = "remove"
                            => req'[j].owner = ws'[req'[j].ws].owner
                               \/ req'[j].target # ws'[req'[j].ws].owner
    BY DEF RemovalsMissTheOwner, Removed, Exists
  <2>1. req'[j] = req[j] /\ req[j].ws \in Wid
    BY <1>1, <1>2
  <2>2. Exists(req[j].ws) /\ ws'[req[j].ws].owner = ws[req[j].ws].owner
    BY <2>1
  <2>3. /\ req[j].pc = "act" /\ req[j].verb \in {"remove", "leave"}
              => Removed(req[j]) # ws[req[j].ws].owner
        /\ req[j].pc = "role" /\ req[j].verb = "remove"
              => req[j].owner = ws[req[j].ws].owner \/ req[j].target # ws[req[j].ws].owner
    BY <2>1, <2>2 DEF IInv, RemovalsMissTheOwner
  <2> QED BY <2>1, <2>2, <2>3 DEF Removed
<1>4. \A j \in Slot : req'[j].pc \in {"role", "act"} =>
            req'[j].ws \in Wid /\ ws'[req'[j].ws].status # "unused"
  BY <1>1, <1>2 DEF IInv, RowsNeedWorkspaces
<1> QED BY <1>3, <1>4

(* A step that only settles its slot and changes member rows, never an       *)
(* owner's, keeps the invariant.                                           *)
LEMMA RolesKeep ==
    ASSUME IInv, NEW i \in Slot, Settled(i),
           UNCHANGED <<account, ws, asked, raced>>,
           invite' \in [Inv -> InvitationRow],
           \A k \in Inv : invite'[k].status \notin {"unused", "gone"} => invite'[k].ws \in Wid,
           role' \in [Wid -> [User -> Role]],
           \A w \in Wid, u \in User :
                /\ ~Exists(w) => role'[w][u] = "none"
                /\ role'[w][u] = "owner" => role[w][u] = "owner",
           \A w \in Wid : Exists(w) /\ w \notin raced => role'[w][ws[w].owner] = role[w][ws[w].owner]
    PROVE  IInv'
<1> USE DEF IInv
<1>0. \A w \in Wid : ws'[w] = ws[w] /\ Exists(w)' = Exists(w)
  BY DEF Exists
<1>1. /\ RemovalsMissTheOwner'
      /\ \A j \in Slot : req'[j].pc \in {"role", "act"} =>
                req'[j].ws \in Wid /\ ws'[req'[j].ws].status # "unused"
  <2>1. \A w \in Wid : ws'[w].status \in {"live", "deleted"}
                            => Exists(w) /\ ws'[w].owner = ws[w].owner
    BY DEF Exists
  <2>2. \A w \in Wid : ws[w].status # "unused" => ws'[w].status # "unused"
    OBVIOUS
  <2> QED BY <2>1, <2>2, SettledKeeps
<1>2. TypeOK' /\ RowsNeedWorkspaces'
  BY <1>0, <1>1 DEF TypeOK, RowsNeedWorkspaces, Settled
<1>3. OneOwner'
  BY DEF OneOwner
<1>4. OrphanedOnlyByRace'
  BY <1>0 DEF OrphanedOnlyByRace
<1> QED BY <1>1, <1>2, <1>3, <1>4

(* The invariant holds of an empty database. *)
LEMMA InitHolds == Init => IInv
<1> SUFFICES ASSUME Init PROVE IInv
  OBVIOUS
<1> USE AnyUserIsUser, FreeIsRequest, BoundsAssumption DEF Init
<1>1. TypeOK
  BY DEF TypeOK, Account, WorkspaceRow, Role, InvitationRow, NoInvitation
<1>2. RowsNeedWorkspaces /\ OneOwner /\ OrphanedOnlyByRace /\ RemovalsMissTheOwner
  BY DEF RowsNeedWorkspaces, OneOwner, OrphanedOnlyByRace, RemovalsMissTheOwner, Exists
<1> QED BY <1>1, <1>2 DEF IInv

(* A request arrives, or an invitation is accepted. *)
LEMMA ArrivalsKeep ==
    ASSUME IInv, NEW i \in Slot, NewRequest(i) PROVE IInv'
<1> USE DEF IInv
<1>1. PICK u \in User :
        \/ SignUp(i, u)
        \/ CountWorkspaces(i, u)
        \/ ListWorkspaces(i, u)
        \/ \E k \in Inv : AcceptInvitation(i, u, k)
        \/ \E w \in Wid, verb \in {"delete", "personal", "leave", "invite", "remove", "transfer"},
              t \in User : FindWorkspace(i, u, verb, w, t)
  BY AnyUserIsUser DEF NewRequest
<1>2. CASE SignUp(i, u)
  <2>1. account' \in [User -> Account]
    BY <1>2 DEF SignUp, TypeOK, Account
  <2> DEFINE r == [Free EXCEPT !.pc = "insert", !.verb = "signup", !.user = u]
  <2>2. r \in Request /\ r.pc = "insert"
    BY AnyUserIsUser DEF Free, Request, Verb, OwnerVerb, Pc
  <2> QED BY <1>2, <2>1, <2>2, AskKeeps DEF SignUp
<1>3. CASE CountWorkspaces(i, u)
  <2> DEFINE r == [Free EXCEPT !.pc = "insert", !.verb = "create", !.user = u]
  <2>1. r \in Request /\ r.pc = "insert"
    BY AnyUserIsUser DEF Free, Request, Verb, OwnerVerb, Pc
  <2> QED BY <1>3, <2>1, AskKeeps DEF CountWorkspaces, TypeOK
<1>4. CASE ListWorkspaces(i, u)
  <2> DEFINE r == [Free EXCEPT !.pc = "insert", !.user = u]
  <2>1. r \in Request /\ r.pc = "insert"
    BY AnyUserIsUser DEF Free, Request, Verb, OwnerVerb, Pc
  <2> QED BY <1>4, <2>1, AskKeeps DEF ListWorkspaces, TypeOK
<1>5. ASSUME NEW k \in Inv, AcceptInvitation(i, u, k) PROVE IInv'
  <2> DEFINE w == invite[k].ws
  <2>1. w \in Wid /\ Exists(w) /\ role[w][u] = "none"
    BY <1>5 DEF AcceptInvitation, Acceptable, TypeOK, Live, Exists
  <2>2. role' = [role EXCEPT ![w][u] = "member"] /\ asked' \in 0 .. MaxAsked
    BY <1>5, BoundsAssumption DEF AcceptInvitation, Arrive, TypeOK
  <2>3. UNCHANGED <<account, ws, req, raced>>
    BY <1>5 DEF AcceptInvitation
  <2>4. invite' = [invite EXCEPT ![k].status = "used"]
    BY <1>5 DEF AcceptInvitation
  <2>5. TypeOK'
    <3>1. role' \in [Wid -> [User -> Role]]
      BY <2>1, <2>2 DEF TypeOK, Role
    <3>2. [invite[k] EXCEPT !.status = "used"] \in InvitationRow
      BY DEF TypeOK, InvitationRow
    <3>3. /\ invite' \in [Inv -> InvitationRow]
          /\ \A j \in Inv : invite'[j].ws = invite[j].ws
          /\ \A j \in Inv \ {k} : invite'[j] = invite[j]
      BY <2>4, <3>2 DEF TypeOK, InvitationRow
    <3>4. \A j \in Inv : invite'[j].status \notin {"unused", "gone"} => invite'[j].ws \in Wid
      BY <2>1, <3>3 DEF TypeOK
    <3> QED BY <2>2, <2>3, <3>1, <3>3, <3>4 DEF TypeOK
  <2>6. RowsNeedWorkspaces' /\ RemovalsMissTheOwner'
    BY <2>1, <2>2, <2>3 DEF TypeOK, RowsNeedWorkspaces, RemovalsMissTheOwner, Exists, Removed
  <2>7. OneOwner' /\ OrphanedOnlyByRace'
    BY <2>1, <2>2, <2>3 DEF TypeOK, OneOwner, OrphanedOnlyByRace, Exists
  <2> QED BY <2>5, <2>6, <2>7
<1>6. ASSUME NEW w \in Wid, NEW t \in User, FindWorkspace(i, u, "delete", w, t) \/ FindWorkspace(i, u, "personal", w, t)
               \/ FindWorkspace(i, u, "leave", w, t) \/ FindWorkspace(i, u, "invite", w, t)
               \/ FindWorkspace(i, u, "remove", w, t) \/ FindWorkspace(i, u, "transfer", w, t)
      PROVE IInv'
  <2>1. PICK verb \in Verb : FindWorkspace(i, u, verb, w, t)
    BY <1>6 DEF Verb, OwnerVerb
  <2> DEFINE r == [Free EXCEPT !.pc = "role", !.verb = verb, !.user = u, !.ws = w,
                               !.target = t, !.owner = ws[w].owner]
  <2>2. r \in Request /\ r.pc = "role" /\ r.ws = w /\ r.owner = ws[w].owner
    <3>1. ws[w].owner \in User /\ w \in Nat
      BY BoundsAssumption DEF TypeOK, WorkspaceRow, Wid
    <3> QED BY <3>1, AnyUserIsUser DEF Free, Request, Pc
  <2>3. Exists(w)
    BY <2>1 DEF FindWorkspace, Live, Exists
  <2> QED BY <2>1, <2>2, <2>3, AskKeeps DEF FindWorkspace, TypeOK
<1> QED BY <1>1, <1>2, <1>3, <1>4, <1>5, <1>6
(* The workspace's row and its owner's are inserted together. *)
LEMMA CreateKeeps ==
    ASSUME IInv, NEW i \in Slot, CreateWorkspace(i) PROVE IInv'
<1> USE DEF IInv
<1> DEFINE u == req[i].user
<1>1. u \in User /\ Settled(i)
  <2>1. u \in User
    BY DEF TypeOK, Request
  <2>2. PICK pc \in {"free", "list"} : Goto(i, pc)
    BY DEF CreateWorkspace
  <2> QED BY <2>1, <2>2, GotoSettles
<1>2. UNCHANGED <<account, invite, asked, raced>>
  BY DEF CreateWorkspace
<1>3. ASSUME NEW w \in Wid, ws[w].status = "unused",
             ws' = [ws EXCEPT ![w] = [status |-> "live", owner |-> u]],
             role' = [role EXCEPT ![w][u] = "owner"]
      PROVE  IInv'
  <2>1. TypeOK'
    <3>1. ws' \in [Wid -> WorkspaceRow] /\ role' \in [Wid -> [User -> Role]]
      BY <1>1, <1>3 DEF TypeOK, WorkspaceRow, Role
    <3>2. \A j \in Slot : req'[j].pc \in {"role", "act"} => req'[j].ws \in Wid
      BY <1>1 DEF TypeOK, Settled
    <3> QED BY <1>1, <1>2, <3>1, <3>2 DEF TypeOK, Settled
  <2>2. \A v \in User : role[w][v] = "none"
    BY <1>3 DEF RowsNeedWorkspaces, Exists
  <2>3. \A j \in Slot : req'[j].pc \in {"role", "act"} => req'[j] = req[j] /\ req[j].ws \in Wid \ {w}
    BY <1>1, <1>3 DEF RowsNeedWorkspaces, Settled, TypeOK
  <2>4. \A v \in Wid \ {w} : ws'[v] = ws[v] /\ role'[v] = role[v]
    BY <1>3 DEF TypeOK
  <2>5. ws'[w].status = "live" /\ ws'[w].owner = u
    BY <1>3 DEF TypeOK
  <2>6. \A v \in User : role'[w][v] = IF v = u THEN "owner" ELSE "none"
    BY <1>1, <1>3, <2>2 DEF TypeOK
  <2>7. RowsNeedWorkspaces'
    BY <2>3, <2>4, <2>5 DEF RowsNeedWorkspaces, Exists
  <2>8. OneOwner' /\ OrphanedOnlyByRace'
    BY <1>1, <1>2, <2>4, <2>5, <2>6 DEF OneOwner, OrphanedOnlyByRace, Exists
  <2>9. RemovalsMissTheOwner'
    BY <1>2, <2>3, <2>4 DEF RemovalsMissTheOwner, Exists, Removed
  <2> QED BY <2>1, <2>7, <2>8, <2>9
<1>4. ASSUME UNCHANGED <<ws, role>> PROVE IInv'
  BY <1>1, <1>2, <1>4, RolesKeep DEF TypeOK, RowsNeedWorkspaces
<1> QED BY <1>3, <1>4 DEF CreateWorkspace

(* The steps that change only their request, or the rows of members and    *)
(* invitations.                                                            *)
LEMMA RowsKeep ==
    ASSUME IInv, NEW i \in Slot,
           ListAfterCreate(i) \/ CreateInvitation(i) \/ RemoveMember(i) \/ RemoveNonOwnerMembers(i)
    PROVE  IInv'
<1> USE DEF IInv
<1>1. CASE ListAfterCreate(i)
  <2>1. [req[i] EXCEPT !.pc = "insert", !.verb = "list"] \in Request
    BY DEF TypeOK, Request, Pc, Verb, OwnerVerb
  <2>2. Settled(i)
    BY <1>1, <2>1, FreeIsRequest DEF ListAfterCreate, Settled, TypeOK, Request
  <2> QED BY <1>1, <2>2, RolesKeep DEF ListAfterCreate, TypeOK, RowsNeedWorkspaces
<1>2. CASE CreateInvitation(i)
  <2>1. Settled(i)
    BY <1>2, GotoSettles DEF CreateInvitation
  <2>2. /\ invite' \in [Inv -> InvitationRow]
        /\ \A k \in Inv : invite'[k].status \notin {"unused", "gone"} => invite'[k].ws \in Wid
    <3>1. CASE UNCHANGED invite
      BY <3>1 DEF TypeOK
    <3>2. ASSUME NEW k \in Inv,
                 invite' = [invite EXCEPT ![k] = [status |-> "pending", ws |-> req[i].ws,
                                                  to |-> req[i].target, by |-> req[i].user]]
          PROVE  /\ invite' \in [Inv -> InvitationRow]
                 /\ \A j \in Inv : invite'[j].status \notin {"unused", "gone"}
                                    => invite'[j].ws \in Wid
      <4>1. req[i].ws \in Wid /\ req[i].ws \in Nat /\ req[i].target \in User /\ req[i].user \in User
        BY <1>2 DEF CreateInvitation, Acts, TypeOK, Request
      <4> QED BY <3>2, <4>1 DEF TypeOK, InvitationRow
    <3> QED BY <1>2, <3>1, <3>2 DEF CreateInvitation
  <2> QED BY <1>2, <2>1, <2>2, RolesKeep DEF CreateInvitation, TypeOK, RowsNeedWorkspaces
<1>3. CASE RemoveMember(i)
  <2> DEFINE w == req[i].ws
             u == Removed(req[i])
  <2>1. Settled(i)
    BY <1>3, GotoSettles DEF RemoveMember
  <2>2. w \in Wid /\ u \in User /\ role' = [role EXCEPT ![w][u] = "none"]
    BY <1>3 DEF RemoveMember, Acts, Removed, TypeOK, Request
  <2>3. Exists(w) /\ w \notin raced => u # ws[w].owner
    BY <1>3 DEF RemoveMember, Acts, RemovalsMissTheOwner
  <2> HIDE DEF w, u
  <2>4. role' \in [Wid -> [User -> Role]]
    BY <2>2 DEF TypeOK, Role
  <2>5. \A v \in Wid, x \in User :
            role'[v][x] = IF v = w /\ x = u THEN "none" ELSE role[v][x]
    BY <2>2 DEF TypeOK
  <2>6. \A v \in Wid : Exists(v) /\ v \notin raced =>
            role'[v][ws[v].owner] = role[v][ws[v].owner]
    BY <2>3, <2>5 DEF TypeOK, WorkspaceRow
  <2>7. \A v \in Wid, x \in User :
            /\ ~Exists(v) => role'[v][x] = "none"
            /\ role'[v][x] = "owner" => role[v][x] = "owner"
    BY <2>5 DEF RowsNeedWorkspaces
  <2> QED BY <1>3, <2>1, <2>4, <2>6, <2>7, RolesKeep DEF RemoveMember, TypeOK
<1>4. CASE RemoveNonOwnerMembers(i)
  <2> DEFINE w == req[i].ws
  <2>1. Settled(i)
    BY <1>4, GotoSettles DEF RemoveNonOwnerMembers
  <2>2. /\ w \in Wid
        /\ role' = [role EXCEPT ![w] =
                        [u \in User |-> IF role[w][u] = "owner" THEN "owner" ELSE "none"]]
    BY <1>4 DEF RemoveNonOwnerMembers, Acts, TypeOK
  <2> HIDE DEF w
  <2>3. role' \in [Wid -> [User -> Role]]
    BY <2>2 DEF TypeOK, Role
  <2>4. \A v \in Wid, x \in User :
            role'[v][x] = IF v = w /\ role[v][x] # "owner" THEN "none" ELSE role[v][x]
    BY <2>2 DEF TypeOK
  <2>5. \A v \in Wid : Exists(v) /\ v \notin raced =>
            role'[v][ws[v].owner] = role[v][ws[v].owner]
    BY <2>4 DEF OrphanedOnlyByRace, TypeOK, WorkspaceRow
  <2>6. \A v \in Wid, x \in User :
            /\ ~Exists(v) => role'[v][x] = "none"
            /\ role'[v][x] = "owner" => role[v][x] = "owner"
    BY <2>4 DEF RowsNeedWorkspaces
  <2> QED BY <1>4, <2>1, <2>3, <2>5, <2>6, RolesKeep DEF RemoveNonOwnerMembers, TypeOK
<1> QED BY <1>1, <1>2, <1>3, <1>4
(* The check of a request: a removal that passes it does not aim at the    *)
(* owner, whatever has happened since the workspace was read.              *)
LEMMA FindMemberKeeps ==
    ASSUME IInv, NEW i \in Slot, FindMember(i) PROVE IInv'
<1> USE DEF IInv
<1>1. UNCHANGED <<account, ws, role, invite, asked, raced>>
  BY DEF FindMember
<1>2. CASE ~MayAct(req[i])
  <2>1. Settled(i)
    BY <1>2, GotoSettles DEF FindMember
  <2> QED BY <1>1, <2>1, RolesKeep DEF TypeOK, RowsNeedWorkspaces
<1>3. CASE MayAct(req[i])
  <2> DEFINE r == [req[i] EXCEPT !.pc = "act"]
  <2>1. req[i] \in Request /\ req[i].pc = "role" /\ req[i].ws \in Wid
    BY DEF FindMember, TypeOK
  <2>2. /\ r \in Request /\ r.pc = "act"
        /\ r.ws = req[i].ws /\ r.verb = req[i].verb /\ r.user = req[i].user
        /\ r.target = req[i].target
    BY <2>1 DEF Request, Pc
  <2>3. req' = [req EXCEPT ![i] = r]
    BY <1>3 DEF FindMember, Goto
  <2> HIDE DEF r
  <2>4. req' \in [Slot -> Request] /\ req'[i] = r /\ \A j \in Slot \ {i} : req'[j] = req[j]
    BY <2>2, <2>3 DEF TypeOK
  <2>5. TypeOK' /\ RowsNeedWorkspaces'
    <3>1. \A j \in Slot : req'[j].pc \in {"role", "act"} =>
                req[j].pc \in {"role", "act"} /\ req'[j].ws = req[j].ws
      BY <2>1, <2>2, <2>4
    <3>2. TypeOK'
      BY <1>1, <2>4, <3>1 DEF TypeOK
    <3>3. RowsNeedWorkspaces'
      BY <1>1, <3>1 DEF RowsNeedWorkspaces, Exists
    <3> QED BY <3>2, <3>3
  <2>6. OneOwner' /\ OrphanedOnlyByRace'
    BY <1>1 DEF OneOwner, OrphanedOnlyByRace, Exists
  <2>7. ASSUME Exists(r.ws), r.ws \notin raced, r.verb \in {"remove", "leave"}
        PROVE  Removed(r) # ws[r.ws].owner
    <3>1. role[r.ws][ws[r.ws].owner] = "owner"
      BY <2>1, <2>2, <2>7 DEF OrphanedOnlyByRace
    <3>2. CASE r.verb = "leave"
      BY <1>3, <2>2, <3>1, <3>2 DEF MayAct, Removed
    <3>3. CASE r.verb = "remove"
      <4>1. req[i].target # req[i].owner
        BY <1>3, <2>2, <3>3 DEF MayAct
      <4>2. req[i].owner = ws[r.ws].owner \/ req[i].target # ws[r.ws].owner
        BY <2>1, <2>2, <2>7, <3>3 DEF RemovalsMissTheOwner
      <4> QED BY <2>2, <3>3, <4>1, <4>2 DEF Removed
    <3> QED BY <2>7, <3>2, <3>3
  <2>8. RemovalsMissTheOwner'
    BY <1>1, <2>2, <2>4, <2>7 DEF RemovalsMissTheOwner, Exists, Removed
  <2> QED BY <2>5, <2>6, <2>8
<1> QED BY <1>2, <1>3

(* A deleted workspace keeps its rows. *)
LEMMA SoftDeleteKeeps ==
    ASSUME IInv, NEW i \in Slot, SoftDeleteWorkspace(i) PROVE IInv'
<1> USE DEF IInv
<1> DEFINE w == req[i].ws
<1>1. Settled(i) /\ w \in Wid /\ UNCHANGED <<account, role, invite, asked, raced>>
  BY GotoSettles DEF SoftDeleteWorkspace, Acts, TypeOK
<1>2. /\ ws' \in [Wid -> WorkspaceRow]
      /\ \A v \in Wid : /\ ws'[v].owner = ws[v].owner
                        /\ Exists(v)' = Exists(v)
                        /\ ws[v].status # "unused" => ws'[v].status # "unused"
  BY <1>1 DEF SoftDeleteWorkspace, TypeOK, WorkspaceRow, Exists, Live
<1>3. /\ RemovalsMissTheOwner'
      /\ \A j \in Slot : req'[j].pc \in {"role", "act"} =>
                req'[j].ws \in Wid /\ ws'[req'[j].ws].status # "unused"
  <2>1. \A v \in Wid : ws'[v].status \in {"live", "deleted"} =>
                            Exists(v) /\ ws'[v].owner = ws[v].owner
    BY <1>2 DEF Exists
  <2> QED BY <1>1, <1>2, <2>1, SettledKeeps
<1>4. TypeOK' /\ RowsNeedWorkspaces'
  BY <1>1, <1>2, <1>3 DEF TypeOK, RowsNeedWorkspaces, Settled
<1>5. OneOwner' /\ OrphanedOnlyByRace'
  BY <1>1, <1>2 DEF OneOwner, OrphanedOnlyByRace
<1> QED BY <1>3, <1>4, <1>5

(* A transfer changes both tables, and is the race when a removal of the   *)
(* new owner is under way.                                                 *)
LEMMA TransferKeeps ==
    ASSUME IInv, NEW i \in Slot, TransferWorkspaceOwner(i) PROVE IInv'
<1> USE DEF IInv
<1> DEFINE w == req[i].ws
           u == req[i].target
<1>1. Settled(i) /\ w \in Wid /\ u \in User /\ UNCHANGED <<account, invite, asked>>
  BY GotoSettles DEF TransferWorkspaceOwner, Acts, TypeOK, Request
<1>2. CASE ~(Live(w) /\ role[w][u] # "none")
  BY <1>1, <1>2, RolesKeep DEF TransferWorkspaceOwner, TypeOK, RowsNeedWorkspaces
<1>3. CASE Live(w) /\ role[w][u] # "none"
  <2>1. /\ ws' = [ws EXCEPT ![w].owner = u]
        /\ role' = ChangeOwner(w, u)
        /\ raced' = IF \E j \in Slot : WillRemove(req[j], w, u) THEN raced \cup {w} ELSE raced
    BY <1>3 DEF TransferWorkspaceOwner
  <2>2. /\ ws' \in [Wid -> WorkspaceRow]
        /\ ws'[w].owner = u
        /\ \A v \in Wid \ {w} : ws'[v] = ws[v]
        /\ \A v \in Wid : ws'[v].status = ws[v].status
    BY <1>1, <2>1 DEF TypeOK, WorkspaceRow
  <2>3. /\ role' \in [Wid -> [User -> Role]]
        /\ \A v \in Wid \ {w} : role'[v] = role[v]
        /\ role'[w][u] = "owner"
        /\ \A x \in User : x # u => role'[w][x] # "owner"
    BY <1>1, <2>1 DEF TypeOK, Role, ChangeOwner, OneOwner
  <2>4. raced' \in SUBSET Wid /\ \A v \in Wid : v \in raced => v \in raced'
    BY <1>1, <2>1 DEF TypeOK
  <2>5. \A j \in Slot : req'[j].pc \in {"role", "act"} => req'[j] = req[j] /\ req[j].ws \in Wid
    BY <1>1 DEF Settled, TypeOK
  <2>6. TypeOK'
    BY <1>1, <2>2, <2>3, <2>4, <2>5 DEF TypeOK, Settled
  <2>7. RowsNeedWorkspaces'
    BY <1>3, <2>2, <2>3, <2>5 DEF RowsNeedWorkspaces, Exists, Live
  <2>8. OneOwner'
    <3>1. ASSUME NEW v \in Wid, NEW x \in User, role'[v][x] = "owner" PROVE ws'[v].owner = x
      BY <2>2, <2>3, <3>1 DEF OneOwner
    <3> QED BY <3>1 DEF OneOwner
  <2>9. OrphanedOnlyByRace'
    <3>1. ASSUME NEW v \in Wid, ws'[v].status \in {"live", "deleted"}, v \notin raced'
          PROVE  role'[v][ws'[v].owner] = "owner"
      BY <2>2, <2>3, <2>4, <3>1 DEF OrphanedOnlyByRace, Exists
    <3> QED BY <3>1 DEF OrphanedOnlyByRace, Exists
  <2>10. RemovalsMissTheOwner'
    <3> SUFFICES ASSUME NEW j \in Slot, req'[j].pc \in {"role", "act"},
                        ws'[req'[j].ws].status \in {"live", "deleted"},
                        req'[j].ws \notin raced'
                 PROVE  /\ req'[j].pc = "act" /\ req'[j].verb \in {"remove", "leave"}
                              => Removed(req'[j]) # ws'[req'[j].ws].owner
                        /\ req'[j].pc = "role" /\ req'[j].verb = "remove"
                              => req'[j].owner = ws'[req'[j].ws].owner
                                 \/ req'[j].target # ws'[req'[j].ws].owner
      BY DEF RemovalsMissTheOwner, Removed, Exists
    <3>1. req'[j] = req[j] /\ req[j].ws \in Wid
      BY <2>5
    <3>2. CASE req[j].ws = w
      <4>1. ~WillRemove(req[j], w, u)
        BY <2>1, <3>1, <3>2
      <4> QED BY <2>2, <3>1, <3>2, <4>1 DEF WillRemove, Removed
    <3>3. CASE req[j].ws # w
      <4>1. Exists(req[j].ws) /\ req[j].ws \notin raced /\ ws'[req[j].ws] = ws[req[j].ws]
        BY <2>2, <2>4, <3>1, <3>3 DEF Exists
      <4>2. /\ req[j].pc = "act" /\ req[j].verb \in {"remove", "leave"}
                  => Removed(req[j]) # ws[req[j].ws].owner
            /\ req[j].pc = "role" /\ req[j].verb = "remove"
                  => req[j].owner = ws[req[j].ws].owner \/ req[j].target # ws[req[j].ws].owner
        BY <3>1, <4>1 DEF RemovalsMissTheOwner
      <4> QED BY <3>1, <4>1, <4>2 DEF Removed
    <3> QED BY <3>2, <3>3
  <2> QED BY <2>6, <2>7, <2>8, <2>9, <2>10
<1> QED BY <1>2, <1>3

(* An account goes with its workspaces and memberships. *)
LEMMA DeleteAccountKeeps ==
    ASSUME IInv, NEW u \in User, DeleteAccount(u) PROVE IInv'
<1> USE DEF IInv
<1> DEFINE purged == {w \in Wid : ws[w].status \in {"live", "deleted"} /\ ws[w].owner = u}
           gone(inv) == inv.status # "unused" /\ (inv.ws \in purged \/ inv.by = u)
<1>1. /\ account' = [account EXCEPT ![u] = "deleted"]
      /\ ws' = [w \in Wid |-> IF w \in purged THEN [status |-> "purged", owner |-> AnyUser]
                                       ELSE ws[w]]
      /\ role' = [w \in Wid |-> [v \in User |-> IF w \in purged \/ v = u THEN "none"
                                                                      ELSE role[w][v]]]
      /\ invite' = [k \in Inv |-> IF gone(invite[k]) THEN NoInvitation("gone") ELSE invite[k]]
      /\ UNCHANGED <<req, asked, raced>>
  BY DEF DeleteAccount
<1>2. \A w \in purged : w \in Wid /\ ws[w].status # "unused"
  OBVIOUS
<1>3. \A w \in Wid : Exists(w) /\ w \notin purged => ws[w].owner # u
  BY DEF Exists
<1> HIDE DEF purged
<1>4. account' \in [User -> Account]
  BY <1>1 DEF TypeOK, Account
<1>5. /\ ws' \in [Wid -> WorkspaceRow]
      /\ \A w \in purged : w \in Wid => ws'[w].status = "purged"
      /\ \A w \in Wid : w \notin purged => ws'[w] = ws[w]
  BY <1>1, AnyUserIsUser DEF TypeOK, WorkspaceRow
<1>6. /\ role' \in [Wid -> [User -> Role]]
      /\ \A w \in Wid, v \in User :
            role'[w][v] = IF w \in purged \/ v = u THEN "none" ELSE role[w][v]
  BY <1>1 DEF TypeOK, Role
<1>7. /\ invite' \in [Inv -> InvitationRow]
      /\ \A k \in Inv : invite'[k].status \notin {"unused", "gone"} => invite'[k].ws \in Wid
  <2> HIDE DEF gone
  <2>1. NoInvitation("gone") \in InvitationRow /\ NoInvitation("gone").status = "gone"
    BY AnyUserIsUser DEF NoInvitation, InvitationRow
  <2> QED BY <1>1, <2>1 DEF TypeOK
<1>8. TypeOK'
  BY <1>1, <1>4, <1>5, <1>6, <1>7 DEF TypeOK
<1>9. \A w \in Wid : ws'[w].status \in {"live", "deleted"} =>
            Exists(w) /\ w \notin purged /\ ws'[w] = ws[w]
  BY <1>5 DEF Exists
<1>10. RowsNeedWorkspaces'
  <2>1. \A w \in Wid, v \in User :
            ~(ws'[w].status \in {"live", "deleted"}) => role'[w][v] = "none"
    BY <1>5, <1>6 DEF RowsNeedWorkspaces, Exists
  <2>2. \A j \in Slot : req[j].pc \in {"role", "act"} => ws'[req[j].ws].status # "unused"
    BY <1>5 DEF RowsNeedWorkspaces, TypeOK
  <2> QED BY <1>1, <2>1, <2>2 DEF RowsNeedWorkspaces, Exists
<1>11. OneOwner'
  <2>1. ASSUME NEW w \in Wid, NEW v \in User, role'[w][v] = "owner" PROVE ws'[w].owner = v
    BY <1>5, <1>6, <2>1 DEF OneOwner
  <2> QED BY <2>1 DEF OneOwner
<1>12. OrphanedOnlyByRace'
  <2>1. ASSUME NEW w \in Wid, ws'[w].status \in {"live", "deleted"}, w \notin raced
        PROVE  role'[w][ws'[w].owner] = "owner"
    BY <1>3, <1>6, <1>9, <2>1 DEF OrphanedOnlyByRace, TypeOK, WorkspaceRow
  <2> QED BY <1>1, <2>1 DEF OrphanedOnlyByRace, Exists
<1>13. RemovalsMissTheOwner'
  BY <1>1, <1>9 DEF RemovalsMissTheOwner, TypeOK, Exists, Removed
<1> QED BY <1>8, <1>10, <1>11, <1>12, <1>13

(* Time passing over an invitation, and a step that changes nothing. *)
LEMMA OtherStepsKeep ==
    ASSUME IInv, (\E k \in Inv : ExpireInvitation(k)) \/ UNCHANGED vars PROVE IInv'
<1> USE DEF IInv
<1>1. UNCHANGED <<account, ws, role, req, asked, raced>>
  BY DEF ExpireInvitation, vars
<1>2. /\ invite' \in [Inv -> InvitationRow]
      /\ \A k \in Inv : invite'[k].status \notin {"unused", "gone"} => invite'[k].ws \in Wid
  <2>1. CASE UNCHANGED vars
    BY <2>1 DEF vars, TypeOK
  <2>2. ASSUME NEW k \in Inv, ExpireInvitation(k)
        PROVE  /\ invite' \in [Inv -> InvitationRow]
               /\ \A j \in Inv : invite'[j].status \notin {"unused", "gone"} => invite'[j].ws \in Wid
    <3>1. [invite[k] EXCEPT !.status = "expired"] \in InvitationRow
      BY DEF TypeOK, InvitationRow
    <3> QED BY <2>2, <3>1 DEF ExpireInvitation, TypeOK, InvitationRow
  <2> QED BY <2>1, <2>2
<1>3. TypeOK'
  BY <1>1, <1>2 DEF TypeOK
<1>4. RowsNeedWorkspaces' /\ OneOwner' /\ OrphanedOnlyByRace' /\ RemovalsMissTheOwner'
  BY <1>1 DEF RowsNeedWorkspaces, OneOwner, OrphanedOnlyByRace, RemovalsMissTheOwner, Exists,
              Removed
<1> QED BY <1>3, <1>4

(* IInv is an inductive invariant. *)
LEMMA IInvInductive == Spec => []IInv
<1>1. Init => IInv
  BY InitHolds
<1>2. ASSUME IInv, [Next]_vars PROVE IInv'
  <2>1. CASE UNCHANGED vars
    BY <1>2, <2>1, OtherStepsKeep
  <2>2. ASSUME NEW i \in Slot, NewRequest(i) PROVE IInv'
    BY <1>2, <2>2, ArrivalsKeep
  <2>3. ASSUME NEW i \in Slot, Handle(i) PROVE IInv'
    BY <1>2, <2>3, CreateKeeps, RowsKeep, FindMemberKeeps, SoftDeleteKeeps, TransferKeeps
       DEF Handle
  <2>4. ASSUME NEW k \in Inv, ExpireInvitation(k) PROVE IInv'
    BY <1>2, <2>4, OtherStepsKeep
  <2>5. ASSUME NEW u \in User, DeleteAccount(u) PROVE IInv'
    BY <1>2, <2>5, DeleteAccountKeeps
  <2> QED BY <1>2, <2>1, <2>2, <2>3, <2>4, <2>5 DEF Next
<1> QED BY <1>1, <1>2, PTL DEF Spec

(* The rows of members name the owner the workspace's row names, through   *)
(* any transfers, removals and deletions that interleave: the two columns  *)
(* TransferWorkspaceOwner, CreateWorkspace and the cascades write.         *)
THEOREM OwnersAgree == Spec => []OneOwner
<1>1. IInv => OneOwner
  BY DEF IInv
<1> QED BY <1>1, IInvInductive, PTL

(* No order of requests takes a workspace's owner from its members, but    *)
(* for a removal that was under way when its target became the owner.      *)
THEOREM OwnerLostOnlyByRace == Spec => []OrphanedOnlyByRace
<1>1. IInv => OrphanedOnlyByRace
  BY DEF IInv
<1> QED BY <1>1, IInvInductive, PTL

---------------------------------------------------------------------------
(* Joining.                                                                *)

Joins(w, u) == role[w][u] = "none" /\ role'[w][u] = "member"
Spends(w, u) ==
    \E k \in Inv : /\ invite[k].ws = w /\ invite[k].to = u
                   /\ invite[k].status = "pending" /\ invite'[k].status = "used"

(* Of all the writes only that of an acceptance makes a member of somebody *)
(* who has no row: the others remove rows, or change the role in one.      *)
LEMMA HandlersAdmitNobody ==
    ASSUME IInv, NEW i \in Slot, Handle(i), NEW w \in Wid, NEW u \in User, Joins(w, u)
    PROVE  FALSE
<1> USE DEF IInv
<1>1. CASE UNCHANGED role
  BY <1>1 DEF Joins
<1>2. CASE CreateWorkspace(i)
  <2>1. req[i].user \in User
    BY DEF TypeOK, Request
  <2>2. PICK x \in Wid : role' = role \/ role' = [role EXCEPT ![x][req[i].user] = "owner"]
    BY <1>2 DEF CreateWorkspace
  <2> QED BY <1>1, <2>1, <2>2 DEF Joins, TypeOK
<1>3. CASE RemoveMember(i)
  <2>1. role' = [role EXCEPT ![req[i].ws][Removed(req[i])] = "none"]
    BY <1>3 DEF RemoveMember
  <2> QED BY <2>1 DEF Joins, TypeOK
<1>4. CASE RemoveNonOwnerMembers(i)
  <2>1. role' = [role EXCEPT ![req[i].ws] =
                    [v \in User |-> IF role[req[i].ws][v] = "owner" THEN "owner" ELSE "none"]]
    BY <1>4 DEF RemoveNonOwnerMembers
  <2> QED BY <2>1 DEF Joins, TypeOK
<1>5. CASE TransferWorkspaceOwner(i)
  <2>1. UNCHANGED role \/ role' = ChangeOwner(req[i].ws, req[i].target)
    BY <1>5 DEF TransferWorkspaceOwner
  <2> QED BY <1>1, <2>1 DEF Joins, TypeOK, ChangeOwner
<1> QED BY <1>1, <1>2, <1>3, <1>4, <1>5
    DEF Handle, ListAfterCreate, FindMember, SoftDeleteWorkspace, CreateInvitation

(* Whoever becomes a member spends an invitation of that workspace made    *)
(* out to them, in the same step (AcceptInvitation): no request in flight  *)
(* and no spent or expired one lets anybody in.                            *)
THEOREM InvitationsAreSpent == Spec => JoiningSpendsAnInvitation
<1> DEFINE Spent == \A w \in Wid, u \in User :
                role[w][u] = "none" /\ role'[w][u] = "member" =>
                    \E k \in Inv : /\ invite[k].ws = w /\ invite[k].to = u
                                   /\ invite[k].status = "pending" /\ invite'[k].status = "used"
<1>1. IInv /\ Next => Spent
  <2> SUFFICES ASSUME IInv, Next, NEW w \in Wid, NEW u \in User, Joins(w, u) PROVE Spends(w, u)
    BY DEF Joins, Spends
  <2>1. CASE UNCHANGED role
    BY <2>1 DEF Joins
  <2>2. ASSUME NEW i \in Slot, Handle(i) PROVE Spends(w, u)
    BY <2>2, HandlersAdmitNobody
  <2>3. ASSUME NEW i \in Slot, NEW v \in User, NEW k \in Inv, AcceptInvitation(i, v, k)
        PROVE  Spends(w, u)
    <3>1. /\ role' = [role EXCEPT ![invite[k].ws][v] = "member"]
          /\ invite' = [invite EXCEPT ![k].status = "used"]
          /\ invite[k].status = "pending" /\ invite[k].to = v
      BY <2>3 DEF AcceptInvitation, Acceptable
    <3>2. w = invite[k].ws /\ u = v
      BY <3>1 DEF Joins, IInv, TypeOK
    <3>3. invite'[k].status = "used"
      BY <3>1 DEF IInv, TypeOK, InvitationRow
    <3> QED BY <3>1, <3>2, <3>3 DEF Spends
  <2>4. ASSUME NEW i \in Slot, NewRequest(i) PROVE Spends(w, u)
    BY <2>1, <2>3, <2>4 DEF NewRequest, SignUp, CountWorkspaces, ListWorkspaces, FindWorkspace
  <2>5. ASSUME NEW v \in User, DeleteAccount(v) PROVE Spends(w, u)
    <3>1. role'[w][u] = "none" \/ role'[w][u] = role[w][u]
      BY <2>5 DEF DeleteAccount
    <3> QED BY <3>1 DEF Joins
  <2>6. ASSUME NEW k \in Inv, ExpireInvitation(k) PROVE Spends(w, u)
    BY <2>1, <2>6 DEF ExpireInvitation
  <2> QED BY <2>2, <2>4, <2>5, <2>6 DEF Next
<1>2. IInv /\ [Next]_vars => [Spent]_vars
  BY <1>1
<1>3. Spec => [][Spent]_vars
  BY <1>2, IInvInductive, PTL DEF Spec
<1> QED BY <1>3 DEF JoiningSpendsAnInvitation

---------------------------------------------------------------------------
(* The cap.  Counted with a user's workspaces are the inserts of theirs    *)
(* under way, each of which was let through below the cap.                 *)

Pending(u) == {i \in Slot : req[i].pc = "insert" /\ req[i].user = u}

Tally(W, P) == Cardinality(W) + Cardinality(P) <= Cap + MaxRequests - 1

Counted == \A u \in User : Tally(WorkspacesOf(u), Pending(u))

(* Before they sign up people are in no workspace. *)
NewcomersHaveNone == \A u \in User, w \in Wid : account[u] = "new" => role[w][u] = "none"

(* There are finitely many workspaces and slots. *)
LEMMA Finitely ==
    ASSUME NEW W \in SUBSET Wid, NEW P \in SUBSET Slot
    PROVE  /\ IsFiniteSet(W) /\ Cardinality(W) \in Nat
           /\ IsFiniteSet(P) /\ Cardinality(P) \in Nat /\ Cardinality(P) <= MaxRequests
<1>1. IsFiniteSet(Wid) /\ IsFiniteSet(Slot) /\ Cardinality(Slot) = MaxRequests
  BY BoundsAssumption, FS_Interval DEF Wid, Slot
<1>2. IsFiniteSet(W) /\ IsFiniteSet(P) /\ Cardinality(P) <= MaxRequests
  BY <1>1, FS_Subset
<1> QED BY <1>2, FS_CardinalityType

(* What only shrinks keeps within the bound. *)
LEMMA FewerStillTally ==
    ASSUME NEW W \in SUBSET Wid, NEW P \in SUBSET Slot, Tally(W, P),
           NEW V \in SUBSET W, NEW Q \in SUBSET P
    PROVE  Tally(V, Q)
<1>1. IsFiniteSet(W) /\ IsFiniteSet(P)
  BY Finitely
<1>2. Cardinality(V) <= Cardinality(W) /\ Cardinality(Q) <= Cardinality(P)
  BY <1>1, FS_Subset
<1>3. /\ Cardinality(W) \in Nat /\ Cardinality(P) \in Nat
      /\ Cardinality(V) \in Nat /\ Cardinality(Q) \in Nat
  BY <1>1, FS_Subset, FS_CardinalityType
<1> QED BY <1>2, <1>3, BoundsAssumption, CapAssumption DEF Tally

(* A user below the cap may have an insert in every slot. *)
LEMMA BelowTheCap ==
    ASSUME NEW W \in SUBSET Wid, NEW P \in SUBSET Slot, Cardinality(W) < Cap
    PROVE  Tally(W, P)
BY Finitely, BoundsAssumption, CapAssumption DEF Tally

(* An element makes a set larger by one at most. *)
LEMMA OneMore ==
    ASSUME NEW S, IsFiniteSet(S), NEW x
    PROVE  IsFiniteSet(S \cup {x}) /\ Cardinality(S \cup {x}) <= Cardinality(S) + 1
<1>1. Cardinality(S) \in Nat
  BY FS_CardinalityType
<1>2. /\ IsFiniteSet(S \cup {x})
      /\ Cardinality(S \cup {x}) = IF x \in S THEN Cardinality(S) ELSE Cardinality(S) + 1
  BY FS_AddElement
<1> QED BY <1>1, <1>2

(* Without one of its elements it is smaller by one. *)
LEMMA OneFewer ==
    ASSUME NEW S, IsFiniteSet(S), NEW x \in S
    PROVE  IsFiniteSet(S \ {x}) /\ Cardinality(S \ {x}) = Cardinality(S) - 1
BY FS_RemoveElement

(* An insert that is done counts as the workspace it has made. *)
LEMMA InsertedTallies ==
    ASSUME NEW W \in SUBSET Wid, NEW P \in SUBSET Slot, Tally(W, P),
           NEW w \in Wid, NEW i \in P, NEW V \in SUBSET (W \cup {w}), NEW Q \in SUBSET (P \ {i})
    PROVE  Tally(V, Q)
<1>1. IsFiniteSet(W) /\ IsFiniteSet(P) /\ Cardinality(W) \in Nat /\ Cardinality(P) \in Nat
  BY Finitely
<1>2. /\ IsFiniteSet(W \cup {w}) /\ Cardinality(W \cup {w}) <= Cardinality(W) + 1
      /\ IsFiniteSet(P \ {i}) /\ Cardinality(P \ {i}) = Cardinality(P) - 1
  BY <1>1, OneMore, OneFewer
<1>3. /\ Cardinality(V) <= Cardinality(W \cup {w}) /\ Cardinality(Q) <= Cardinality(P \ {i})
      /\ Cardinality(V) \in Nat /\ Cardinality(Q) \in Nat
      /\ Cardinality(W \cup {w}) \in Nat /\ Cardinality(P \ {i}) \in Nat
  BY <1>2, FS_Subset, FS_CardinalityType
<1> QED BY <1>1, <1>2, <1>3, BoundsAssumption, CapAssumption DEF Tally

(* An acceptance below the cap has a slot of its own, so one fewer insert  *)
(* is under way beside it.                                                 *)
LEMMA JoinedTallies ==
    ASSUME NEW W \in SUBSET Wid, Cardinality(W) < Cap, NEW w \in Wid, NEW i \in Slot,
           NEW V \in SUBSET (W \cup {w}), NEW Q \in SUBSET (Slot \ {i})
    PROVE  Tally(V, Q)
<1>1. Slot \in SUBSET Slot /\ IsFiniteSet(W) /\ IsFiniteSet(Slot)
  BY Finitely
<1>2. /\ Cardinality(W) \in Nat /\ Cardinality(Slot) \in Nat /\ Cardinality(Slot) <= MaxRequests
  BY <1>1, Finitely
<1>3. /\ IsFiniteSet(W \cup {w}) /\ Cardinality(W \cup {w}) <= Cardinality(W) + 1
      /\ IsFiniteSet(Slot \ {i}) /\ Cardinality(Slot \ {i}) = Cardinality(Slot) - 1
  BY <1>1, OneMore, OneFewer
<1>4. /\ Cardinality(V) <= Cardinality(W \cup {w}) /\ Cardinality(Q) <= Cardinality(Slot \ {i})
      /\ Cardinality(V) \in Nat /\ Cardinality(Q) \in Nat
      /\ Cardinality(W \cup {w}) \in Nat /\ Cardinality(Slot \ {i}) \in Nat
  BY <1>3, FS_Subset, FS_CardinalityType
<1> QED BY <1>2, <1>3, <1>4, BoundsAssumption, CapAssumption DEF Tally

CapIInv == IInv /\ Counted /\ NewcomersHaveNone

(* A step that adds no row, no workspace, no newcomer and no insert. *)
OnlyLess ==
    /\ \A u \in User : account'[u] = "new" => account[u] = "new"
    /\ \A w \in Wid : ws'[w].status = "live" => ws[w].status = "live"
    /\ \A w \in Wid, u \in User : role[w][u] = "none" => role'[w][u] = "none"
    /\ \A i \in Slot : req'[i].pc = "insert" => req[i].pc = "insert" /\ req'[i].user = req[i].user

(* Nobody's count grows in such a step. *)
LEMMA LessKeeps ==
    ASSUME CapIInv, OnlyLess PROVE Counted' /\ NewcomersHaveNone'
<1>1. ASSUME NEW u \in User PROVE Tally(WorkspacesOf(u)', Pending(u)')
  <2>1. WorkspacesOf(u) \in SUBSET Wid /\ Pending(u) \in SUBSET Slot
    BY DEF WorkspacesOf, Pending
  <2>2. Tally(WorkspacesOf(u), Pending(u))
    BY DEF CapIInv, Counted
  <2>3. WorkspacesOf(u)' \in SUBSET WorkspacesOf(u)
    BY DEF OnlyLess, WorkspacesOf, Live
  <2>4. Pending(u)' \in SUBSET Pending(u)
    BY DEF OnlyLess, Pending
  <2> QED BY <2>1, <2>2, <2>3, <2>4, FewerStillTally
<1>2. \A u \in User : Tally(WorkspacesOf(u), Pending(u))'
  BY <1>1 DEF Tally
<1>3. NewcomersHaveNone'
  BY DEF CapIInv, OnlyLess, NewcomersHaveNone
<1> QED BY <1>2, <1>3 DEF Counted

(* An insert is under way only for a user who was below the cap, or in no  *)
(* workspace, when it was let through.                                     *)
LEMMA InsertAsked ==
    ASSUME CapIInv, NEW i \in Slot, NEW r, req' = [req EXCEPT ![i] = r],
           r.user \in User, Cardinality(WorkspacesOf(r.user)) < Cap,
           UNCHANGED <<ws, role>>,
           \A u \in User : account'[u] = "new" => account[u] = "new"
    PROVE  Counted' /\ NewcomersHaveNone'
<1>1. \A u \in User : WorkspacesOf(u)' = WorkspacesOf(u)
  BY DEF WorkspacesOf, Live
<1>2. ASSUME NEW u \in User PROVE Tally(WorkspacesOf(u)', Pending(u)')
  <2>1. WorkspacesOf(u) \in SUBSET Wid /\ Pending(u) \in SUBSET Slot /\ Pending(u)' \in SUBSET Slot
    BY DEF WorkspacesOf, Pending
  <2>2. CASE u = r.user
    BY <1>1, <2>1, <2>2, BelowTheCap
  <2>3. CASE u # r.user
    <3>1. Pending(u)' \in SUBSET Pending(u)
      BY <2>3 DEF Pending, CapIInv, IInv, TypeOK
    <3>2. Tally(WorkspacesOf(u), Pending(u))
      BY DEF CapIInv, Counted
    <3>3. WorkspacesOf(u)' \in SUBSET WorkspacesOf(u)
      BY <1>1
    <3> QED BY <2>1, <3>1, <3>2, <3>3, FewerStillTally
  <2> QED BY <2>2, <2>3
<1>3. \A u \in User : Tally(WorkspacesOf(u), Pending(u))'
  BY <1>2 DEF Tally
<1>4. NewcomersHaveNone'
  BY DEF CapIInv, NewcomersHaveNone
<1> QED BY <1>3, <1>4 DEF Counted

(* A row for one user counts with what that user had.  The others keep to  *)
(* what they had.                                                          *)
LEMMA RowAdded ==
    ASSUME CapIInv, NEW u \in User, NEW w \in Wid, account[u] = "active", UNCHANGED account,
           \A v \in User : v # u => WorkspacesOf(v)' \subseteq WorkspacesOf(v)
                                    /\ Pending(v)' \subseteq Pending(v),
           Tally(WorkspacesOf(u)', Pending(u)'),
           \A x \in Wid, v \in User : v # u /\ role[x][v] = "none" => role'[x][v] = "none"
    PROVE  Counted' /\ NewcomersHaveNone'
<1>1. ASSUME NEW v \in User PROVE Tally(WorkspacesOf(v)', Pending(v)')
  <2>1. CASE v = u
    BY <2>1
  <2>2. CASE v # u
    <3>1. WorkspacesOf(v) \in SUBSET Wid /\ Pending(v) \in SUBSET Slot
      BY DEF WorkspacesOf, Pending
    <3>2. Tally(WorkspacesOf(v), Pending(v))
      BY DEF CapIInv, Counted
    <3>3. WorkspacesOf(v)' \in SUBSET WorkspacesOf(v) /\ Pending(v)' \in SUBSET Pending(v)
      BY <2>2
    <3> QED BY <3>1, <3>2, <3>3, FewerStillTally
  <2> QED BY <2>1, <2>2
<1>2. \A v \in User : Tally(WorkspacesOf(v), Pending(v))'
  BY <1>1 DEF Tally
<1>3. NewcomersHaveNone'
  BY DEF CapIInv, NewcomersHaveNone
<1> QED BY <1>2, <1>3 DEF Counted

(* CreateWorkspace makes a workspace of an insert, or fails. *)
LEMMA CreateCounts ==
    ASSUME CapIInv, NEW i \in Slot, CreateWorkspace(i) PROVE Counted' /\ NewcomersHaveNone'
<1> USE DEF CapIInv, IInv, TypeOK
<1> PICK u \in User : u = req[i].user
  BY DEF Request
<1>1. i \in Pending(u) /\ UNCHANGED account
  BY DEF CreateWorkspace, Pending
<1>2. req'[i].pc # "insert" /\ \A j \in Slot \ {i} : req'[j] = req[j]
  BY DEF CreateWorkspace, Goto, Free, Request
<1>3. CASE UNCHANGED <<ws, role>>
  <2>1. OnlyLess
    BY <1>1, <1>2, <1>3 DEF OnlyLess
  <2> QED BY <2>1, LessKeeps
<1>4. CASE ~UNCHANGED <<ws, role>>
  <2>1. account[u] = "active"
    BY <1>4 DEF CreateWorkspace
  <2>2. PICK w \in Wid : /\ ws[w].status = "unused"
                         /\ ws' = [ws EXCEPT ![w] = [status |-> "live", owner |-> u]]
                         /\ role' = [role EXCEPT ![w][u] = "owner"]
    BY <1>4, <2>1 DEF CreateWorkspace
  <2>3. WorkspacesOf(u)' \in SUBSET (WorkspacesOf(u) \cup {w})
    BY <2>2 DEF WorkspacesOf, Live
  <2>4. Pending(u)' \in SUBSET (Pending(u) \ {i})
    BY <1>2 DEF Pending
  <2>5. Tally(WorkspacesOf(u)', Pending(u)')
    <3>1. WorkspacesOf(u) \in SUBSET Wid /\ Pending(u) \in SUBSET Slot
      BY DEF WorkspacesOf, Pending
    <3>2. Tally(WorkspacesOf(u), Pending(u))
      BY <1>1 DEF Counted
    <3> QED BY <1>1, <2>3, <2>4, <3>1, <3>2, InsertedTallies
  <2>6. ASSUME NEW v \in User, v # u
        PROVE  WorkspacesOf(v)' \subseteq WorkspacesOf(v) /\ Pending(v)' \subseteq Pending(v)
    <3>1. \A x \in Wid : role'[x][v] = role[x][v]
      BY <2>2, <2>6
    <3>2. role[w][v] = "none"
      BY <2>2 DEF RowsNeedWorkspaces, Exists
    <3>3. WorkspacesOf(v)' \subseteq WorkspacesOf(v)
      BY <2>2, <3>1, <3>2 DEF WorkspacesOf, Live
    <3> QED BY <1>2, <3>3 DEF Pending
  <2>7. \A x \in Wid, v \in User : v # u /\ role[x][v] = "none" => role'[x][v] = "none"
    BY <2>2
  <2> QED BY <1>1, <2>1, <2>2, <2>5, <2>6, <2>7, RowAdded
<1> QED BY <1>3, <1>4

(* AcceptInvitation counts and inserts in one step. *)
LEMMA AcceptCounts ==
    ASSUME CapIInv, NEW i \in Slot, NEW u \in User, NEW k \in Inv, AcceptInvitation(i, u, k)
    PROVE  Counted' /\ NewcomersHaveNone'
<1> DEFINE w == invite[k].ws
<1> USE DEF CapIInv, IInv, TypeOK
<1>1. /\ w \in Wid /\ account[u] = "active" /\ UNCHANGED <<account, ws, req>>
      /\ role' = [role EXCEPT ![w][u] = "member"]
      /\ Cardinality(WorkspacesOf(u)) < Cap /\ req[i].pc = "free"
  BY DEF AcceptInvitation, Acceptable, Arrive, NextSlot
<1>2. WorkspacesOf(u) \in SUBSET Wid /\ WorkspacesOf(u)' \in SUBSET (WorkspacesOf(u) \cup {w})
  BY <1>1 DEF WorkspacesOf, Live
<1>3. Pending(u)' \in SUBSET (Slot \ {i})
  BY <1>1 DEF Pending
<1>4. Tally(WorkspacesOf(u)', Pending(u)')
  BY <1>1, <1>2, <1>3, JoinedTallies
<1>5. ASSUME NEW v \in User, v # u
      PROVE  WorkspacesOf(v)' \subseteq WorkspacesOf(v) /\ Pending(v)' \subseteq Pending(v)
  BY <1>1, <1>5 DEF WorkspacesOf, Live, Pending
<1>6. \A x \in Wid, v \in User : v # u /\ role[x][v] = "none" => role'[x][v] = "none"
  BY <1>1
<1> HIDE DEF w
<1> QED BY <1>1, <1>4, <1>5, <1>6, RowAdded

(* A request that arrives is an insert below the cap, an acceptance, or    *)
(* one that reads.                                                         *)
LEMMA ArrivalsCount ==
    ASSUME CapIInv, NEW i \in Slot, NewRequest(i) PROVE Counted' /\ NewcomersHaveNone'
<1> USE DEF CapIInv, IInv, TypeOK
<1>1. ASSUME NEW u \in User, SignUp(i, u) \/ CountWorkspaces(i, u) \/ ListWorkspaces(i, u)
      PROVE  Counted' /\ NewcomersHaveNone'
  <2>1. Cardinality(WorkspacesOf(u)) < Cap
    <3>1. CASE CountWorkspaces(i, u)
      BY <3>1 DEF CountWorkspaces, MayCreate
    <3>2. CASE SignUp(i, u) \/ ListWorkspaces(i, u)
      <4>1. WorkspacesOf(u) = {}
        BY <3>2 DEF SignUp, ListWorkspaces, WorkspacesOf, NewcomersHaveNone
      <4> QED BY <4>1, FS_EmptySet, CapAssumption
    <3> QED BY <1>1, <3>1, <3>2
  <2>2. UNCHANGED <<ws, role>> /\ \A v \in User : account'[v] = "new" => account[v] = "new"
    BY <1>1 DEF SignUp, CountWorkspaces, ListWorkspaces
  <2>3. PICK r : req' = [req EXCEPT ![i] = r] /\ r.user = u
    <3>1. [Free EXCEPT !.pc = "insert", !.verb = "signup", !.user = u].user = u
      BY DEF Free
    <3>2. [Free EXCEPT !.pc = "insert", !.verb = "create", !.user = u].user = u
      BY DEF Free
    <3>3. [Free EXCEPT !.pc = "insert", !.user = u].user = u
      BY DEF Free
    <3> QED BY <1>1, <3>1, <3>2, <3>3 DEF SignUp, CountWorkspaces, ListWorkspaces, Ask
  <2> QED BY <2>1, <2>2, <2>3, InsertAsked
<1>2. ASSUME NEW u \in User, NEW verb, NEW w \in Wid, NEW t, FindWorkspace(i, u, verb, w, t)
      PROVE  Counted' /\ NewcomersHaveNone'
  <2>1. UNCHANGED <<account, ws, role>> /\ req'[i].pc = "role" /\ \A j \in Slot \ {i} : req'[j] = req[j]
    BY <1>2 DEF FindWorkspace, Ask, Free
  <2>2. OnlyLess
    BY <2>1 DEF OnlyLess
  <2> QED BY <2>2, LessKeeps
<1> QED BY <1>1, <1>2, AcceptCounts DEF NewRequest

(* The steps of a request under way. *)
LEMMA HandlersCount ==
    ASSUME CapIInv, NEW i \in Slot, Handle(i) PROVE Counted' /\ NewcomersHaveNone'
<1> USE DEF CapIInv, IInv, TypeOK
<1>1. CASE ListAfterCreate(i)
  <2>1. UNCHANGED <<account, ws, role>>
    BY <1>1 DEF ListAfterCreate
  <2>2. CASE account[req[i].user] = "active" /\ WorkspacesOf(req[i].user) = {}
    <3> DEFINE r == [req[i] EXCEPT !.pc = "insert", !.verb = "list"]
    <3>1. req' = [req EXCEPT ![i] = r]
      BY <1>1, <2>2 DEF ListAfterCreate
    <3>2. r.user = req[i].user /\ r.user \in User
      BY DEF Request
    <3> HIDE DEF r
    <3>3. WorkspacesOf(r.user) = {}
      BY <2>2, <3>2
    <3>4. Cardinality(WorkspacesOf(r.user)) < Cap
      BY <3>3, FS_EmptySet, CapAssumption
    <3> QED BY <2>1, <3>1, <3>2, <3>4, InsertAsked
  <2>3. CASE ~(account[req[i].user] = "active" /\ WorkspacesOf(req[i].user) = {})
    <3>1. req' = [req EXCEPT ![i] = Free]
      BY <1>1, <2>3 DEF ListAfterCreate
    <3>2. OnlyLess
      BY <2>1, <3>1, FreeIsRequest DEF OnlyLess
    <3> QED BY <3>2, LessKeeps
  <2> QED BY <2>2, <2>3
<1>2. CASE CreateWorkspace(i)
  BY <1>2, CreateCounts
<1>3. CASE \/ FindMember(i) \/ SoftDeleteWorkspace(i) \/ CreateInvitation(i) \/ RemoveMember(i)
           \/ TransferWorkspaceOwner(i) \/ RemoveNonOwnerMembers(i)
  <2>1. req'[i].pc # "insert" /\ \A j \in Slot \ {i} : req'[j] = req[j]
    <3>1. Goto(i, "free") \/ Goto(i, "act")
      BY <1>3 DEF FindMember, SoftDeleteWorkspace, CreateInvitation, RemoveMember,
                  TransferWorkspaceOwner, RemoveNonOwnerMembers
    <3> QED BY <3>1, FreeIsRequest DEF Goto, Request
  <2>2. UNCHANGED account
    BY <1>3 DEF FindMember, SoftDeleteWorkspace, CreateInvitation, RemoveMember,
                TransferWorkspaceOwner, RemoveNonOwnerMembers
  <2>3. \A w \in Wid : ws'[w].status = "live" => ws[w].status = "live"
    BY <1>3 DEF FindMember, SoftDeleteWorkspace, CreateInvitation, RemoveMember,
                TransferWorkspaceOwner, RemoveNonOwnerMembers, Acts, WorkspaceRow, Live
  <2>4. \A w \in Wid, u \in User : role[w][u] = "none" => role'[w][u] = "none"
    <3>1. CASE UNCHANGED role
      BY <3>1
    <3>2. CASE RemoveMember(i)
      BY <3>2 DEF RemoveMember
    <3>3. CASE RemoveNonOwnerMembers(i)
      BY <3>3 DEF RemoveNonOwnerMembers
    <3>4. CASE TransferWorkspaceOwner(i)
      <4>1. CASE ~UNCHANGED role
        <5>1. /\ role[req[i].ws][req[i].target] # "none"
              /\ role' = ChangeOwner(req[i].ws, req[i].target)
          BY <3>4, <4>1 DEF TransferWorkspaceOwner
        <5> QED BY <5>1 DEF ChangeOwner
      <4> QED BY <3>1, <4>1
    <3> QED BY <1>3, <3>1, <3>2, <3>3, <3>4 DEF FindMember, SoftDeleteWorkspace, CreateInvitation
  <2>5. OnlyLess
    BY <2>1, <2>2, <2>3, <2>4 DEF OnlyLess
  <2> QED BY <2>5, LessKeeps
<1> QED BY <1>1, <1>2, <1>3 DEF Handle

(* DeleteAccount takes rows and workspaces away. *)
LEMMA DeletionCounts ==
    ASSUME CapIInv, NEW u \in User, DeleteAccount(u) PROVE Counted' /\ NewcomersHaveNone'
<1> USE DEF CapIInv, IInv, TypeOK
<1>1. UNCHANGED req /\ \A v \in User : account'[v] = "new" => account[v] = "new"
  BY DEF DeleteAccount
<1>2. \A w \in Wid : ws'[w].status = "live" => ws[w].status = "live"
  BY DEF DeleteAccount
<1>3. \A w \in Wid, v \in User : role[w][v] = "none" => role'[w][v] = "none"
  BY DEF DeleteAccount
<1>4. OnlyLess
  BY <1>1, <1>2, <1>3 DEF OnlyLess
<1> QED BY <1>4, LessKeeps

(* The count of workspaces and inserts is inductive. *)
LEMMA CapIInvInductive == Spec => []CapIInv
<1>1. Init => CapIInv
  <2> SUFFICES ASSUME Init PROVE Counted /\ NewcomersHaveNone
    BY InitHolds DEF CapIInv
  <2>1. ASSUME NEW u \in User PROVE Tally(WorkspacesOf(u), Pending(u))
    <3>1. WorkspacesOf(u) = {} /\ Pending(u) \in SUBSET Slot
      BY DEF Init, WorkspacesOf, Pending
    <3>2. WorkspacesOf(u) \in SUBSET Wid /\ Cardinality(WorkspacesOf(u)) < Cap
      BY <3>1, FS_EmptySet, CapAssumption
    <3> QED BY <3>1, <3>2, BelowTheCap
  <2>2. NewcomersHaveNone
    BY DEF Init, NewcomersHaveNone
  <2> QED BY <2>1, <2>2 DEF Counted
<1>2. ASSUME CapIInv, Next PROVE Counted' /\ NewcomersHaveNone'
  <2>1. ASSUME NEW k \in Inv, ExpireInvitation(k) PROVE OnlyLess
    BY <2>1 DEF ExpireInvitation, OnlyLess
  <2> QED BY <1>2, <2>1, LessKeeps, ArrivalsCount, HandlersCount, DeletionCounts DEF Next
<1>3. CapIInv /\ UNCHANGED vars => Counted' /\ NewcomersHaveNone'
  <2>1. UNCHANGED vars => OnlyLess
    BY DEF vars, OnlyLess
  <2> QED BY <2>1, LessKeeps
<1>4. CapIInv /\ [Next]_vars /\ IInv' => CapIInv'
  BY <1>2, <1>3 DEF CapIInv
<1> QED BY <1>1, <1>4, IInvInductive, PTL DEF Spec

(* However the counts and the inserts of a user's requests interleave, the *)
(* cap is overrun by fewer workspaces than requests are handled at once.   *)
THEOREM CapNearlyHolds == Spec => []CapOverrunIsBounded
<1>1. CapIInv => CapOverrunIsBounded
  <2> SUFFICES ASSUME CapIInv, NEW u \in User
               PROVE  Cardinality(WorkspacesOf(u)) <= Cap + MaxRequests - 1
    BY DEF CapOverrunIsBounded
  <2>1. WorkspacesOf(u) \in SUBSET Wid /\ Pending(u) \in SUBSET Slot
    BY DEF WorkspacesOf, Pending
  <2>2. Tally(WorkspacesOf(u), Pending(u))
    BY DEF CapIInv, Counted
  <2> QED BY <2>1, <2>2, Finitely, BoundsAssumption, CapAssumption DEF Tally
<1> QED BY <1>1, CapIInvInductive, PTL
=============================================================================
