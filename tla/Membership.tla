----------------------------- MODULE Membership -----------------------------
(***************************************************************************)
(* Who owns and who may use which workspace: the tables workspaces,        *)
(* workspace_members and workspace_invitations (internal/server/auth/      *)
(* workspaces.go) and the handlers that change them                        *)
(* (internal/server/workspace_membership.go, workspace_resolver.go).       *)
(*                                                                         *)
(* The database has one connection, so a statement, or a transaction, is   *)
(* one atomic step; a handler that reads, decides and writes is several,   *)
(* and the requests of all users interleave between them.                  *)
(***************************************************************************)
EXTENDS Integers, FiniteSets

CONSTANTS
    User,           \* accounts; a user is also the e-mail address invited
    MaxWorkspaces,  \* bound: workspaces ever created
    MaxInvitations, \* bound: invitations ever created
    MaxRequests,    \* bound: requests being handled at the same time
    MaxAsked,       \* bound: requests ever made
    Cap             \* ResolveWorkspaceCap of every user

ASSUME UserAssumption == User # {}
ASSUME BoundsAssumption ==
    /\ MaxWorkspaces \in Nat /\ MaxInvitations \in Nat
    /\ MaxRequests \in Nat /\ MaxAsked \in Nat
ASSUME CapAssumption == Cap \in Nat \ {0}

VARIABLES
    account,  \* users: new, active or deleted
    ws,       \* the rows of workspaces
    role,     \* the rows of workspace_members; "none" for no row
    invite,   \* the rows of workspace_invitations
    req,      \* the requests being handled, one per slot
    asked,    \* the number of requests made
    raced     \* history: see TransferWorkspaceOwner

vars == <<account, ws, role, invite, req, asked, raced>>

Wid == 1 .. MaxWorkspaces
Inv == 1 .. MaxInvitations
Slot == 1 .. MaxRequests

Account == {"new", "active", "deleted"}
Role == {"none", "member", "owner"}
OwnerVerb == {"delete", "invite", "remove", "transfer", "personal"}
Verb == OwnerVerb \cup {"leave", "create", "list", "signup"}
Pc == {"free", "role", "act", "insert", "list"}

(* purged and gone rows were deleted with an account. *)
WorkspaceRow == [status : {"unused", "live", "deleted", "purged"}, owner : User]
InvitationRow ==
    [status : {"unused", "pending", "used", "expired", "gone"}, ws : Nat, to : User, by : User]

(* owner is the OwnerID of the workspace row a request has read. *)
Request ==
    [pc : Pc, verb : Verb, user : User, ws : Nat, target : User, owner : User]

AnyUser == CHOOSE u \in User : TRUE
Free == [pc |-> "free", verb |-> "list", user |-> AnyUser, ws |-> 0, target |-> AnyUser,
         owner |-> AnyUser]

NoInvitation(status) == [status |-> status, ws |-> 0, to |-> AnyUser, by |-> AnyUser]

Live(w) == ws[w].status = "live"

(* CountWorkspacesForUser and ListWorkspacesForUser skip deleted rows.     *)
WorkspacesOf(u) == {w \in Wid : Live(w) /\ role[w][u] # "none"}

---------------------------------------------------------------------------
(* Requests.                                                               *)

NextSlot(i) == req[i].pc = "free" /\ \A j \in Slot : req[j].pc = "free" => i <= j

Arrive(i) ==
    /\ NextSlot(i)
    /\ asked < MaxAsked
    /\ asked' = asked + 1

Ask(i, r) ==
    /\ Arrive(i)
    /\ req' = [req EXCEPT ![i] = r]

Goto(i, pc) == req' = [req EXCEPT ![i] = IF pc = "free" THEN Free ELSE [@ EXCEPT !.pc = pc]]

(* The account exists with the signup; OnUserSignedUp then provisions.     *)
SignUp(i, u) ==
    /\ account[u] = "new"
    /\ account' = [account EXCEPT ![u] = "active"]
    /\ Ask(i, [Free EXCEPT !.pc = "insert", !.verb = "signup", !.user = u])
    /\ UNCHANGED <<ws, role, invite, raced>>

---------------------------------------------------------------------------
(* createWorkspaceForUser and ensureUserHasWorkspace.  A request is        *)
(* authenticated and makes its first read in one step: before that read    *)
(* nothing tells whether it has arrived.                                   *)

(* Mutant of MayCreate: the cap is off by one.                              *)
MayCreateOneMore(u) == Cardinality(WorkspacesOf(u)) <= Cap

MayCreate(u) == Cardinality(WorkspacesOf(u)) < Cap

CountWorkspaces(i, u) ==
    /\ account[u] = "active"
    /\ MayCreate(u)
    /\ Ask(i, [Free EXCEPT !.pc = "insert", !.verb = "create", !.user = u])
    /\ UNCHANGED <<account, ws, role, invite, raced>>

(* A user without a workspace gets one, whatever the cap.                  *)
ListWorkspaces(i, u) ==
    /\ account[u] = "active"
    /\ WorkspacesOf(u) = {}
    /\ Ask(i, [Free EXCEPT !.pc = "insert", !.user = u])
    /\ UNCHANGED <<account, ws, role, invite, raced>>

(* CreateWorkspace: the row and the owner's membership in one transaction; *)
(* it fails when the account is gone.  A create then lists.                *)
CreateWorkspace(i) ==
    LET u == req[i].user
    IN  /\ req[i].pc = "insert"
        /\ IF account[u] = "active"
           THEN \E w \in Wid :
                    /\ ws[w].status = "unused" /\ \A v \in Wid : v < w => ws[v].status # "unused"
                    /\ ws' = [ws EXCEPT ![w] = [status |-> "live", owner |-> u]]
                    /\ role' = [role EXCEPT ![w][u] = "owner"]
                    /\ Goto(i, IF req[i].verb = "create" THEN "list" ELSE "free")
           ELSE Goto(i, "free") /\ UNCHANGED <<ws, role>>
        /\ UNCHANGED <<account, invite, asked, raced>>

(* The list a create answers with, authenticated once more.                *)
ListAfterCreate(i) ==
    /\ req[i].pc = "list"
    /\ req' = [req EXCEPT ![i] = IF account[@.user] = "active" /\ WorkspacesOf(@.user) = {}
                                 THEN [@ EXCEPT !.pc = "insert", !.verb = "list"] ELSE Free]
    /\ UNCHANGED <<account, ws, role, invite, asked, raced>>

---------------------------------------------------------------------------
(* requireMembership and requireOwner: the workspace row, then the member  *)
(* row.  The checks of the handlers follow the second read.                *)

FindWorkspace(i, u, verb, w, target) ==
    /\ account[u] = "active"
    /\ Live(w)
    /\ Ask(i, [Free EXCEPT !.pc = "role", !.verb = verb, !.user = u, !.ws = w,
                           !.target = target, !.owner = ws[w].owner])
    /\ UNCHANGED <<account, ws, role, invite, raced>>

(* Mutant of MayAct: an owner may leave.                                    *)
MayActUnchecked(r) == role[r.ws][r.user] # "none" /\ (r.verb \in OwnerVerb => role[r.ws][r.user] = "owner")

MayAct(r) ==
    LET mine == role[r.ws][r.user]
    IN  CASE r.verb = "leave"    -> mine = "member"
          [] r.verb = "remove"   -> mine = "owner" /\ r.target # r.owner
          [] r.verb = "transfer" -> mine = "owner" /\ r.target # r.user
          [] OTHER               -> mine = "owner"

FindMember(i) ==
    /\ req[i].pc = "role"
    /\ Goto(i, IF MayAct(req[i]) THEN "act" ELSE "free")
    /\ UNCHANGED <<account, ws, role, invite, asked, raced>>

Acts(i, verb) == req[i].pc = "act" /\ req[i].verb = verb

---------------------------------------------------------------------------
(* The writes.                                                             *)

SoftDeleteWorkspace(i) ==
    LET w == req[i].ws
    IN  /\ Acts(i, "delete")
        /\ ws' = IF Live(w) THEN [ws EXCEPT ![w].status = "deleted"] ELSE ws
        /\ Goto(i, "free")
        /\ UNCHANGED <<account, role, invite, asked, raced>>

(* The invitation references the workspace's row and the inviter's.        *)
CreateInvitation(i) ==
    LET r == req[i]
    IN  /\ Acts(i, "invite")
        /\ IF ws[r.ws].status # "purged" /\ account[r.user] = "active"
           THEN \E k \in Inv :
                    /\ invite[k].status = "unused" /\ \A j \in Inv : j < k => invite[j].status # "unused"
                    /\ invite' = [invite EXCEPT ![k] = [status |-> "pending", ws |-> r.ws,
                                                        to |-> r.target, by |-> r.user]]
           ELSE UNCHANGED invite
        /\ Goto(i, "free")
        /\ UNCHANGED <<account, ws, role, asked, raced>>

ExpireInvitation(k) ==
    /\ invite[k].status = "pending"
    /\ invite' = [invite EXCEPT ![k].status = "expired"]
    /\ UNCHANGED <<account, ws, role, req, asked, raced>>

(* Mutant of Acceptable: an invitation can be used again.                   *)
AcceptableTwice(u, k) ==
    LET inv == invite[k]
    IN  /\ inv.status \in {"pending", "used"}
        /\ Live(inv.ws)
        /\ inv.to = u
        /\ role[inv.ws][u] = "none"
        /\ Cardinality(WorkspacesOf(u)) < Cap

(* An invitation of a member is answered with success and not spent.       *)
Acceptable(u, k) ==
    LET inv == invite[k]
    IN  /\ inv.status = "pending"
        /\ Live(inv.ws)
        /\ inv.to = u
        /\ role[inv.ws][u] = "none"
        /\ Cardinality(WorkspacesOf(u)) < Cap

(* AcceptInvitation: every check and both writes in one transaction, which *)
(* fails when the account is gone by then.  i: the request's slot.         *)
AcceptInvitation(i, u, k) ==
    /\ Arrive(i)
    /\ account[u] = "active"
    /\ Acceptable(u, k)
    /\ role' = [role EXCEPT ![invite[k].ws][u] = "member"]
    /\ invite' = [invite EXCEPT ![k].status = "used"]
    /\ UNCHANGED <<account, ws, req, raced>>

(* RemoveMember, for handleMemberRemove and handleMemberLeave: whatever    *)
(* role the row has by now.                                                *)
Removed(r) == IF r.verb = "leave" THEN r.user ELSE r.target

RemoveMember(i) ==
    LET r == req[i]
    IN  /\ Acts(i, "remove") \/ Acts(i, "leave")
        /\ role' = [role EXCEPT ![r.ws][Removed(r)] = "none"]
        /\ Goto(i, "free")
        /\ UNCHANGED <<account, ws, invite, asked, raced>>

(* A request that will remove u from w and is past the read that should    *)
(* have told it that u is the owner.                                       *)
WillRemove(r, w, u) ==
    /\ r.ws = w
    /\ \/ r.verb = "remove" /\ r.target = u /\ r.pc \in {"role", "act"}
       \/ r.verb = "leave" /\ r.user = u /\ r.pc = "act"

(* Mutant of ChangeOwner: the previous owner's row keeps its role.          *)
ChangeOwnerOnly(w, u) == [role EXCEPT ![w][u] = "owner"]

(* The previous owner's row becomes a member's, then the target's the      *)
(* owner's.                                                                *)
ChangeOwner(w, u) ==
    LET demoted(v) == IF v = ws[w].owner /\ role[w][v] # "none" THEN "member" ELSE role[w][v]
    IN  [role EXCEPT ![w] = [v \in User |-> IF v = u THEN "owner" ELSE demoted(v)]]

TransferWorkspaceOwner(i) ==
    LET w == req[i].ws
        u == req[i].target
    IN  /\ Acts(i, "transfer")
        /\ IF Live(w) /\ role[w][u] # "none"
           THEN /\ ws' = [ws EXCEPT ![w].owner = u]
                /\ role' = ChangeOwner(w, u)
                /\ raced' = IF \E j \in Slot : WillRemove(req[j], w, u) THEN raced \cup {w}
                                                                     ELSE raced
           ELSE UNCHANGED <<ws, role, raced>>
        /\ Goto(i, "free")
        /\ UNCHANGED <<account, invite, asked>>

(* handleSwitchToPersonal. *)
RemoveNonOwnerMembers(i) ==
    /\ Acts(i, "personal")
    /\ role' = [role EXCEPT ![req[i].ws] =
                    [u \in User |-> IF @[u] = "owner" THEN "owner" ELSE "none"]]
    /\ Goto(i, "free")
    /\ UNCHANGED <<account, ws, invite, asked, raced>>

(* DeleteUserByID: the account's workspaces, memberships and invitations   *)
(* are deleted with it (ON DELETE CASCADE).                                *)
DeleteAccount(u) ==
    LET purged == {w \in Wid : ws[w].status \in {"live", "deleted"} /\ ws[w].owner = u}
        gone(inv) == inv.status # "unused" /\ (inv.ws \in purged \/ inv.by = u)
    IN  /\ account[u] = "active"
        /\ account' = [account EXCEPT ![u] = "deleted"]
        /\ ws' = [w \in Wid |-> IF w \in purged THEN [status |-> "purged", owner |-> AnyUser]
                                         ELSE ws[w]]
        /\ role' = [w \in Wid |-> [v \in User |-> IF w \in purged \/ v = u THEN "none"
                                                                        ELSE role[w][v]]]
        /\ invite' = [k \in Inv |-> IF gone(invite[k]) THEN NoInvitation("gone")
                                                     ELSE invite[k]]
        /\ UNCHANGED <<req, asked, raced>>

---------------------------------------------------------------------------
Init ==
    /\ account \in [User -> {"new", "active"}]
    /\ ws = [w \in Wid |-> [status |-> "unused", owner |-> AnyUser]]
    /\ role = [w \in Wid |-> [u \in User |-> "none"]]
    /\ invite = [k \in Inv |-> NoInvitation("unused")]
    /\ req = [i \in Slot |-> Free]
    /\ asked = 0
    /\ raced = {}

NewRequest(i) ==
    \E u \in User :
        \/ SignUp(i, u)
        \/ CountWorkspaces(i, u)
        \/ ListWorkspaces(i, u)
        \/ \E k \in Inv : AcceptInvitation(i, u, k)
        \/ \E w \in Wid :
            \/ \E verb \in {"delete", "personal", "leave"} : FindWorkspace(i, u, verb, w, AnyUser)
            \/ \E verb \in {"invite", "remove", "transfer"}, t \in User :
                    FindWorkspace(i, u, verb, w, t)

Handle(i) ==
    \/ CreateWorkspace(i)
    \/ ListAfterCreate(i)
    \/ FindMember(i)
    \/ SoftDeleteWorkspace(i)
    \/ CreateInvitation(i)
    \/ RemoveMember(i)
    \/ TransferWorkspaceOwner(i)
    \/ RemoveNonOwnerMembers(i)

Next ==
    \/ \E i \in Slot : NewRequest(i) \/ Handle(i)
    \/ \E k \in Inv : ExpireInvitation(k)
    \/ \E u \in User : DeleteAccount(u)

Spec == Init /\ [][Next]_vars

---------------------------------------------------------------------------
(* Properties.                                                             *)

TypeOK ==
    /\ account \in [User -> Account]
    /\ ws \in [Wid -> WorkspaceRow]
    /\ role \in [Wid -> [User -> Role]]
    /\ invite \in [Inv -> InvitationRow]
    /\ \A k \in Inv : invite[k].status \notin {"unused", "gone"} => invite[k].ws \in Wid
    /\ req \in [Slot -> Request]
    /\ \A i \in Slot : req[i].pc \in {"role", "act"} => req[i].ws \in Wid
    /\ asked \in 0 .. MaxAsked
    /\ raced \in SUBSET Wid

(* The two places that name an owner agree: a member row says "owner" only *)
(* for the user in the workspace's owner_id, through any order of          *)
(* transfers, removals and deletions.                                      *)
OneOwner == \A w \in Wid, u \in User : role[w][u] = "owner" => ws[w].owner = u

Exists(w) == ws[w].status \in {"live", "deleted"}

(* "Removing the owner would orphan the workspace": a workspace loses its  *)
(* owner's membership only through one race, a removal that passed its     *)
(* check before a transfer made its target the owner.                      *)
OrphanedOnlyByRace ==
    \A w \in Wid : Exists(w) /\ w \notin raced => role[w][ws[w].owner] = "owner"

(* The cap of workspaces per user is overrun by no more than the requests  *)
(* handled at once: a count and the insert it allows are two steps.        *)
CapOverrunIsBounded ==
    \A u \in User : Cardinality(WorkspacesOf(u)) <= Cap + MaxRequests - 1

(* "Single-use invite": whoever becomes a member spends an invitation made *)
(* out to them, and a spent one brings nobody back after leaving.          *)
JoiningSpendsAnInvitation ==
    [][\A w \in Wid, u \in User :
        role[w][u] = "none" /\ role'[w][u] = "member" =>
            \E k \in Inv : /\ invite[k].ws = w /\ invite[k].to = u
                           /\ invite[k].status = "pending" /\ invite'[k].status = "used"]_vars
=============================================================================
