----------------------------- MODULE Membership -----------------------------
(***************************************************************************)
(* Who belongs to which workspace, and who owns it:                        *)
(* backend/app/workspace/service.py behind the gates of backend/app/deps.py*)
(* and the routes of backend/app/workspace/router.py, and the one insert   *)
(* of backend/app/accounts that a membership change races with.            *)
(*                                                                         *)
(* A request is one database transaction at READ COMMITTED.  Every SELECT  *)
(* is a step of its own and sees what is committed then; it locks nothing. *)
(* The writes come last, in one step placed at the COMMIT: they keep their *)
(* row locks until it, and a statement that waited for one evaluates its   *)
(* WHERE again.  An error of any kind rolls the request back.              *)
(*                                                                         *)
(* Every user and workspace here is active.  A deactivated one has its     *)
(* requests refused by require_membership before they begin.               *)
(***************************************************************************)
EXTENDS Naturals, FiniteSets

CONSTANTS
    Users,
    Workspaces,   \* workspace ids (one uuid each, never used twice)
    Invites,      \* invite ids and their tokens
    Requests,     \* requests that may overlap
    None          \* no workspace, no target

ASSUME MembershipConstants ==
    /\ IsFiniteSet(Requests) /\ IsFiniteSet(Users)
    /\ None \notin Users \cup Workspaces \cup Invites

VARIABLES
    home,        \* the workspace_member row of each user, unique: its workspace
    role,        \* the role in that row ("member" without a row)
    workspace,   \* is there a row with this id?
    accounts,    \* workspaces with at least one account
    inviteTo,    \* the workspace an invite is to, None before it is issued
    marks,       \* is accepted_at set, and is it withdrawn: revoked_at set, or expired
    request,     \* where each request is, and what it carries
    uses,        \* history: acceptances committed with an invite
    raced        \* history: workspaces with a transfer that did not run alone

db == <<home, role, workspace, accounts, inviteTo, marks>>
vars == <<db, request, uses, raced>>

OwnerOps == {"invite", "revoke", "transfer", "remove"}
Ops == OwnerOps \cup {"found", "accept", "leave", "open account"}

\* The requests that change a role or end a membership.
RoleOps == {"transfer", "remove", "leave"}

Idle == [at |-> "idle", op |-> "found", user |-> None, ws |-> None,
         target |-> None, since |-> {}]

RequestState == {Idle} \cup
    [at : {"check", "members", "accounts", "ready", "close"}, op : Ops,
     user : Users, ws : Workspaces \cup {None},
     target : Users \cup Invites \cup {None}, since : SUBSET {"join", "account"}]

There == {w \in Workspaces : workspace[w] = "there"}
Members(w) == {u \in Users : home[u] = w}
Owners(w) == {u \in Members(w) : role[u] = "owner"}

\* The row of an invite is deleted with its workspace (ON DELETE CASCADE).
Issued(i) == inviteTo[i] \in There
\* Variant: accepted_at is not looked at.
LiveUnlessWithdrawn(i) == Issued(i) /\ marks[i] \subseteq {"accepted"}
Live(i) == Issued(i) /\ marks[i] = {}

Init ==
    /\ home = [u \in Users |-> None]
    /\ role = [u \in Users |-> "member"]
    /\ workspace = [w \in Workspaces |-> "unused"]
    /\ accounts = {}
    /\ inviteTo = [i \in Invites |-> None]
    /\ marks = [i \in Invites |-> {}]
    /\ request = [r \in Requests |-> Idle]
    /\ uses = [i \in Invites |-> 0]
    /\ raced = {}

-----------------------------------------------------------------------------
(* The gates: what a request reads before its handler runs.                *)

Overlaps(op, w) == \E s \in Requests :
    /\ request[s].ws = w
    /\ request[s].op \in RoleOps /\ op \in RoleOps
    /\ "transfer" \in {op, request[s].op}

Start(r, op, u, w, x, at) ==
    /\ request[r] = Idle
    /\ request' = [request EXCEPT ![r] =
           [at |-> at, op |-> op, user |-> u, ws |-> w, target |-> x, since |-> {}]]
    /\ raced' = IF Overlaps(op, w) THEN raced \cup {w} ELSE raced
    /\ UNCHANGED <<db, uses>>

\* require_membership: the scope is read once and is not read again.
RequireMembership(u) == home[u] # None

\* Variant: any member passes.
RequireOwnerOrMember(u) == RequireMembership(u)
\* require_owner.  It reads the row again, for the workspace of the scope: at that
\* moment the read of require_membership would give the same scope, so the two
\* are one step.
RequireOwner(u) == RequireMembership(u) /\ role[u] = "owner"

\* GET /api/workspace, when the caller has no row.  (With one it writes nothing.)
StartFound(r, u) == home[u] = None /\ Start(r, "found", u, None, None, "ready")

StartAccount(r, u) ==
    RequireMembership(u) /\ Start(r, "open account", u, home[u], None, "ready")

StartInvite(r, u) == RequireOwner(u) /\ Start(r, "invite", u, home[u], None, "ready")

\* The id or the token of an invite is known once it was issued.
StartRevoke(r, u, i) ==
    /\ RequireOwner(u) /\ inviteTo[i] # None
    /\ Start(r, "revoke", u, home[u], i, "ready")

StartAccept(r, u, i) ==
    /\ RequireMembership(u) /\ inviteTo[i] # None
    /\ Start(r, "accept", u, home[u], i, "check")

StartLeave(r, u) == RequireMembership(u) /\ Start(r, "leave", u, home[u], None, "check")

\* A transfer to oneself returns at once, and removing oneself is refused.
StartTransfer(r, u, v) ==
    /\ RequireOwner(u) /\ v # u
    /\ Start(r, "transfer", u, home[u], v, "check")

StartRemove(r, u, v) ==
    /\ RequireOwner(u) /\ v # u
    /\ Start(r, "remove", u, home[u], v, "ready")

-----------------------------------------------------------------------------
(* The reads of a handler.  A read that finds otherwise raises: Fail.      *)

At(r, op, at) == request[r].op = op /\ request[r].at = at

Goto(r, at) ==
    /\ request' = [request EXCEPT ![r].at = at]
    /\ UNCHANGED <<db, uses, raced>>

\* accept_invite: the invite, then the members, then the accounts of the
\* workspace the accepter is to give up.
CheckInvite(r) ==
    /\ At(r, "accept", "check") /\ Live(request[r].target)
    /\ Goto(r, "members")

\* Variant: the members are not counted.
CountMembersAnyhow(r) == At(r, "accept", "members") /\ Goto(r, "accounts")
CountMembers(r) ==
    /\ At(r, "accept", "members") /\ Cardinality(Members(request[r].ws)) <= 1
    /\ Goto(r, "accounts")

\* Variant: the accounts are not counted.
CountAccountsAnyhow(r) == At(r, "accept", "accounts") /\ Goto(r, "ready")
CountAccounts(r) ==
    /\ At(r, "accept", "accounts") /\ request[r].ws \notin accounts
    /\ Goto(r, "ready")

\* leave_workspace: the caller's role, and an owner counts the others.
ReadRole(r) == LET q == request[r] IN
    /\ At(r, "leave", "check") /\ home[q.user] = q.ws
    /\ Goto(r, IF role[q.user] = "owner" THEN "members" ELSE "ready")

CountOthers(r) ==
    /\ At(r, "leave", "members") /\ Members(request[r].ws) \subseteq {request[r].user}
    /\ Goto(r, "close")

\* transfer_ownership
CheckTarget(r) ==
    /\ At(r, "transfer", "check") /\ home[request[r].target] = request[r].ws
    /\ Goto(r, "ready")

-----------------------------------------------------------------------------
(* The writes, at COMMIT.                                                  *)

\* History: what the requests that may delete workspace w have not counted.
Tell(w, what) == [s \in Requests |->
    IF request[s].ws = w /\ request[s].op \in {"accept", "leave"}
    THEN [request[s] EXCEPT !.since = @ \cup {what}]
    ELSE request[s]]

Finish(r) == request' = [request EXCEPT ![r] = Idle]
FinishTelling(r, w, what) == request' = [Tell(w, what) EXCEPT ![r] = Idle]

\* Variant: the foreign key of workspace_member does not cascade.
WithoutCascade(w, h) == h
\* Deleting the row of w, if it is still there, deletes its members, invites
\* and accounts with it: what marks and uses said of these invites is dropped.
Without(w, h) == [u \in Users |-> IF h[u] = w THEN None ELSE h[u]]
Forget(w, blank, f) == [i \in Invites |-> IF inviteTo[i] = w THEN blank ELSE f[i]]
DeleteWorkspace(w) ==
    /\ workspace' = [workspace EXCEPT ![w] = "deleted"]
    /\ accounts' = accounts \ {w}
    /\ raced' = raced \ {w}

\* get_or_create_workspace.  If the caller has got a row in the meantime the
\* unique constraint fails the insert and the row is read instead: Fail.
Found(r) == LET u == request[r].user IN
    /\ At(r, "found", "ready") /\ home[u] = None
    /\ \E w \in Workspaces :
        /\ workspace[w] = "unused"
        /\ workspace' = [workspace EXCEPT ![w] = "there"]
        /\ home' = [home EXCEPT ![u] = w]
    /\ role' = [role EXCEPT ![u] = "owner"]
    /\ Finish(r)
    /\ UNCHANGED <<accounts, inviteTo, marks, uses, raced>>

OpenAccount(r) == LET w == request[r].ws IN
    /\ At(r, "open account", "ready") /\ w \in There
    /\ accounts' = accounts \cup {w}
    /\ FinishTelling(r, w, "account")
    /\ UNCHANGED <<home, role, workspace, inviteTo, marks, uses, raced>>

GenerateInvite(r) == LET w == request[r].ws IN
    /\ At(r, "invite", "ready") /\ w \in There
    /\ \E i \in Invites : inviteTo[i] = None /\ inviteTo' = [inviteTo EXCEPT ![i] = w]
    /\ Finish(r)
    /\ UNCHANGED <<home, role, workspace, accounts, marks, uses, raced>>

RevokeInvite(r) == LET q == request[r] IN
    /\ At(r, "revoke", "ready") /\ Issued(q.target) /\ inviteTo[q.target] = q.ws
    /\ marks' = [marks EXCEPT ![q.target] = @ \cup {"withdrawn"}]
    /\ Finish(r)
    /\ UNCHANGED <<home, role, workspace, accounts, inviteTo, uses, raced>>

\* Every member row of the old workspace goes, the accepter's new row comes
\* with the default role, and then the old workspace is deleted: if the invite
\* was to that very workspace, the new row is deleted with it.
AcceptInvite(r) == LET q == request[r]  to == inviteTo[q.target] IN
    /\ At(r, "accept", "ready")
    /\ Issued(q.target) /\ home[q.user] \in {q.ws, None}
    /\ home' = Without(q.ws, [Without(q.ws, home) EXCEPT ![q.user] = to])
    /\ role' = [u \in Users |->
                    IF u = q.user \/ home[u] = q.ws THEN "member" ELSE role[u]]
    /\ marks' = Forget(q.ws, {}, [marks EXCEPT ![q.target] = @ \cup {"accepted"}])
    /\ uses' = Forget(q.ws, 0, [uses EXCEPT ![q.target] = @ + 1])
    /\ DeleteWorkspace(q.ws)
    /\ FinishTelling(r, to, "join")
    /\ UNCHANGED inviteTo

\* Neither UPDATE is checked for the number of rows it matched.  The audit row
\* refers to the workspace, so there has to be one.
TransferOwnership(r) == LET q == request[r] IN
    /\ At(r, "transfer", "ready") /\ q.ws \in There
    /\ role' = [u \in Users |->
                    IF home[u] # q.ws THEN role[u]
                    ELSE IF u = q.target THEN "owner"
                    ELSE IF u = q.user THEN "member" ELSE role[u]]
    /\ Finish(r)
    /\ UNCHANGED <<home, workspace, accounts, inviteTo, marks, uses, raced>>

EndMembership(u) ==
    /\ home' = [home EXCEPT ![u] = None]
    /\ role' = [role EXCEPT ![u] = "member"]
    /\ UNCHANGED <<workspace, accounts>>

RemoveMember(r) == LET q == request[r] IN
    /\ At(r, "remove", "ready") /\ home[q.target] = q.ws
    /\ EndMembership(q.target)
    /\ Finish(r)
    /\ UNCHANGED <<inviteTo, marks, uses, raced>>

\* The DELETE of a leaver whose row is already gone matches nothing.
LeaveAsMember(r) == LET q == request[r] IN
    /\ At(r, "leave", "ready")
    /\ IF home[q.user] = q.ws THEN EndMembership(q.user)
                              ELSE UNCHANGED <<home, role, workspace, accounts>>
    /\ Finish(r)
    /\ UNCHANGED <<inviteTo, marks, uses, raced>>

LeaveAsSoleOwner(r) == LET w == request[r].ws IN
    /\ At(r, "leave", "close")
    /\ home' = Without(w, home)
    /\ role' = [u \in Users |-> IF home[u] = w THEN "member" ELSE role[u]]
    /\ marks' = Forget(w, {}, marks) /\ uses' = Forget(w, 0, uses)
    /\ DeleteWorkspace(w)
    /\ Finish(r)
    /\ UNCHANGED inviteTo

\* A rejected check, a constraint that fails a write, a deadlock, a lost
\* connection or a timeout: the session is closed without a COMMIT.
Fail(r) ==
    /\ request[r] # Idle
    /\ Finish(r) /\ UNCHANGED <<db, uses, raced>>

\* Time passes expires_at.
Expire(i) ==
    /\ Issued(i) /\ "withdrawn" \notin marks[i]
    /\ marks' = [marks EXCEPT ![i] = @ \cup {"withdrawn"}]
    /\ UNCHANGED <<home, role, workspace, accounts, inviteTo, request, uses, raced>>

-----------------------------------------------------------------------------

Read(r) ==
    \/ CheckInvite(r) \/ CountMembers(r) \/ CountAccounts(r)
    \/ ReadRole(r) \/ CountOthers(r) \/ CheckTarget(r)

Write(r) ==
    \/ Found(r) \/ OpenAccount(r)
    \/ GenerateInvite(r) \/ RevokeInvite(r) \/ AcceptInvite(r)
    \/ TransferOwnership(r) \/ RemoveMember(r)
    \/ LeaveAsMember(r) \/ LeaveAsSoleOwner(r)

Begin(r) == \E u \in Users :
    \/ StartFound(r, u) \/ StartAccount(r, u) \/ StartInvite(r, u) \/ StartLeave(r, u)
    \/ \E i \in Invites : StartRevoke(r, u, i) \/ StartAccept(r, u, i)
    \/ \E v \in Users : StartTransfer(r, u, v) \/ StartRemove(r, u, v)

Next ==
    \/ \E r \in Requests : Begin(r) \/ Read(r) \/ Write(r) \/ Fail(r)
    \/ \E i \in Invites : Expire(i)

Spec == Init /\ [][Next]_vars

-----------------------------------------------------------------------------
(* Properties.                                                             *)

\* Types, and what the foreign keys and the cascade keep: rows refer to
\* workspaces that are there.
TypeOK ==
    /\ home \in [Users -> There \cup {None}]
    /\ role \in [Users -> {"owner", "member"}]
    /\ \A u \in Users : home[u] = None => role[u] = "member"
    /\ workspace \in [Workspaces -> {"unused", "there", "deleted"}]
    /\ accounts \subseteq There
    /\ inviteTo \in [Invites -> Workspaces \cup {None}]
    /\ marks \in [Invites -> SUBSET {"accepted", "withdrawn"}]
    /\ request \in [Requests -> RequestState]
    /\ uses \in [Invites -> Nat]
    /\ raced \subseteq There

OwnedByOne(w) == \E u \in Owners(w) : Owners(w) = {u}

\* A workspace has exactly one owner as long as each of its ownership transfers
\* ran without another transfer, removal or departure of the same workspace
\* under way: however acceptances, onboarding and failures interleave, none of
\* them makes a second owner, or leaves a workspace to nobody.
OneOwner == \A w \in There \ raced : OwnedByOne(w)

\* What remove_member relies on ("single-owner invariant, O4"): every workspace
\* has exactly one owner, always.
SingleOwner == \A w \in There : OwnedByOne(w)

\* accept_invite reads the invite and marks it later, without a lock: an invite
\* is used by no more requests than can be under way at once.
InviteUses == \A i \in Invites : uses[i] <= Cardinality(Requests)

Ends(r) == request[r] # Idle /\ request'[r] = Idle

\* Nobody loses a membership to another user's acceptance or departure, unless
\* they joined after it began (it counted without them), or the request's own
\* user had by then lost the membership it began with.
NobodyIsThrownOut == [][
    \A r \in Requests, u \in Users : LET q == request[r] IN
        /\ Ends(r) /\ q.op \in {"accept", "leave"}
        /\ u # q.user /\ home[u] = q.ws /\ home'[u] # home[u]
        => "join" \in q.since \/ home[q.user] # q.ws
    ]_vars

\* Accepting an invite deletes no accounts that were there when it began: the
\* workspace it gives up is deleted with everything in it.
AcceptKeepsAccounts == [][
    \A r \in Requests : LET q == request[r] IN
        Ends(r) /\ q.op = "accept" /\ q.ws \in accounts \ accounts'
        => "account" \in q.since
    ]_vars
=============================================================================
