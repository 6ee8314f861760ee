-------------------------- MODULE MembershipProofs --------------------------
(***************************************************************************)
(* Proofs about Membership: its types, that a workspace whose transfers    *)
(* run alone has exactly one owner, and the bound on the uses of an invite.*)
(***************************************************************************)
EXTENDS Membership, FiniteSetTheorems, TLAPS

-----------------------------------------------------------------------------
(* Types.                                                                  *)

LEMMA MembershipTypeInit == Init => TypeOK
  BY DEF Init, TypeOK, Idle, RequestState, Ops, OwnerOps, There

\* Every Start action is an instance of Start with a request of the type: the
\* case split of the Start actions is made here, once.  Those that are about roles
\* come with what their gate has read.
LEMMA BeginIsStart ==
  ASSUME TypeOK, NEW r \in Requests, Begin(r)
  PROVE  \E op \in Ops, u \in Users, w \in There \cup {None},
             x \in Users \cup Invites \cup {None}, at \in {"check", "ready"} :
             /\ Start(r, op, u, w, x, at)
             /\ home[u] = w
             /\ op \in {"transfer", "remove"} => role[u] = "owner" /\ x \in Users \ {u}
             /\ op # "found" => w # None
             /\ op \in {"transfer", "leave", "accept"} => at = "check"
<1> DEFINE Begun(op, u, w, x, at) ==
             /\ Start(r, op, u, w, x, at)
             /\ home[u] = w
             /\ op \in {"transfer", "remove"} => role[u] = "owner" /\ x \in Users \ {u}
             /\ op # "found" => w # None
             /\ op \in {"transfer", "leave", "accept"} => at = "check"
<1>1. PICK u \in Users :
       \/ StartFound(r, u) \/ StartAccount(r, u) \/ StartInvite(r, u) \/ StartLeave(r, u)
       \/ \E i \in Invites : StartRevoke(r, u, i) \/ StartAccept(r, u, i)
       \/ \E v \in Users : StartTransfer(r, u, v) \/ StartRemove(r, u, v)
  BY DEF Begin
<1>2. home[u] \in There \cup {None}
  BY DEF TypeOK
<1> DEFINE Goal == \E o \in Ops, v \in Users, w \in There \cup {None},
                      y \in Users \cup Invites \cup {None}, a \in {"check", "ready"} :
                      Begun(o, v, w, y, a)
<1> HIDE DEF Begun
<1>3. ASSUME NEW op \in Ops, NEW x \in Users \cup Invites \cup {None},
             NEW at \in {"check", "ready"}, Begun(op, u, home[u], x, at)
      PROVE  Goal
  BY <1>2, <1>3
<1> HIDE DEF Goal
<1>4. ASSUME StartFound(r, u) PROVE Goal
  <2>1. Begun("found", u, home[u], None, "ready")
    BY <1>4 DEF StartFound, Begun
  <2> QED
    BY <2>1, <1>3 DEF Ops
<1>5. ASSUME StartAccount(r, u) PROVE Goal
  <2>1. Begun("open account", u, home[u], None, "ready")
    BY <1>5 DEF StartAccount, RequireOwner, RequireMembership, Begun
  <2> QED
    BY <2>1, <1>3 DEF Ops
<1>6. ASSUME StartInvite(r, u) PROVE Goal
  <2>1. Begun("invite", u, home[u], None, "ready")
    BY <1>6 DEF StartInvite, RequireOwner, RequireMembership, Begun
  <2> QED
    BY <2>1, <1>3 DEF Ops, OwnerOps
<1>7. ASSUME StartLeave(r, u) PROVE Goal
  <2>1. Begun("leave", u, home[u], None, "check")
    BY <1>7 DEF StartLeave, RequireOwner, RequireMembership, Begun
  <2> QED
    BY <2>1, <1>3 DEF Ops
<1>8. ASSUME NEW i \in Invites, StartRevoke(r, u, i) PROVE Goal
  <2>1. Begun("revoke", u, home[u], i, "ready")
    BY <1>8 DEF StartRevoke, RequireOwner, RequireMembership, Begun
  <2> QED
    BY <2>1, <1>3 DEF Ops, OwnerOps
<1>9. ASSUME NEW i \in Invites, StartAccept(r, u, i) PROVE Goal
  <2>1. Begun("accept", u, home[u], i, "check")
    BY <1>9 DEF StartAccept, RequireOwner, RequireMembership, Begun
  <2> QED
    BY <2>1, <1>3 DEF Ops
<1>10. ASSUME NEW v \in Users, StartTransfer(r, u, v) PROVE Goal
  <2>1. Begun("transfer", u, home[u], v, "check")
    BY <1>10 DEF StartTransfer, RequireOwner, RequireMembership, Begun
  <2> QED
    BY <2>1, <1>3 DEF Ops, OwnerOps
<1>11. ASSUME NEW v \in Users, StartRemove(r, u, v) PROVE Goal
  <2>1. Begun("remove", u, home[u], v, "ready")
    BY <1>11 DEF StartRemove, RequireOwner, RequireMembership, Begun
  <2> QED
    BY <2>1, <1>3 DEF Ops, OwnerOps
<1>12. Goal
  BY <1>1, <1>4, <1>5, <1>6, <1>7, <1>8, <1>9, <1>10, <1>11
<1> QED
  BY <1>12 DEF Begun, Goal

\* Only Found makes a workspace appear, and only DeleteWorkspace makes one go.
LEMMA MembershipTypeStep == TypeOK /\ [Next]_vars => TypeOK'
<1> SUFFICES ASSUME TypeOK, [Next]_vars PROVE TypeOK'
  OBVIOUS
<1> USE MembershipConstants
<1>1. Idle \in RequestState
  BY DEF RequestState
<1>2. ASSUME NEW r \in Requests, Finish(r)
      PROVE  request' \in [Requests -> RequestState]
  BY <1>1, <1>2 DEF Finish, TypeOK
<1>3. ASSUME NEW r \in Requests, NEW w, NEW what \in {"join", "account"}, FinishTelling(r, w, what)
      PROVE  request' \in [Requests -> RequestState]
  <2>1. ASSUME NEW s \in Requests, request[s].op \in {"accept", "leave"}
        PROVE  [request[s] EXCEPT !.since = @ \cup {what}] \in RequestState
    BY <2>1 DEF TypeOK, RequestState, Idle
  <2>2. Tell(w, what) \in [Requests -> RequestState]
    BY <2>1 DEF Tell, TypeOK
  <2> QED
    BY <1>1, <1>3, <2>2 DEF FinishTelling
<1>4. ASSUME NEW r \in Requests, NEW at \in {"members", "accounts", "ready", "close"},
             request[r].at # "idle", Goto(r, at)
      PROVE  TypeOK'
  <2>1. [request[r] EXCEPT !.at = at] \in RequestState
    BY <1>4 DEF TypeOK, RequestState, Idle
  <2> QED
    BY <1>4, <2>1 DEF Goto, db, TypeOK, There
<1>5. ASSUME NEW r \in Requests, NEW w, DeleteWorkspace(w)
      PROVE  /\ workspace' \in [Workspaces -> {"unused", "there", "deleted"}]
             /\ There' = There \ {w}
             /\ accounts' \subseteq There'
             /\ raced' \subseteq There'
  BY <1>5 DEF DeleteWorkspace, TypeOK, There
<1>6. ASSUME workspace' = workspace PROVE There' = There
  BY <1>6 DEF There

<1>7. CASE UNCHANGED vars
  BY <1>7 DEF vars, db, TypeOK, There
<1>8. ASSUME NEW r \in Requests, Begin(r) PROVE TypeOK'
  <2>1. PICK op \in Ops, u \in Users, w \in There \cup {None},
             x \in Users \cup Invites \cup {None}, at \in {"check", "ready"} :
             Start(r, op, u, w, x, at) /\ (op # "found" => w # None)
    BY <1>8, BeginIsStart
  <2>2. [at |-> at, op |-> op, user |-> u, ws |-> w, target |-> x, since |-> {}] \in RequestState
    BY DEF RequestState, There
  <2>3. request' \in [Requests -> RequestState]
    BY <2>1, <2>2 DEF Start, TypeOK
  <2>4. There' = There
    BY <2>1, <1>6 DEF Start, db
  <2>5. raced' \subseteq There
    BY <2>1 DEF Start, Overlaps, RoleOps, TypeOK
  <2> QED
    BY <2>1, <2>3, <2>4, <2>5 DEF Start, db, TypeOK
<1>9. ASSUME NEW r \in Requests, Read(r) PROVE TypeOK'
  BY <1>9, <1>4 DEF Read, CheckInvite, CountMembers, CountAccounts, ReadRole, CountOthers,
                    CheckTarget, At
<1>10. ASSUME NEW r \in Requests, Found(r) PROVE TypeOK'
  <2>1. request[r].user \in Users
    BY <1>10 DEF Found, At, TypeOK, RequestState, Idle
  <2> QED
    BY <1>10, <1>2, <2>1 DEF Found, TypeOK, There
<1>11. ASSUME NEW r \in Requests, OpenAccount(r) PROVE TypeOK'
  BY <1>11, <1>3, <1>6 DEF OpenAccount, TypeOK
<1>12. ASSUME NEW r \in Requests, GenerateInvite(r) PROVE TypeOK'
  BY <1>12, <1>2, <1>6 DEF GenerateInvite, TypeOK, There
<1>13. ASSUME NEW r \in Requests, RevokeInvite(r) PROVE TypeOK'
  BY <1>13, <1>2, <1>6 DEF RevokeInvite, TypeOK
<1>14. ASSUME NEW r \in Requests, AcceptInvite(r) PROVE TypeOK'
  <2> DEFINE q == request[r]
             to == inviteTo[q.target]
  <2>1. request' \in [Requests -> RequestState]
    BY <1>14, <1>3 DEF AcceptInvite
  <2>2. /\ workspace' \in [Workspaces -> {"unused", "there", "deleted"}]
        /\ There' = There \ {q.ws} /\ accounts' \subseteq There' /\ raced' \subseteq There'
    BY <1>14, <1>5 DEF AcceptInvite
  <2>3. to \in There
    BY <1>14 DEF AcceptInvite, Issued
  <2>4. home' \in [Users -> There' \cup {None}]
    BY <1>14, <2>2, <2>3 DEF AcceptInvite, Without, TypeOK
  <2>5. role' \in [Users -> {"owner", "member"}]
    BY <1>14 DEF AcceptInvite, TypeOK
  <2>6. \A u \in Users : home'[u] = None => role'[u] = "member"
    BY <1>14 DEF AcceptInvite, Without, TypeOK
  <2>7. marks' \in [Invites -> SUBSET {"accepted", "withdrawn"}]
    BY <1>14 DEF AcceptInvite, Forget, TypeOK
  <2>8. uses' \in [Invites -> Nat]
    <3> DEFINE more == [uses EXCEPT ![q.target] = @ + 1]
    <3>1. uses' = Forget(q.ws, 0, more)
      BY <1>14 DEF AcceptInvite
    <3>2. more \in [Invites -> Nat]
      <4>1. uses \in [Invites -> Nat]
        BY DEF TypeOK
      <4>2. \A i \in Invites : uses[i] + 1 \in Nat
        BY <4>1
      <4> QED
        BY <4>1, <4>2
    <3> HIDE DEF more
    <3> QED
      BY <3>1, <3>2 DEF Forget
  <2>9. inviteTo' = inviteTo
    BY <1>14 DEF AcceptInvite
  <2> QED
    BY <2>1, <2>2, <2>4, <2>5, <2>6, <2>7, <2>8, <2>9 DEF TypeOK
<1>15. ASSUME NEW r \in Requests, TransferOwnership(r) PROVE TypeOK'
  BY <1>15, <1>2, <1>6 DEF TransferOwnership, TypeOK, There
<1>16. ASSUME NEW r \in Requests, RemoveMember(r) PROVE TypeOK'
  BY <1>16, <1>2, <1>6 DEF RemoveMember, EndMembership, TypeOK
<1>17. ASSUME NEW r \in Requests, LeaveAsMember(r) PROVE TypeOK'
  BY <1>17, <1>2, <1>6 DEF LeaveAsMember, EndMembership, TypeOK
<1>18. ASSUME NEW r \in Requests, LeaveAsSoleOwner(r) PROVE TypeOK'
  BY <1>18, <1>2, <1>5 DEF LeaveAsSoleOwner, TypeOK, Without, Forget
<1>19. ASSUME NEW r \in Requests, Fail(r) PROVE TypeOK'
  BY <1>19, <1>2, <1>6 DEF Fail, db, TypeOK
<1>20. ASSUME NEW i \in Invites, Expire(i) PROVE TypeOK'
  BY <1>20, <1>6 DEF Expire, TypeOK
<1> QED
  BY <1>7, <1>8, <1>9, <1>10, <1>11, <1>12, <1>13, <1>14, <1>15, <1>16, <1>17, <1>18,
     <1>19, <1>20 DEF Next, Write

\* In every reachable state every variable has its type, and members, accounts and
\* race marks are of workspaces that are there: what the foreign keys and ON DELETE
\* CASCADE are for.
THEOREM MembershipTypeCorrect == Spec => []TypeOK
  BY MembershipTypeInit, MembershipTypeStep, PTL DEF Spec

-----------------------------------------------------------------------------
(* One owner.  A request acts on what its gate and its reads have seen.    *)
(* In a workspace without a transfer that did not run alone that is still  *)
(* true when it writes, because only a transfer changes an owner, and      *)
(* because a request that deletes members of a workspace it does not share *)
(* with them as their owner deletes the workspace as well.                 *)

Steady == There \ raced

\* What request r has seen of roles and members, and relies on when it writes.
Relies(r) == LET q == request[r] IN
    /\ q.op \in {"transfer", "remove"} =>
          q.user \in Owners(q.ws) /\ q.target \in Users \ {q.user}
    /\ q.op = "transfer" /\ q.at = "ready" => home[q.target] = q.ws
    /\ q.op = "leave" /\ q.at = "ready" => q.user \notin Owners(q.ws)

TransferAlone(r) ==
    request[r].op = "transfer" =>
        \A s \in Requests \ {r} :
            ~(request[s].ws = request[r].ws /\ request[s].op \in RoleOps)

OwnershipInv ==
    /\ TypeOK
    /\ OneOwner
    /\ \A r \in Requests : request[r].ws \in Workspaces => workspace[request[r].ws] # "unused"
    /\ \A r \in Requests : request[r].ws \in Steady => Relies(r) /\ TransferAlone(r)

LEMMA OwnershipInit == Init => OwnershipInv
  BY MembershipTypeInit, MembershipConstants
     DEF Init, OwnershipInv, OneOwner, Steady, There, Idle

\* Request r has come to its end; of the others at most the history has changed.
Ended(r) ==
    /\ request'[r] = Idle
    /\ \A s \in Requests \ {r} :
          /\ request'[s].op = request[s].op
          /\ request'[s].at = request[s].at
          /\ request'[s].user = request[s].user
          /\ request'[s].ws = request[s].ws
          /\ request'[s].target = request[s].target

LEMMA FinishEnds ==
  ASSUME TypeOK, NEW r \in Requests,
         Finish(r) \/ \E w, what : FinishTelling(r, w, what)
  PROVE  Ended(r)
<1>1. CASE Finish(r)
  BY <1>1 DEF Finish, Ended, TypeOK
<1>2. ASSUME NEW w, NEW what, FinishTelling(r, w, what) PROVE Ended(r)
  BY <1>2 DEF FinishTelling, Tell, Ended, TypeOK, RequestState, Idle
<1> QED
  BY <1>1, <1>2

\* The end of a request that changes the owner of no steady workspace, and takes no
\* member from under a transfer, keeps the invariant.
LEMMA OwnersKept ==
  ASSUME OwnershipInv, TypeOK', NEW r \in Requests, Ended(r),
         Steady' \subseteq Steady,
         \A w \in Workspaces : workspace'[w] = "unused" => workspace[w] = "unused",
         \A w \in Steady' : Owners(w)' = Owners(w),
         \A s \in Requests \ {r} :
             request[s].ws \in Steady' /\ request[s].op = "transfer"
                 /\ home[request[s].target] = request[s].ws
             => home'[request[s].target] = request[s].ws
  PROVE  OwnershipInv'
<1>1. OneOwner'
  BY DEF OwnershipInv, OneOwner, OwnedByOne, Steady
<1>2. ASSUME NEW s \in Requests, request'[s].ws \in Workspaces PROVE s # r
  BY <1>2, MembershipConstants DEF Ended, Idle
<1>3. ASSUME NEW s \in Requests, request'[s].ws \in Workspaces
      PROVE  workspace'[request'[s].ws] # "unused"
  BY <1>2, <1>3 DEF Ended, OwnershipInv
<1>4. ASSUME NEW s \in Requests, request'[s].ws \in Steady'
      PROVE  Relies(s)' /\ TransferAlone(s)'
  <2>1. s # r /\ request[s].ws \in Steady /\ request[s].ws = request'[s].ws
    BY <1>2, <1>4 DEF Ended, Steady, There
  <2>2. Relies(s) /\ TransferAlone(s)
    BY <2>1 DEF OwnershipInv
  <2>3. Relies(s)'
    BY <1>4, <2>1, <2>2 DEF Relies, Ended
  <2>4. TransferAlone(s)'
    BY <2>1, <2>2 DEF TransferAlone, Ended, Idle, RoleOps
  <2> QED
    BY <2>3, <2>4
<1> QED
  BY <1>1, <1>3, <1>4 DEF OwnershipInv

LEMMA OwnershipStep == OwnershipInv /\ [Next]_vars => OwnershipInv'
<1> SUFFICES ASSUME OwnershipInv, [Next]_vars PROVE OwnershipInv'
  OBVIOUS
<1> USE MembershipConstants
<1>1. TypeOK /\ TypeOK'
  BY MembershipTypeStep DEF OwnershipInv
<1>2. ASSUME home' = home, role' = role, workspace' = workspace, raced' = raced
      PROVE  /\ There' = There /\ Steady' = Steady
             /\ \A w \in Workspaces : Owners(w)' = Owners(w)
  BY <1>2 DEF There, Steady, Owners, Members
<1>3. ASSUME NEW r \in Requests, Ended(r),
             home' = home, role' = role, workspace' = workspace, raced' = raced
      PROVE  OwnershipInv'
  BY <1>1, <1>2, <1>3, OwnersKept DEF Steady, There

<1>4. CASE UNCHANGED vars
  BY <1>4 DEF vars, db, OwnershipInv, TypeOK, OneOwner, OwnedByOne, Owners, Members, There, Steady,
              Relies, TransferAlone
<1>5. ASSUME NEW r \in Requests, Begin(r) PROVE OwnershipInv'
  <2>1. PICK op \in Ops, u \in Users, w \in There \cup {None},
             x \in Users \cup Invites \cup {None}, at \in {"check", "ready"} :
             /\ Start(r, op, u, w, x, at)
             /\ home[u] = w
             /\ op \in {"transfer", "remove"} => role[u] = "owner" /\ x \in Users \ {u}
             /\ op # "found" => w # None
             /\ op \in {"transfer", "leave", "accept"} => at = "check"
    BY <1>1, <1>5, BeginIsStart
  <2> DEFINE q == [at |-> at, op |-> op, user |-> u, ws |-> w, target |-> x, since |-> {}]
  <2>2. /\ request[r] = Idle /\ request'[r] = q
        /\ \A s \in Requests \ {r} : request'[s] = request[s]
        /\ home' = home /\ role' = role /\ workspace' = workspace
        /\ There' = There /\ raced \subseteq raced'
        /\ w \in Steady' => ~Overlaps(op, w)
    BY <1>1, <2>1 DEF Start, db, TypeOK, There, Steady
  <2>3. Steady' \subseteq Steady /\ \A v \in Workspaces : Owners(v)' = Owners(v)
    BY <2>2 DEF Steady, Owners, Members
  <2>4. OneOwner'
    BY <2>3 DEF OwnershipInv, OneOwner, OwnedByOne, Steady, There
  <2>5. ASSUME NEW s \in Requests, request'[s].ws \in Workspaces
        PROVE  workspace'[request'[s].ws] # "unused"
    BY <2>2, <2>5 DEF OwnershipInv, There
  <2>6. ASSUME NEW s \in Requests, request'[s].ws \in Steady' PROVE Relies(s)'
    <3>1. CASE s = r
      <4>1. w \in There
        BY <2>2, <2>6, <3>1 DEF Steady
      <4>2. op \in {"transfer", "remove"} => u \in Owners(w)'
        BY <2>1, <2>3, <4>1 DEF Owners, Members, There
      <4> QED
        BY <2>1, <2>2, <3>1, <4>2 DEF Relies
    <3>2. CASE s # r
      <4>1. Relies(s) /\ request'[s] = request[s]
        BY <2>2, <2>3, <2>6, <3>2 DEF OwnershipInv
      <4> QED
        BY <2>2, <2>3, <2>6, <4>1 DEF Relies, Steady, There
    <3> QED
      BY <3>1, <3>2
  <2>7. ASSUME NEW s \in Requests, request'[s].ws \in Steady' PROVE TransferAlone(s)'
    <3>1. CASE s = r
      <4>1. op = "transfer" => \A o \in Requests \ {r} :
                ~(request[o].ws = w /\ request[o].op \in RoleOps)
        BY <2>2, <2>7, <3>1 DEF Overlaps, RoleOps
      <4> QED
        BY <2>2, <3>1, <4>1 DEF TransferAlone
    <3>2. CASE s # r
      <4>1. TransferAlone(s) /\ request'[s] = request[s]
        BY <2>2, <2>3, <2>7, <3>2 DEF OwnershipInv
      <4>2. request[s].op = "transfer" => ~(w = request[s].ws /\ op \in RoleOps)
        BY <2>2, <2>7, <4>1 DEF Overlaps, RoleOps
      <4> QED
        BY <2>2, <4>1, <4>2 DEF TransferAlone
    <3> QED
      BY <3>1, <3>2
  <2> QED
    BY <1>1, <2>4, <2>5, <2>6, <2>7 DEF OwnershipInv
<1>6. ASSUME NEW r \in Requests, NEW at \in {"members", "accounts", "ready", "close"}, Goto(r, at),
             request[r].at # "idle",
             request[r].op = "transfer" => home[request[r].target] = request[r].ws,
             request[r].op = "leave" /\ at = "ready" => role[request[r].user] # "owner"
      PROVE  OwnershipInv'
  <2>1. /\ \A s \in Requests \ {r} : request'[s] = request[s]
        /\ request'[r] = [request[r] EXCEPT !.at = at]
        /\ home' = home /\ role' = role /\ workspace' = workspace /\ raced' = raced
    BY <1>1, <1>6 DEF Goto, db, TypeOK
  <2>2. \A s \in Requests :
            /\ request'[s].op = request[s].op /\ request'[s].ws = request[s].ws
            /\ request'[s].user = request[s].user /\ request'[s].target = request[s].target
    BY <1>1, <1>6, <2>1 DEF TypeOK, RequestState, Idle
  <2>5. request'[r].at = at
    BY <1>1, <1>6, <2>1 DEF TypeOK, RequestState, Idle
  <2>3. OneOwner' /\ There' = There /\ Steady' = Steady
    BY <2>1 DEF OwnershipInv, OneOwner, OwnedByOne, Owners, Members, There, Steady
  <2>4. ASSUME NEW s \in Requests, request'[s].ws \in Steady'
        PROVE  Relies(s)' /\ TransferAlone(s)'
    <3>1. Relies(s) /\ TransferAlone(s)
      BY <2>2, <2>3, <2>4 DEF OwnershipInv
    <3>2. Relies(s)'
      <4>1. CASE s = r
        BY <1>6, <2>1, <2>2, <2>5, <3>1, <4>1 DEF Relies, Owners, Members
      <4>2. CASE s # r
        BY <2>1, <3>1, <4>2 DEF Relies, Owners, Members
      <4> QED
        BY <4>1, <4>2
    <3>3. TransferAlone(s)'
      BY <2>2, <3>1 DEF TransferAlone
    <3> QED
      BY <3>2, <3>3
  <2> QED
    BY <1>1, <2>1, <2>2, <2>3, <2>4 DEF OwnershipInv
<1>7. ASSUME NEW r \in Requests, Read(r) PROVE OwnershipInv'
  BY <1>6, <1>7 DEF Read, CheckInvite, CountMembers, CountAccounts, ReadRole, CountOthers,
                    CheckTarget, At
<1>8. ASSUME NEW r \in Requests, Found(r) PROVE OwnershipInv'
  <2> DEFINE u == request[r].user
  <2>1. u \in Users /\ home[u] = None /\ Ended(r) /\ raced' = raced
    BY <1>1, <1>8, FinishEnds DEF Found, At, TypeOK, RequestState, Idle
  <2>2. PICK w \in Workspaces :
            /\ workspace[w] = "unused"
            /\ workspace' = [workspace EXCEPT ![w] = "there"]
            /\ home' = [home EXCEPT ![u] = w]
    BY <1>8 DEF Found
  <2>3. role' = [role EXCEPT ![u] = "owner"]
    BY <1>8 DEF Found
  <2>4. There' = There \cup {w} /\ Steady' \subseteq Steady \cup {w} /\ w \notin There
    BY <1>1, <2>1, <2>2 DEF There, Steady, TypeOK
  <2>5. Owners(w)' = {u}
    BY <1>1, <2>1, <2>2, <2>3, <2>4 DEF Owners, Members, TypeOK
  <2>6. \A v \in There : Owners(v)' = Owners(v)
    BY <1>1, <2>1, <2>2, <2>3, <2>4 DEF Owners, Members, TypeOK
  <2>7. OneOwner'
    BY <2>1, <2>4, <2>5, <2>6 DEF OwnershipInv, OneOwner, OwnedByOne, Steady
  <2>8. ASSUME NEW s \in Requests, request'[s].ws \in Workspaces
        PROVE  /\ s # r /\ request[s].ws = request'[s].ws
               /\ workspace'[request'[s].ws] # "unused" /\ request'[s].ws # w
    BY <1>1, <2>1, <2>2, <2>8 DEF Ended, Idle, OwnershipInv, TypeOK
  <2>9. ASSUME NEW s \in Requests, request'[s].ws \in Steady'
        PROVE  Relies(s)' /\ TransferAlone(s)'
    <3>1. s # r /\ request'[s].ws = request[s].ws /\ request[s].ws \in Steady
      BY <2>4, <2>8, <2>9 DEF Steady, There
    <3>2. Relies(s) /\ TransferAlone(s)
      BY <3>1 DEF OwnershipInv
    <3>3. Relies(s)'
      BY <1>1, <2>1, <2>2, <2>6, <3>1, <3>2 DEF Relies, Ended, Steady, There, TypeOK
    <3>4. TransferAlone(s)'
      BY <2>1, <3>1, <3>2 DEF TransferAlone, Ended, Idle, RoleOps
    <3> QED
      BY <3>3, <3>4
  <2> QED
    BY <1>1, <2>7, <2>8, <2>9 DEF OwnershipInv
<1>9. ASSUME NEW r \in Requests,
             OpenAccount(r) \/ GenerateInvite(r) \/ RevokeInvite(r) \/ Fail(r)
      PROVE  OwnershipInv'
  <2>1. Ended(r)
    BY <1>1, <1>9, FinishEnds DEF OpenAccount, GenerateInvite, RevokeInvite, Fail
  <2> QED
    BY <1>3, <1>9, <2>1 DEF OpenAccount, GenerateInvite, RevokeInvite, Fail, db
<1>10. ASSUME NEW r \in Requests, NEW w, Ended(r), DeleteWorkspace(w),
              \A v \in Steady : v # w => Owners(v)' = Owners(v),
              \A u \in Users : home[u] # w => home'[u] = home[u] \/ home[u] = None
       PROVE  OwnershipInv'
  <2>1. Steady' \subseteq Steady \ {w}
    BY <1>1, <1>10 DEF DeleteWorkspace, Steady, There, TypeOK
  <2>2. \A v \in Workspaces : workspace'[v] = "unused" => workspace[v] = "unused"
    BY <1>1, <1>10 DEF DeleteWorkspace, TypeOK
  <2>3. ASSUME NEW s \in Requests \ {r}, request[s].ws \in Steady', request[s].op = "transfer",
               home[request[s].target] = request[s].ws
        PROVE  home'[request[s].target] = request[s].ws
    <3>1. request[s].target \in Users
      BY <2>1, <2>3 DEF OwnershipInv, Relies
    <3> QED
      BY <1>10, <2>1, <2>3, <3>1 DEF Steady, There
  <2> QED
    BY <1>1, <1>10, <2>1, <2>2, <2>3, OwnersKept
<1>11. ASSUME NEW r \in Requests, AcceptInvite(r) PROVE OwnershipInv'
  <2> DEFINE q == request[r]
  <2>1. Ended(r) /\ DeleteWorkspace(q.ws)
    BY <1>1, <1>11, FinishEnds DEF AcceptInvite
  <2>2. home[q.user] \in {q.ws, None}
    BY <1>11 DEF AcceptInvite
  <2>3. \A u \in Users : home[u] # q.ws => home'[u] = home[u] \/ home[u] = None
    BY <1>1, <1>11, <2>2 DEF AcceptInvite, Without, TypeOK
  <2>4. \A v \in Steady : v # q.ws => Owners(v)' = Owners(v)
    <3> TAKE v \in Steady
    <3> HAVE v # q.ws
    <3>1. v # None /\ v \in Workspaces
      BY DEF Steady, There
    <3>2. \A u \in Users : home[u] = v => u # q.user /\ home'[u] = v /\ role'[u] = role[u]
      BY <1>1, <1>11, <2>2, <3>1 DEF AcceptInvite, Without, TypeOK
    <3>3. \A u \in Users : home'[u] = v => home[u] = v \/ role'[u] = "member"
      BY <1>1, <1>11, <3>1 DEF AcceptInvite, Without, TypeOK
    <3> QED
      BY <3>2, <3>3 DEF Owners, Members
  <2> QED
    BY <1>10, <2>1, <2>3, <2>4
<1>12. ASSUME NEW r \in Requests, LeaveAsSoleOwner(r) PROVE OwnershipInv'
  <2> DEFINE w == request[r].ws
  <2>1. Ended(r) /\ DeleteWorkspace(w)
    BY <1>1, <1>12, FinishEnds DEF LeaveAsSoleOwner
  <2>2. \A u \in Users : home[u] # w => home'[u] = home[u] /\ role'[u] = role[u]
    BY <1>1, <1>12 DEF LeaveAsSoleOwner, Without, TypeOK
  <2>3. \A u \in Users : home[u] = w => home'[u] = None
    BY <1>12 DEF LeaveAsSoleOwner, Without
  <2>4. \A v \in Steady : v # w => Owners(v)' = Owners(v)
    BY <2>2, <2>3 DEF Owners, Members, Steady, There
  <2> QED
    BY <1>10, <2>1, <2>2, <2>4
<1>13. ASSUME NEW r \in Requests, NEW u \in Users, Ended(r), EndMembership(u), raced' = raced,
              home[u] \in Steady => u \notin Owners(home[u]),
              \A s \in Requests \ {r} :
                  request[s].op = "transfer" /\ request[s].ws \in Steady => request[s].ws # home[u]
       PROVE  OwnershipInv'
  <2>1. Steady' = Steady /\ workspace' = workspace
    BY <1>13 DEF EndMembership, Steady, There
  <2>2. \A w \in Steady : Owners(w)' = Owners(w)
    BY <1>1, <1>13 DEF EndMembership, Owners, Members, TypeOK, Steady, There
  <2>3. ASSUME NEW s \in Requests \ {r}, request[s].ws \in Steady', request[s].op = "transfer",
               home[request[s].target] = request[s].ws
        PROVE  home'[request[s].target] = request[s].ws
    BY <1>1, <1>13, <2>1, <2>3 DEF EndMembership, TypeOK
  <2> QED
    BY <1>1, <1>13, <2>1, <2>2, <2>3, OwnersKept
<1>14. ASSUME NEW r \in Requests, request[r].ws \in Steady, request[r].op \in RoleOps
       PROVE  \A s \in Requests \ {r} : request[s].op = "transfer" => request[s].ws # request[r].ws
  BY <1>14 DEF OwnershipInv, TransferAlone
<1>15. ASSUME NEW r \in Requests, RemoveMember(r) PROVE OwnershipInv'
  <2> DEFINE q == request[r]
  <2>1. /\ Ended(r) /\ EndMembership(q.target) /\ raced' = raced
        /\ q.op = "remove" /\ home[q.target] = q.ws
    BY <1>1, <1>15, FinishEnds DEF RemoveMember, At
  <2>2. CASE q.ws \in Steady
    <3>1. q.target \in Users \ {q.user} /\ q.user \in Owners(q.ws)
      BY <2>1, <2>2 DEF OwnershipInv, Relies
    <3>2. q.target \notin Owners(q.ws)
      BY <2>2, <3>1 DEF OwnershipInv, OneOwner, OwnedByOne, Steady
    <3> QED
      BY <1>13, <1>14, <2>1, <2>2, <3>1, <3>2 DEF RoleOps
  <2>3. CASE q.ws \notin Steady /\ q.target \in Users
    BY <1>13, <2>1, <2>3
  <2>4. CASE q.target \notin Users
    <3>1. home' = home /\ role' = role /\ workspace' = workspace
      BY <1>1, <2>1, <2>4 DEF EndMembership, TypeOK
    <3> QED
      BY <1>3, <2>1, <3>1
  <2> QED
    BY <2>2, <2>3, <2>4
<1>16. ASSUME NEW r \in Requests, LeaveAsMember(r) PROVE OwnershipInv'
  <2> DEFINE q == request[r]
  <2>1. Ended(r) /\ raced' = raced /\ At(r, "leave", "ready") /\ q.user \in Users
    BY <1>1, <1>16, FinishEnds DEF LeaveAsMember, At, TypeOK, RequestState, Idle
  <2>2. CASE home[q.user] = q.ws
    <3>1. EndMembership(q.user)
      BY <1>16, <2>2 DEF LeaveAsMember
    <3>2. q.ws \in Steady => q.user \notin Owners(q.ws)
      BY <2>1 DEF OwnershipInv, Relies, At
    <3>3. q.op \in RoleOps
      BY <2>1 DEF At, RoleOps
    <3> QED
      BY <1>13, <1>14, <2>1, <2>2, <3>1, <3>2, <3>3
  <2>3. CASE home[q.user] # q.ws
    BY <1>3, <1>16, <2>1, <2>3 DEF LeaveAsMember
  <2> QED
    BY <2>2, <2>3
<1>17. ASSUME NEW r \in Requests, TransferOwnership(r) PROVE OwnershipInv'
  <2> DEFINE q == request[r]
             w == q.ws
  <2>1. /\ Ended(r) /\ raced' = raced /\ home' = home /\ workspace' = workspace
        /\ At(r, "transfer", "ready") /\ w \in There
    BY <1>1, <1>17, FinishEnds DEF TransferOwnership
  <2>2. There' = There /\ Steady' = Steady
    BY <2>1 DEF Steady, There
  <2>3. role' = [u \in Users |->
                    IF home[u] # w THEN role[u]
                    ELSE IF u = q.target THEN "owner"
                    ELSE IF u = q.user THEN "member" ELSE role[u]]
    BY <1>17 DEF TransferOwnership
  <2>4. \A v \in Workspaces : v # w => Owners(v)' = Owners(v)
    BY <2>1, <2>3 DEF Owners, Members
  <2>5. ASSUME NEW v \in Steady, v = w PROVE Owners(v)' = {q.target} /\ q.target \in Users
    <3>1. /\ q.user \in Owners(v) /\ q.target \in Users \ {q.user} /\ home[q.target] = v
      BY <2>1, <2>5 DEF OwnershipInv, Relies, At
    <3>2. Owners(v) = {q.user}
      BY <3>1 DEF OwnershipInv, OneOwner, OwnedByOne, Steady
    <3>3. \A u \in Users : home[u] = v /\ role[u] = "owner" => u = q.user
      BY <3>2 DEF Owners, Members
    <3>4. \A u \in Users : home'[u] = v /\ role'[u] = "owner" <=> u = q.target
      BY <2>1, <2>3, <2>5, <3>1, <3>3
    <3> QED
      BY <3>1, <3>4 DEF Owners, Members
  <2>6. OneOwner'
    <3> SUFFICES ASSUME NEW v \in Steady PROVE OwnedByOne(v)'
      BY <2>2 DEF OneOwner, Steady
    <3>1. CASE v = w
      BY <2>5, <3>1 DEF OwnedByOne
    <3>2. CASE v # w
      BY <2>4, <3>2 DEF OwnershipInv, OneOwner, OwnedByOne, Steady, There
    <3> QED
      BY <3>1, <3>2
  <2>7. ASSUME NEW s \in Requests, request'[s].ws \in Workspaces
        PROVE  s # r /\ request[s].ws = request'[s].ws /\ workspace'[request'[s].ws] # "unused"
    BY <2>1, <2>7 DEF Ended, Idle, OwnershipInv
  <2>8. ASSUME NEW s \in Requests, request'[s].ws \in Steady'
        PROVE  Relies(s)' /\ TransferAlone(s)'
    <3>1. s # r /\ request'[s].ws = request[s].ws /\ request[s].ws \in Steady
      BY <2>2, <2>7, <2>8 DEF Steady, There
    <3>2. Relies(s) /\ TransferAlone(s)
      BY <3>1 DEF OwnershipInv
    <3>3. request[s].op \in RoleOps => request[s].ws # w
      BY <2>1, <3>1 DEF OwnershipInv, TransferAlone, At
    <3>4. Relies(s)'
      BY <2>1, <2>4, <3>1, <3>2, <3>3 DEF Relies, Ended, RoleOps, Steady, There
    <3>5. TransferAlone(s)'
      BY <2>1, <3>1, <3>2 DEF TransferAlone, Ended, Idle, RoleOps
    <3> QED
      BY <3>4, <3>5
  <2> QED
    BY <1>1, <2>6, <2>7, <2>8 DEF OwnershipInv
<1>18. ASSUME NEW i \in Invites, Expire(i) PROVE OwnershipInv'
  BY <1>1, <1>2, <1>18 DEF Expire, OwnershipInv, OneOwner, OwnedByOne, Relies, TransferAlone, Steady, There
<1> QED
  BY <1>4, <1>5, <1>7, <1>8, <1>9, <1>11, <1>12, <1>15, <1>16, <1>17, <1>18 DEF Next, Write

\* A workspace whose transfers ran alone has exactly one owner, for any number of
\* users, workspaces, invites and overlapping requests.
THEOREM OwnershipHolds == Spec => []OneOwner
<1>1. OwnershipInv => OneOwner
  BY DEF OwnershipInv
<1> QED
  BY <1>1, OwnershipInit, OwnershipStep, PTL DEF Spec

-----------------------------------------------------------------------------
(* The uses of an invite.  Once one acceptance is committed no further     *)
(* request passes the check, so the uses still to come are among the       *)
(* requests that have passed it already.                                   *)

Passed(i) == {r \in Requests :
    /\ request[r].op = "accept" /\ request[r].target = i
    /\ request[r].at \in {"members", "accounts", "ready"}}

UsesInv ==
    /\ TypeOK
    /\ \A i \in Invites :
          /\ "accepted" \notin marks[i] => uses[i] = 0
          /\ uses[i] + Cardinality(Passed(i)) <= Cardinality(Requests)

LEMMA PassedSize ==
  ASSUME NEW i
  PROVE  /\ IsFiniteSet(Passed(i)) /\ Cardinality(Passed(i)) \in Nat
         /\ Cardinality(Requests) \in Nat /\ Cardinality(Passed(i)) <= Cardinality(Requests)
<1>1. Passed(i) \subseteq Requests
  BY DEF Passed
<1> QED
  BY <1>1, MembershipConstants, FS_Subset, FS_CardinalityType

LEMMA PassedSizeNext ==
  ASSUME NEW i
  PROVE  /\ IsFiniteSet(Passed(i)') /\ Cardinality(Passed(i)') \in Nat
         /\ Cardinality(Passed(i)') <= Cardinality(Requests)
<1>1. Passed(i)' \subseteq Requests
  BY DEF Passed
<1> QED
  BY <1>1, MembershipConstants, FS_Subset, FS_CardinalityType

\* A step that uses no invite, and lets nobody past the check.
LEMMA UsesKept ==
  ASSUME UsesInv, TypeOK',
         \A i \in Invites :
             \/ uses'[i] = 0
             \/ uses'[i] = uses[i] /\ ("accepted" \in marks[i] => "accepted" \in marks'[i]),
         \A i \in Invites : Passed(i)' \subseteq Passed(i)
  PROVE  UsesInv'
<1>1. ASSUME NEW i \in Invites PROVE Cardinality(Passed(i)') <= Cardinality(Passed(i))
  BY PassedSize, FS_Subset
<1>2. ASSUME NEW i \in Invites
      PROVE  uses'[i] + Cardinality(Passed(i)') <= Cardinality(Requests)
  BY <1>1, PassedSize, PassedSizeNext DEF UsesInv, TypeOK
<1> QED
  BY <1>2 DEF UsesInv

LEMMA UsesInit == Init => UsesInv
<1> SUFFICES ASSUME Init PROVE UsesInv
  OBVIOUS
<1>1. \A i \in Invites : uses[i] + Cardinality(Passed(i)) <= Cardinality(Requests)
  BY PassedSize DEF Init
<1> QED
  BY <1>1, MembershipTypeInit DEF Init, UsesInv

LEMMA UsesStep == UsesInv /\ [Next]_vars => UsesInv'
<1> SUFFICES ASSUME UsesInv, [Next]_vars PROVE UsesInv'
  OBVIOUS
<1>1. TypeOK /\ TypeOK'
  BY MembershipTypeStep DEF UsesInv
<1>2. ASSUME NEW r \in Requests, Ended(r), uses' = uses,
             \A i \in Invites : "accepted" \in marks[i] => "accepted" \in marks'[i]
      PROVE  UsesInv'
  <2>1. \A i \in Invites : Passed(i)' \subseteq Passed(i)
    BY <1>2 DEF Passed, Ended, Idle
  <2> QED
    BY <1>1, <1>2, <2>1, UsesKept
<1>3. CASE UNCHANGED vars
  BY <1>1, <1>3, UsesKept DEF vars, db, Passed
<1>4. ASSUME NEW r \in Requests, Begin(r) PROVE UsesInv'
  <2>1. PICK op \in Ops, u \in Users, w \in There \cup {None},
             x \in Users \cup Invites \cup {None}, at \in {"check", "ready"} :
             Start(r, op, u, w, x, at) /\ (op \in {"transfer", "leave", "accept"} => at = "check")
    BY <1>1, <1>4, BeginIsStart
  <2>2. /\ request'[r].op = op /\ request'[r].at = at
        /\ \A s \in Requests \ {r} : request'[s] = request[s]
        /\ uses' = uses /\ marks' = marks
    BY <1>1, <2>1 DEF Start, db, TypeOK
  <2>3. \A i \in Invites : Passed(i)' \subseteq Passed(i)
    BY <2>1, <2>2 DEF Passed
  <2> QED
    BY <1>1, <2>2, <2>3, UsesKept
<1>5. ASSUME NEW r \in Requests, CheckInvite(r) PROVE UsesInv'
  <2> DEFINE t == request[r].target
  <2>1. /\ uses' = uses /\ marks' = marks /\ marks[t] = {}
        /\ \A s \in Requests \ {r} : request'[s] = request[s]
        /\ request'[r].target = t
    BY <1>1, <1>5 DEF CheckInvite, Goto, At, Live, db, TypeOK, RequestState, Idle
  <2>2. ASSUME NEW i \in Invites, i # t
        PROVE  uses[i] + Cardinality(Passed(i)') <= Cardinality(Requests)
    <3>1. Passed(i)' \subseteq Passed(i)
      BY <2>1, <2>2 DEF Passed
    <3>2. Cardinality(Passed(i)') <= Cardinality(Passed(i))
      BY <3>1, PassedSize, FS_Subset
    <3> QED
      BY <3>2, PassedSize, PassedSizeNext DEF UsesInv, TypeOK
  <2>3. ASSUME NEW i \in Invites, i = t
        PROVE  uses[i] + Cardinality(Passed(i)') <= Cardinality(Requests)
    <3>1. uses[i] = 0
      BY <2>1, <2>3 DEF UsesInv
    <3> QED
      BY <3>1, PassedSizeNext
  <2> QED
    BY <1>1, <2>1, <2>2, <2>3 DEF UsesInv
<1>6. ASSUME NEW r \in Requests,
             CountMembers(r) \/ CountAccounts(r) \/ ReadRole(r) \/ CountOthers(r) \/ CheckTarget(r)
      PROVE  UsesInv'
  <2>1. /\ uses' = uses /\ marks' = marks
        /\ \A s \in Requests \ {r} : request'[s] = request[s]
        /\ request'[r].op = request[r].op /\ request'[r].target = request[r].target
        /\ request[r].op = "accept" => request[r].at \in {"members", "accounts"}
    BY <1>1, <1>6 DEF CountMembers, CountAccounts, ReadRole, CountOthers, CheckTarget, Goto, At, db,
                      TypeOK, RequestState, Idle
  <2>2. \A i \in Invites : Passed(i)' \subseteq Passed(i)
    BY <2>1 DEF Passed
  <2> QED
    BY <1>1, <2>1, <2>2, UsesKept
<1>7. ASSUME NEW r \in Requests, AcceptInvite(r) PROVE UsesInv'
  <2> DEFINE t == request[r].target
  <2>1. Ended(r) /\ At(r, "accept", "ready")
    BY <1>1, <1>7, FinishEnds DEF AcceptInvite
  <2>2. /\ \A i \in Invites : i # t =>
                uses'[i] = 0 \/ (uses'[i] = uses[i] /\ marks'[i] = marks[i])
        /\ t \in Invites =>
                uses'[t] = 0 \/ (uses'[t] = uses[t] + 1 /\ "accepted" \in marks'[t])
    <3> DEFINE w == request[r].ws
    <3>1. /\ marks' = Forget(w, {}, [marks EXCEPT ![t] = @ \cup {"accepted"}])
          /\ uses' = Forget(w, 0, [uses EXCEPT ![t] = @ + 1])
      BY <1>7 DEF AcceptInvite
    <3>2. uses \in [Invites -> Nat] /\ marks \in [Invites -> SUBSET {"accepted", "withdrawn"}]
      BY <1>1 DEF TypeOK
    <3> QED
      BY <3>1, <3>2 DEF Forget
  <2>3. ASSUME NEW i \in Invites
        PROVE  "accepted" \notin marks'[i] => uses'[i] = 0
    BY <1>1, <2>2 DEF UsesInv, TypeOK
  <2>4. ASSUME NEW i \in Invites, i # t
        PROVE  uses'[i] + Cardinality(Passed(i)') <= Cardinality(Requests)
    <3>1. Passed(i)' \subseteq Passed(i)
      BY <2>1 DEF Passed, Ended, Idle
    <3>2. Cardinality(Passed(i)') <= Cardinality(Passed(i))
      BY <3>1, PassedSize, FS_Subset
    <3>3. uses'[i] \in {0, uses[i]}
      BY <2>2, <2>4
    <3> QED
      BY <3>2, <3>3, PassedSize, PassedSizeNext DEF UsesInv, TypeOK
  <2>5. ASSUME NEW i \in Invites, i = t
        PROVE  uses'[i] + Cardinality(Passed(i)') <= Cardinality(Requests)
    <3>1. r \in Passed(i) /\ Passed(i)' \subseteq Passed(i) \ {r}
      BY <2>1, <2>5 DEF Passed, Ended, Idle, At
    <3>2. IsFiniteSet(Passed(i) \ {r}) /\ Cardinality(Passed(i) \ {r}) = Cardinality(Passed(i)) - 1
      BY <3>1, PassedSize, FS_RemoveElement
    <3>3. Cardinality(Passed(i)') <= Cardinality(Passed(i)) - 1
      BY <3>1, <3>2, FS_Subset
    <3>4. uses'[i] \in {0, uses[i] + 1}
      BY <2>2, <2>5
    <3> QED
      BY <3>3, <3>4, PassedSize, PassedSizeNext DEF UsesInv, TypeOK
  <2> QED
    BY <1>1, <2>3, <2>4, <2>5 DEF UsesInv
<1>8. ASSUME NEW r \in Requests,
             \/ Found(r) \/ OpenAccount(r) \/ GenerateInvite(r) \/ TransferOwnership(r)
             \/ RemoveMember(r) \/ LeaveAsMember(r) \/ Fail(r)
      PROVE  UsesInv'
  <2>1. Ended(r)
    BY <1>1, <1>8, FinishEnds
       DEF Found, OpenAccount, GenerateInvite, TransferOwnership, RemoveMember, LeaveAsMember, Fail
  <2>2. uses' = uses /\ marks' = marks
    BY <1>8 DEF Found, OpenAccount, GenerateInvite, TransferOwnership, RemoveMember, LeaveAsMember,
                Fail, db
  <2> QED
    BY <1>2, <2>1, <2>2
<1>9. ASSUME NEW r \in Requests, RevokeInvite(r) PROVE UsesInv'
  <2>1. Ended(r) /\ uses' = uses
    BY <1>1, <1>9, FinishEnds DEF RevokeInvite
  <2>2. \A i \in Invites : marks[i] \subseteq marks'[i]
    BY <1>1, <1>9 DEF RevokeInvite, TypeOK
  <2> QED
    BY <1>2, <2>1, <2>2
<1>10. ASSUME NEW i \in Invites, Expire(i) PROVE UsesInv'
  <2>1. uses' = uses /\ request' = request
    BY <1>10 DEF Expire
  <2>2. \A j \in Invites : marks[j] \subseteq marks'[j] /\ Passed(j)' = Passed(j)
    BY <1>1, <1>10 DEF Expire, TypeOK, Passed
  <2> QED
    BY <1>1, <2>1, <2>2, UsesKept
<1>11. ASSUME NEW r \in Requests, LeaveAsSoleOwner(r) PROVE UsesInv'
  <2>1. Ended(r)
    BY <1>1, <1>11, FinishEnds DEF LeaveAsSoleOwner
  <2>2. \A i \in Invites : uses'[i] = 0 \/ (uses'[i] = uses[i] /\ marks'[i] = marks[i])
    <3>1. /\ marks' = Forget(request[r].ws, {}, marks)
          /\ uses' = Forget(request[r].ws, 0, uses)
      BY <1>11 DEF LeaveAsSoleOwner
    <3> QED
      BY <3>1 DEF Forget
  <2>3. \A i \in Invites : Passed(i)' \subseteq Passed(i)
    BY <2>1 DEF Passed, Ended, Idle
  <2> QED
    BY <1>1, <2>2, <2>3, UsesKept
<1> QED
  BY <1>3, <1>4, <1>5, <1>6, <1>7, <1>8, <1>9, <1>10, <1>11 DEF Next, Read, Write

\* An invite is used by no more requests than can be under way at once: the check of
\* accept_invite lets a second acceptance through only while the first is uncommitted.
THEOREM InviteUsesAreBounded == Spec => []InviteUses
<1>1. ASSUME UsesInv PROVE InviteUses
  <2> SUFFICES ASSUME NEW i \in Invites PROVE uses[i] <= Cardinality(Requests)
    BY DEF InviteUses
  <2> QED
    BY <1>1, PassedSize DEF UsesInv, TypeOK
<1> QED
  BY <1>1, UsesInit, UsesStep, PTL DEF Spec

-----------------------------------------------------------------------------
(* What a request has counted before it deletes a workspace.               *)

Counted(r) == LET q == request[r] IN
    /\ q.op # "found" => q.ws \in Workspaces /\ workspace[q.ws] # "unused"
    /\ \/ q.op = "accept" /\ q.at \in {"accounts", "ready"}
       \/ q.op = "leave" /\ q.at = "close"
       => "join" \in q.since \/ home[q.user] # q.ws \/ Members(q.ws) \subseteq {q.user}
    /\ q.op = "accept" /\ q.at = "ready" => "account" \in q.since \/ q.ws \notin accounts

CountInv == TypeOK /\ \A r \in Requests : Counted(r)

LEMMA CountInit == Init => CountInv
  BY MembershipTypeInit DEF Init, CountInv, Counted, Idle

\* A count of a request stays good in a step of another, unless the step joins the
\* workspace, or opens an account there, and the request's history tells.
LEMMA CountKept ==
  ASSUME TypeOK, NEW s \in Requests, Counted(s),
         request'[s].op = request[s].op, request'[s].at = request[s].at,
         request'[s].user = request[s].user, request'[s].ws = request[s].ws,
         request[s].since \subseteq request'[s].since,
         \A w \in Workspaces : workspace'[w] = "unused" => workspace[w] = "unused",
         request[s].op \in {"accept", "leave"} =>
             /\ \/ "join" \in request'[s].since
                \/ \A u \in Users : home'[u] = request[s].ws => home[u] = request[s].ws
             /\ "account" \in request'[s].since \/ request[s].ws \notin accounts' \ accounts
  PROVE  Counted(s)'
<1>1. request[s].op \in {"accept", "leave"} => request[s].user \in Users
  BY DEF TypeOK, RequestState, Idle
<1> QED
  BY <1>1 DEF Counted, Members

LEMMA CountStep == CountInv /\ [Next]_vars => CountInv'
<1> SUFFICES ASSUME CountInv, [Next]_vars PROVE CountInv'
  OBVIOUS
<1> USE MembershipConstants
<1>1. TypeOK /\ TypeOK'
  BY MembershipTypeStep DEF CountInv
<1>2. ASSUME NEW r \in Requests, request'[r] = Idle PROVE Counted(r)'
  BY <1>2 DEF Counted, Idle
<1>3. ASSUME NEW r \in Requests, Finish(r),
             \A w \in Workspaces : workspace'[w] = "unused" => workspace[w] = "unused",
             \A u \in Users : home'[u] \in {home[u], None}, accounts' \subseteq accounts
      PROVE  CountInv'
  <2>1. request'[r] = Idle /\ \A s \in Requests \ {r} : request'[s] = request[s]
    BY <1>1, <1>3 DEF Finish, TypeOK
  <2>2. ASSUME NEW s \in Requests \ {r} PROVE Counted(s)'
    <3>1. Counted(s)
      BY DEF CountInv
    <3>2. request[s].op \in {"accept", "leave"} => request[s].ws # None
      BY <3>1 DEF Counted
    <3> QED
      BY <1>1, <1>3, <2>1, <3>1, <3>2, CountKept
  <2> QED
    BY <1>1, <1>2, <2>1, <2>2 DEF CountInv
<1>4. CASE UNCHANGED vars
  BY <1>1, <1>4 DEF vars, db, CountInv, Counted, Members
<1>5. ASSUME NEW r \in Requests, Begin(r) PROVE CountInv'
  <2>1. PICK op \in Ops, u \in Users, w \in There \cup {None},
             x \in Users \cup Invites \cup {None}, at \in {"check", "ready"} :
             /\ Start(r, op, u, w, x, at)
             /\ op # "found" => w # None
             /\ op \in {"transfer", "leave", "accept"} => at = "check"
    BY <1>1, <1>5, BeginIsStart
  <2>2. /\ request'[r] = [at |-> at, op |-> op, user |-> u, ws |-> w, target |-> x, since |-> {}]
        /\ \A s \in Requests \ {r} : request'[s] = request[s]
        /\ home' = home /\ workspace' = workspace /\ accounts' = accounts
    BY <1>1, <2>1 DEF Start, db, TypeOK
  <2>3. Counted(r)'
    BY <2>1, <2>2 DEF Counted, There
  <2>4. ASSUME NEW s \in Requests \ {r} PROVE Counted(s)'
    BY <2>2 DEF CountInv, Counted, Members
  <2> QED
    BY <1>1, <2>3, <2>4 DEF CountInv
<1>6. ASSUME NEW r \in Requests, Read(r) PROVE CountInv'
  <2> DEFINE q == request[r]
  <2>1. /\ q.op # "found" /\ q.user \in Users
        /\ \A s \in Requests \ {r} : request'[s] = request[s]
        /\ home' = home /\ workspace' = workspace /\ accounts' = accounts
        /\ request'[r].op = q.op /\ request'[r].user = q.user
        /\ request'[r].ws = q.ws /\ request'[r].since = q.since
    BY <1>1, <1>6 DEF Read, CheckInvite, CountMembers, CountAccounts, ReadRole, CountOthers,
                      CheckTarget, Goto, At, db, TypeOK, RequestState, Idle
  <2>2. ASSUME NEW s \in Requests \ {r} PROVE Counted(s)'
    BY <2>1 DEF CountInv, Counted, Members
  <2>3. Counted(r)
    BY DEF CountInv
  <2>4. CASE CheckInvite(r)
    <3>1. request'[r].at = "members" /\ q.op = "accept"
      BY <1>1, <2>4 DEF CheckInvite, Goto, At, TypeOK, RequestState, Idle
    <3> QED
      BY <1>1, <2>1, <2>2, <2>3, <3>1 DEF CountInv, Counted
  <2>5. CASE CountMembers(r)
    <3>1. request'[r].at = "accounts" /\ q.op = "accept" /\ Cardinality(Members(q.ws)) <= 1
      BY <1>1, <2>5 DEF CountMembers, Goto, At, TypeOK, RequestState, Idle
    <3>2. ASSUME home[q.user] = q.ws, NEW v \in Members(q.ws), v # q.user PROVE FALSE
      <4>1. IsFiniteSet(Members(q.ws)) /\ {q.user, v} \subseteq Members(q.ws)
        BY <2>1, <3>2, FS_Subset DEF Members
      <4>2. IsFiniteSet({q.user}) /\ Cardinality({q.user}) = 1
        BY FS_Singleton
      <4>3. v \notin {q.user}
        BY <3>2
      <4>4. Cardinality({q.user} \cup {v}) = Cardinality({q.user}) + 1
        BY <4>2, <4>3, FS_AddElement
      <4>5. {q.user} \cup {v} = {q.user, v}
        OBVIOUS
      <4>6. 2 <= Cardinality(Members(q.ws)) /\ Cardinality(Members(q.ws)) \in Nat
        BY <4>1, <4>2, <4>4, <4>5, FS_Subset, FS_CardinalityType
      <4> QED
        BY <3>1, <4>6
    <3> QED
      BY <1>1, <2>1, <2>2, <2>3, <3>1, <3>2 DEF CountInv, Counted, Members
  <2>6. CASE CountAccounts(r)
    <3>1. /\ request'[r].at = "ready" /\ q.op = "accept" /\ q.at = "accounts"
          /\ q.ws \notin accounts
      BY <1>1, <2>6 DEF CountAccounts, Goto, At, TypeOK, RequestState, Idle
    <3> QED
      BY <1>1, <2>1, <2>2, <2>3, <3>1 DEF CountInv, Counted, Members
  <2>7. CASE CountOthers(r)
    <3>1. request'[r].at = "close" /\ q.op = "leave" /\ Members(q.ws) \subseteq {q.user}
      BY <1>1, <2>7 DEF CountOthers, Goto, At, TypeOK, RequestState, Idle
    <3> QED
      BY <1>1, <2>1, <2>2, <2>3, <3>1 DEF CountInv, Counted, Members
  <2>8. CASE ReadRole(r) \/ CheckTarget(r)
    <3>1. q.op \in {"leave", "transfer"} /\ request'[r].at \in {"members", "ready"}
      BY <1>1, <2>8 DEF ReadRole, CheckTarget, Goto, At, TypeOK, RequestState, Idle
    <3> QED
      BY <1>1, <2>1, <2>2, <2>3, <3>1 DEF CountInv, Counted
  <2> QED
    BY <1>6, <2>4, <2>5, <2>6, <2>7, <2>8 DEF Read
<1>7. ASSUME NEW r \in Requests, Found(r) PROVE CountInv'
  <2>1. PICK w \in Workspaces :
            /\ workspace[w] = "unused"
            /\ workspace' = [workspace EXCEPT ![w] = "there"]
            /\ home' = [home EXCEPT ![request[r].user] = w]
    BY <1>7 DEF Found
  <2>2. /\ request'[r] = Idle /\ accounts' = accounts
        /\ \A s \in Requests \ {r} : request'[s] = request[s]
    BY <1>1, <1>7 DEF Found, Finish, TypeOK
  <2>3. ASSUME NEW s \in Requests \ {r} PROVE Counted(s)'
    <3>1. Counted(s)
      BY DEF CountInv
    <3>2. request[s].op # "found" => request[s].ws # w
      BY <2>1, <3>1 DEF Counted
    <3>3. \A v \in Workspaces : workspace'[v] = "unused" => workspace[v] = "unused"
      BY <1>1, <2>1 DEF TypeOK
    <3>4. \A u \in Users : home'[u] \in {home[u], w}
      BY <1>1, <2>1 DEF TypeOK
    <3> QED
      BY <1>1, <2>2, <3>1, <3>2, <3>3, <3>4, CountKept
  <2> QED
    BY <1>1, <1>2, <2>2, <2>3 DEF CountInv
<1>8. ASSUME NEW r \in Requests, NEW w, NEW what \in {"join", "account"}, FinishTelling(r, w, what)
      PROVE  /\ request'[r] = Idle
             /\ \A s \in Requests \ {r} :
                   /\ request'[s].op = request[s].op /\ request'[s].at = request[s].at
                   /\ request'[s].user = request[s].user /\ request'[s].ws = request[s].ws
                   /\ request[s].since \subseteq request'[s].since
                   /\ request[s].ws = w /\ request[s].op \in {"accept", "leave"}
                      => what \in request'[s].since
  BY <1>1, <1>8 DEF FinishTelling, Tell, TypeOK, RequestState, Idle
<1>9. ASSUME NEW r \in Requests, OpenAccount(r) PROVE CountInv'
  <2> DEFINE w == request[r].ws
  <2>1. /\ FinishTelling(r, w, "account") /\ accounts' = accounts \cup {w}
        /\ home' = home /\ workspace' = workspace
    BY <1>9 DEF OpenAccount
  <2>2. ASSUME NEW s \in Requests \ {r} PROVE Counted(s)'
    <3>1. Counted(s)
      BY DEF CountInv
    <3> QED
      BY <1>1, <1>8, <2>1, <3>1, CountKept
  <2> QED
    BY <1>1, <1>2, <1>8, <2>1, <2>2 DEF CountInv
<1>10. ASSUME NEW r \in Requests, AcceptInvite(r) PROVE CountInv'
  <2> DEFINE q == request[r]
             to == inviteTo[q.target]
  <2>1. /\ FinishTelling(r, to, "join") /\ DeleteWorkspace(q.ws)
        /\ home' = Without(q.ws, [Without(q.ws, home) EXCEPT ![q.user] = to])
    BY <1>10 DEF AcceptInvite
  <2>2. \A u \in Users : home'[u] \in {home[u], None, to}
    BY <1>1, <2>1 DEF Without, TypeOK
  <2>3. \A v \in Workspaces : workspace'[v] = "unused" => workspace[v] = "unused"
    BY <1>1, <2>1 DEF DeleteWorkspace, TypeOK
  <2>4. ASSUME NEW s \in Requests \ {r} PROVE Counted(s)'
    <3>1. Counted(s)
      BY DEF CountInv
    <3>2. request[s].op \in {"accept", "leave"} => request[s].ws # None
      BY <3>1 DEF Counted
    <3>3. accounts' \subseteq accounts
      BY <2>1 DEF DeleteWorkspace
    <3> QED
      BY <1>1, <1>8, <2>1, <2>2, <2>3, <3>1, <3>2, <3>3, CountKept
  <2> QED
    BY <1>1, <1>2, <1>8, <2>1, <2>4 DEF CountInv
<1>11. ASSUME NEW r \in Requests, LeaveAsSoleOwner(r) PROVE CountInv'
  <2>1. /\ \A u \in Users : home'[u] \in {home[u], None}
        /\ \A w \in Workspaces : workspace'[w] = "unused" => workspace[w] = "unused"
        /\ accounts' \subseteq accounts /\ Finish(r)
    BY <1>1, <1>11 DEF LeaveAsSoleOwner, DeleteWorkspace, Without, TypeOK
  <2> QED
    BY <1>3, <2>1
<1>12. ASSUME NEW r \in Requests, RemoveMember(r) \/ LeaveAsMember(r) PROVE CountInv'
  <2>1. /\ \A u \in Users : home'[u] \in {home[u], None}
        /\ workspace' = workspace /\ accounts' = accounts /\ Finish(r)
    BY <1>1, <1>12 DEF RemoveMember, LeaveAsMember, EndMembership, TypeOK
  <2> QED
    BY <1>3, <2>1
<1>13. ASSUME NEW r \in Requests,
              GenerateInvite(r) \/ RevokeInvite(r) \/ TransferOwnership(r) \/ Fail(r)
       PROVE  CountInv'
  <2>1. home' = home /\ workspace' = workspace /\ accounts' = accounts /\ Finish(r)
    BY <1>13 DEF GenerateInvite, RevokeInvite, TransferOwnership, Fail, db
  <2> QED
    BY <1>3, <2>1
<1>14. ASSUME NEW i \in Invites, Expire(i) PROVE CountInv'
  BY <1>1, <1>14 DEF Expire, CountInv, Counted, Members
<1> QED
  BY <1>4, <1>5, <1>6, <1>7, <1>9, <1>10, <1>11, <1>12, <1>13, <1>14 DEF Next, Write

\* An acceptance or a departure ends in one of its own steps.
LEMMA HowItEnds ==
  ASSUME TypeOK, [Next]_vars, NEW r \in Requests, Ends(r), request[r].op \in {"accept", "leave"}
  PROVE  AcceptInvite(r) \/ LeaveAsMember(r) \/ LeaveAsSoleOwner(r) \/ Fail(r)
<1>1. ASSUME NEW s \in Requests, Begin(s) PROVE FALSE
  <2>1. PICK op \in Ops, u \in Users, w \in There \cup {None},
             x \in Users \cup Invites \cup {None}, at \in {"check", "ready"} :
             Start(s, op, u, w, x, at)
    BY <1>1, BeginIsStart
  <2>2. request[s] = Idle /\ \A o \in Requests \ {s} : request'[o] = request[o]
    BY <2>1 DEF Start, TypeOK
  <2> QED
    BY <2>2 DEF Ends
<1>2. ASSUME NEW s \in Requests, Read(s) PROVE FALSE
  <2>1. PICK at \in {"members", "accounts", "ready", "close"} :
            request[s].at # "idle" /\ request' = [request EXCEPT ![s].at = at]
    BY <1>2 DEF Read, CheckInvite, CountMembers, CountAccounts, ReadRole, CountOthers, CheckTarget,
                Goto, At
  <2>2. request'[s].at = at
    BY <2>1 DEF TypeOK, RequestState, Idle
  <2> QED
    BY <2>1, <2>2 DEF Ends, Idle, TypeOK
<1>3. ASSUME NEW s \in Requests, Write(s) \/ Fail(s), s # r PROVE FALSE
  <2>1. Finish(s) \/ \E w, what : FinishTelling(s, w, what)
    BY <1>3 DEF Write, Found, OpenAccount, GenerateInvite, RevokeInvite, AcceptInvite,
                TransferOwnership, RemoveMember, LeaveAsMember, LeaveAsSoleOwner, Fail
  <2>2. request'[r].op = request[r].op
    BY <1>3, <2>1, FinishEnds DEF Ended
  <2> QED
    BY <2>2 DEF Ends, Idle
<1>4. ASSUME Write(r)
      PROVE  AcceptInvite(r) \/ LeaveAsMember(r) \/ LeaveAsSoleOwner(r)
  BY <1>4 DEF Write, Found, OpenAccount, GenerateInvite, RevokeInvite, TransferOwnership,
              RemoveMember, At
<1>5. ~UNCHANGED vars /\ \A i \in Invites : ~Expire(i)
  BY DEF Ends, vars, Expire
<1> QED
  BY <1>1, <1>2, <1>3, <1>4, <1>5 DEF Next

\* Nobody loses a membership to another user's acceptance or departure, unless they
\* joined after it had counted, or its own user had lost the membership before.
THEOREM EvictionsAreExplained == Spec => NobodyIsThrownOut
<1> DEFINE Explained == \A r \in Requests, u \in Users : LET q == request[r] IN
        /\ Ends(r) /\ q.op \in {"accept", "leave"}
        /\ u # q.user /\ home[u] = q.ws /\ home'[u] # home[u]
        => "join" \in q.since \/ home[q.user] # q.ws
<1>1. ASSUME CountInv, [Next]_vars PROVE Explained
  <2> SUFFICES ASSUME NEW r \in Requests, NEW u \in Users,
                      Ends(r), request[r].op \in {"accept", "leave"},
                      u # request[r].user, home[u] = request[r].ws, home'[u] # home[u]
               PROVE  "join" \in request[r].since \/ home[request[r].user] # request[r].ws
    OBVIOUS
  <2>1. AcceptInvite(r) \/ LeaveAsMember(r) \/ LeaveAsSoleOwner(r) \/ Fail(r)
    BY <1>1, HowItEnds DEF CountInv
  <2>2. Counted(r) /\ TypeOK
    BY <1>1 DEF CountInv
  <2>3. ~Fail(r)
    BY DEF Fail, db
  <2>4. ~LeaveAsMember(r)
    BY <2>2 DEF LeaveAsMember, EndMembership, TypeOK
  <2> QED
    BY <2>1, <2>2, <2>3, <2>4 DEF Counted, AcceptInvite, LeaveAsSoleOwner, At, Members
<1>2. CountInv /\ [Next]_vars => [Explained]_vars
  BY <1>1
<1>3. Spec => [][Explained]_vars
  BY <1>2, CountInit, CountStep, PTL DEF Spec
<1> QED
  BY <1>3 DEF NobodyIsThrownOut

\* An acceptance deletes no accounts that were there when it counted them.
THEOREM AcceptedAccountsSurvive == Spec => AcceptKeepsAccounts
<1> DEFINE Kept == \A r \in Requests : LET q == request[r] IN
        Ends(r) /\ q.op = "accept" /\ q.ws \in accounts \ accounts'
        => "account" \in q.since
<1>1. ASSUME CountInv, [Next]_vars PROVE Kept
  <2> SUFFICES ASSUME NEW r \in Requests, Ends(r), request[r].op = "accept",
                      request[r].ws \in accounts \ accounts'
               PROVE  "account" \in request[r].since
    OBVIOUS
  <2>1. AcceptInvite(r) \/ LeaveAsMember(r) \/ LeaveAsSoleOwner(r) \/ Fail(r)
    BY <1>1, HowItEnds DEF CountInv
  <2>2. Counted(r)
    BY <1>1 DEF CountInv
  <2> QED
    BY <2>1, <2>2 DEF Counted, AcceptInvite, LeaveAsMember, LeaveAsSoleOwner, Fail, At, db
<1>2. CountInv /\ [Next]_vars => [Kept]_vars
  BY <1>1
<1>3. Spec => [][Kept]_vars
  BY <1>2, CountInit, CountStep, PTL DEF Spec
<1> QED
  BY <1>3 DEF AcceptKeepsAccounts
=============================================================================
