---------------------------- MODULE AuthSessions ----------------------------
(***************************************************************************)
(* Sign-in sessions and platform administration: login, refresh-token      *)
(* rotation with reuse detection and logout of backend/app/auth, the user  *)
(* deactivation and administrator grants of backend/app/admin, and the     *)
(* cookie of the browsers.                                                 *)
(*                                                                         *)
(* A request is one transaction at READ COMMITTED.  Each SELECT is a step  *)
(* and sees what is committed.  An UPDATE by primary key applies to        *)
(* whatever the row is at its COMMIT.  An UPDATE of many rows touches the  *)
(* rows that matched when the statement began (a step of its own) and      *)
(* never a row inserted since.                                             *)
(*                                                                         *)
(* A family is named by its first token.  Access tokens are not modelled:  *)
(* nothing is stored of them.                                              *)
(***************************************************************************)
EXTENDS Naturals, FiniteSets

CONSTANTS
    Users,        \* identities that have signed in before (rows of app_user)
    Tokens,       \* refresh tokens, each drawn once
    Browsers,
    Requests,     \* requests that may overlap
    None

ASSUME AuthConstants == None \notin Users \cup Tokens \cup Browsers

VARIABLES
    deactivated,  \* users with deactivated_at set
    admins,       \* rows of platform_admin
    owner,        \* user_id of a row of auth_session, None before the token is issued
    family,       \* its family_id
    live,         \* rows whose revoked_at is NULL
    expired,      \* rows whose expires_at has passed
    jar,          \* the refresh cookie of each browser
    request,      \* where each request is, and what it carries
    disturbed     \* history: browsers whose session something has come in the way of

sessions == <<owner, family, live, expired>>
vars == <<deactivated, admins, sessions, jar, request, disturbed>>

Ops == {"login", "refresh", "logout", "deactivate"}

Idle == [at |-> "idle", op |-> "login", client |-> None, user |-> None,
         token |-> None, rows |-> {}, gives |-> None]

RequestState == {Idle} \cup
    [at : {"token", "user", "issue", "family", "revoke", "answer"}, op : Ops,
     client : Browsers \cup {None}, user : Users \cup {None},
     token : Tokens \cup {None}, rows : SUBSET Tokens, gives : Tokens \cup {None}]

Family(t) == {s \in Tokens : family[s] = family[t]}
SessionsOf(u) == {t \in Tokens : owner[t] = u}

Init ==
    /\ deactivated = {} /\ admins = {}
    /\ owner = [t \in Tokens |-> None] /\ family = [t \in Tokens |-> None]
    /\ live = {} /\ expired = {}
    /\ jar = [b \in Browsers |-> None]
    /\ request = [r \in Requests |-> Idle]
    /\ disturbed = {}

-----------------------------------------------------------------------------
(* A request begins.                                                       *)

Busy(b) == \E s \in Requests : request[s] # Idle /\ request[s].client = b

Start(r, op, b, u, t, at) ==
    /\ request[r] = Idle
    /\ request' = [request EXCEPT ![r] =
           [at |-> at, op |-> op, client |-> b, user |-> u, token |-> t,
            rows |-> {}, gives |-> None]]
    /\ disturbed' = IF b # None /\ Busy(b) THEN disturbed \cup {b} ELSE disturbed
    /\ UNCHANGED <<deactivated, admins, sessions, jar>>

\* Variant: a login only reads the row.
LockedByDeactivation(u) == \E s \in Requests :
    /\ request[s].user = u /\ request[s].op = "deactivate"
\* A login updates the user's row (its e-mail) and a deactivation sets deactivated_at:
\* each holds the row lock from its first step to its end.
Locked(u) == \E s \in Requests :
    /\ request[s].user = u /\ request[s].op \in {"login", "deactivate"}

\* GET /api/auth/callback, after Google has vouched for u: upsert_user_by_google_sub.
StartLogin(r, b, u) == ~Locked(u) /\ Start(r, "login", b, u, None, "user")

\* The refresh cookie has the path of the refresh endpoint: a browser sends it there
\* and nowhere else.
SentTo(op) == op = "refresh"
Cookie(b, op) == IF SentTo(op) THEN jar[b] ELSE None

StartRefresh(r, b) ==
    /\ Cookie(b, "refresh") # None
    /\ Start(r, "refresh", b, None, Cookie(b, "refresh"), "token")

\* Without a cookie the handler only clears cookies.
StartLogout(r, b) == LET t == Cookie(b, "logout") IN
    Start(r, "logout", b, None, t, IF t = None THEN "answer" ELSE "family")

\* The gate of every request under /api/admin.
RequirePlatformAdmin(a) == a \in admins \ deactivated

StartDeactivate(r, u) ==
    /\ \E a \in Users : RequirePlatformAdmin(a)
    /\ ~Locked(u)
    /\ Start(r, "deactivate", None, u, None, "family")

-----------------------------------------------------------------------------
(* Steps of requests.                                                      *)

At(r, ops, at) == request[r].op \in ops /\ request[r].at = at

Goto(r, at) == request' = [request EXCEPT ![r].at = at]
Finish(r) == request' = [request EXCEPT ![r] = Idle]
\* The COMMIT is done and the answer is on its way: it sets or clears the cookie.
Respond(r, t) == request' = [request EXCEPT ![r] =
    [@ EXCEPT !.at = "answer", !.gives = t, !.rows = {}, !.user = None, !.token = None]]

\* Variant: a rotated token is as good as any.
ReadTokenAnyhow(r) == LET t == request[r].token IN
    /\ At(r, {"refresh"}, "token")
    /\ IF t \in expired THEN Respond(r, None)
       ELSE request' = [request EXCEPT ![r].at = "user", ![r].user = owner[t]]
    /\ UNCHANGED <<deactivated, admins, sessions, jar, disturbed>>
\* The row of the presented token: reuse revokes the family, an expired one is refused.
ReadToken(r) == LET t == request[r].token IN
    /\ At(r, {"refresh"}, "token")
    /\ IF t \notin live THEN Goto(r, "family")
       ELSE IF t \in expired THEN Respond(r, None)
       ELSE request' = [request EXCEPT ![r].at = "user", ![r].user = owner[t]]
    /\ UNCHANGED <<deactivated, admins, sessions, jar, disturbed>>

\* _is_deactivated.  A refused refresh clears the cookies, a refused login does not.
CheckUser(r) ==
    /\ At(r, {"login", "refresh"}, "user")
    /\ IF request[r].user \notin deactivated THEN Goto(r, "issue")
       ELSE IF request[r].op = "login" THEN Finish(r)
       ELSE Respond(r, None)
    /\ UNCHANGED <<deactivated, admins, sessions, jar, disturbed>>

\* Variant: the new row is of no family.
IssueTokenAlone(r, t, f) ==
    /\ owner[t] = None
    /\ owner' = [owner EXCEPT ![t] = request[r].user]
    /\ Respond(r, t)
    /\ UNCHANGED <<deactivated, admins, family, expired, jar, disturbed>>
IssueToken(r, t, f) ==
    /\ owner[t] = None
    /\ owner' = [owner EXCEPT ![t] = request[r].user]
    /\ family' = [family EXCEPT ![t] = f]
    /\ Respond(r, t)
    /\ UNCHANGED <<deactivated, admins, expired, jar, disturbed>>

CreateSession(r) ==
    /\ At(r, {"login"}, "issue")
    /\ \E t \in Tokens : IssueToken(r, t, t) /\ live' = live \cup {t}

\* Variant: the presented row stays as it is.
RotateKeepingOld(r) == LET old == request[r].token IN
    /\ At(r, {"refresh"}, "issue")
    /\ \E t \in Tokens : IssueToken(r, t, family[old]) /\ live' = live \cup {t}
\* The presented row is updated by its id, whatever has become of it meanwhile.
RotateRefreshToken(r) == LET old == request[r].token IN
    /\ At(r, {"refresh"}, "issue")
    /\ \E t \in Tokens :
        IssueToken(r, t, family[old]) /\ live' = (live \ {old}) \cup {t}

\* An UPDATE of the live rows among S begins: it will touch these, and none inserted since.
Select(r, S) ==
    /\ request' = [request EXCEPT ![r].at = "revoke", ![r].rows = live \cap S]
    /\ UNCHANGED <<deactivated, admins, sessions, jar, disturbed>>

\* A replayed token, and a logout.
SelectFamily(r) ==
    /\ At(r, {"refresh", "logout"}, "family") /\ Select(r, Family(request[r].token))

\* revoke_all_sessions_for_user, after the update of the user.
SelectAllSessions(r) ==
    /\ At(r, {"deactivate"}, "family") /\ Select(r, SessionsOf(request[r].user))

RevokeFamily(r) ==
    /\ At(r, {"refresh", "logout"}, "revoke")
    /\ live' = live \ request[r].rows
    /\ Respond(r, None)
    /\ UNCHANGED <<deactivated, admins, owner, family, expired, jar, disturbed>>

\* History: a browser that is signed in as u, or is about to be.
SignedInAs(u) == {b \in Browsers :
    \/ jar[b] \in SessionsOf(u)
    \/ \E s \in Requests : request[s].client = b /\ request[s].gives \in SessionsOf(u)}

DeactivateUser(r) == LET u == request[r].user IN
    /\ At(r, {"deactivate"}, "revoke")
    /\ deactivated' = deactivated \cup {u}
    /\ live' = live \ request[r].rows
    /\ disturbed' = disturbed \cup SignedInAs(u)
    /\ Finish(r)
    /\ UNCHANGED <<admins, owner, family, expired, jar>>

\* The session is closed without a COMMIT, and no cookie is touched.
Fail(r) ==
    /\ request[r].at \notin {"idle", "answer"}
    /\ Finish(r) /\ UNCHANGED <<deactivated, admins, sessions, jar, disturbed>>

-----------------------------------------------------------------------------
(* Administration by single rows: the write comes after reads that it would itself   *)
(* answer for, so that overlapping ones act one after the other.                     *)

\* It waits for the row lock of a login or of a deactivation.
ReactivateUser(a, u) ==
    /\ RequirePlatformAdmin(a) /\ ~Locked(u)
    /\ deactivated' = deactivated \ {u}
    /\ UNCHANGED <<admins, sessions, jar, request, disturbed>>

SetAdmins(S) ==
    /\ admins' = S
    /\ UNCHANGED <<deactivated, sessions, jar, request, disturbed>>

\* A second grant of the same user fails: 409, or the primary key.
GrantAdmin(a, u) ==
    /\ RequirePlatformAdmin(a) /\ u \notin admins
    /\ SetAdmins(admins \cup {u})

\* Of anyone, and of oneself.
RevokeAdmin(a, u) ==
    /\ RequirePlatformAdmin(a) /\ u \in admins
    /\ SetAdmins(admins \ {u})

\* run_bootstrap, at a deployment: there is no administrator, and a row of the user.
Bootstrap(u) == admins = {} /\ SetAdmins({u})

-----------------------------------------------------------------------------
(* The answer reaches the browser, or does not.                            *)

Deliver(r) == LET q == request[r] IN
    /\ q.at = "answer"
    /\ jar' = [jar EXCEPT ![q.client] = q.gives]
    /\ Finish(r)
    /\ disturbed' = IF /\ q.op = "login" /\ q.gives \in live
                       /\ \A s \in Requests \ {r} : request[s].client # q.client
                    THEN disturbed \ {q.client} ELSE disturbed
    /\ UNCHANGED <<deactivated, admins, sessions>>

\* The rotated token is lost with the answer of a refresh.
Lose(r) == LET q == request[r] IN
    /\ q.at = "answer"
    /\ Finish(r)
    /\ disturbed' = IF q.op = "refresh" /\ q.gives # None
                    THEN disturbed \cup {q.client} ELSE disturbed
    /\ UNCHANGED <<deactivated, admins, sessions, jar>>

\* Time passes expires_at.  Of a revoked token nobody asks whether it has expired.
Expire(t) ==
    /\ t \in live \ expired
    /\ expired' = expired \cup {t}
    /\ UNCHANGED <<deactivated, admins, owner, family, live, jar, request, disturbed>>

-----------------------------------------------------------------------------

Begin(r) ==
    \/ \E b \in Browsers :
        \/ StartRefresh(r, b) \/ StartLogout(r, b)
        \/ \E u \in Users : StartLogin(r, b, u)
    \/ \E u \in Users : StartDeactivate(r, u)

Step(r) ==
    \/ ReadToken(r) \/ CheckUser(r)
    \/ CreateSession(r) \/ RotateRefreshToken(r)
    \/ SelectFamily(r) \/ SelectAllSessions(r) \/ RevokeFamily(r) \/ DeactivateUser(r)
    \/ Fail(r) \/ Deliver(r) \/ Lose(r)

Administration ==
    \/ \E u \in Users : Bootstrap(u)
    \/ \E a, u \in Users : ReactivateUser(a, u) \/ GrantAdmin(a, u) \/ RevokeAdmin(a, u)

Next ==
    \/ \E r \in Requests : Begin(r) \/ Step(r)
    \/ Administration
    \/ \E t \in Tokens : Expire(t)

Spec == Init /\ [][Next]_vars

-----------------------------------------------------------------------------
(* Properties.                                                             *)

\* Types; and a family is one user's, named by its first token.
TypeOK ==
    /\ deactivated \subseteq Users /\ admins \subseteq Users
    /\ owner \in [Tokens -> Users \cup {None}]
    /\ family \in [Tokens -> Tokens \cup {None}]
    /\ \A t \in Tokens : IF owner[t] = None THEN family[t] = None
                         ELSE family[t] \in Tokens /\ owner[family[t]] = owner[t]
    /\ live \subseteq {t \in Tokens : owner[t] # None}
    /\ expired \subseteq {t \in Tokens : owner[t] # None}
    /\ jar \in [Browsers -> {t \in Tokens : owner[t] # None} \cup {None}]
    /\ request \in [Requests -> RequestState]
    /\ disturbed \subseteq Browsers

Resting(b) == \A r \in Requests : request[r].client # b

\* A browser that sends one request at a time, loses no rotated token and whose user is
\* not deactivated is never signed out by reuse detection: at rest, the token in its
\* cookie is the one live token of its family.
CalmSession == \A b \in Browsers \ disturbed :
    Resting(b) /\ jar[b] # None => live \cap Family(jar[b]) = {jar[b]}

RefreshUnderWay(t) == \E r \in Requests :
    /\ At(r, {"refresh"}, "user") \/ At(r, {"refresh"}, "issue")
    /\ request[r].token \in Family(t)
Dead(t) == owner[t] # None /\ live \cap Family(t) = {} /\ ~RefreshUnderWay(t)

\* Reuse detection and deactivation are final: once a family has no live token, and
\* no refresh that has found one alive is under way, it never has one again.
DeadFamilyStaysDead == [][\A t \in Tokens : Dead(t) => Dead(t)']_vars

\* A deactivated user is issued no token, except by a refresh that had found the user
\* active and was under way at the deactivation.  A login never does: the row lock its
\* update of the e-mail takes keeps it apart from the deactivation.
DeactivatedGetNoTokens == [][
    \A u \in deactivated :
        (\A r \in Requests : ~(At(r, {"refresh"}, "issue") /\ request[r].user = u))
        => SessionsOf(u)' = SessionsOf(u)
    ]_vars

\* What the routes say of POST /api/auth/logout: it revokes the family, clears cookies.
\* Asked of a calm browser only, so that its cookie stays the same from the beginning of
\* the logout to its answer and, by CalmSession, was the live token of its family.
LogoutRevokesFamily == [][
    \A r \in Requests : LET q == request[r] IN
        /\ q.op = "logout" /\ q.at = "answer" /\ request'[r] = Idle
        /\ q.client \notin disturbed /\ jar[q.client] # None
        => live \cap Family(jar[q.client]) = {}
    ]_vars
=============================================================================
