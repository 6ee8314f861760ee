------------------------ MODULE AuthSessionsProofs ------------------------
(***************************************************************************)
(* Proofs about AuthSessions: its types, that a dead family stays dead,    *)
(* that a deactivated user is issued no token and that reuse detection     *)
(* never signs out an undisturbed browser.                                 *)
(***************************************************************************)
EXTENDS AuthSessions, TLAPS

Issued == {t \in Tokens : owner[t] # None}

\* What a request carries: a token that was issued and, once its row has been
\* read, the user of that row; a login past its check has found its user active.
StateOK(q) ==
    /\ q.gives \in Issued \cup {None}
    /\ q.at # "idle" /\ q.op # "deactivate" => q.client \in Browsers
    /\ q.at = "answer" => q.client \in Browsers
    /\ q.op = "refresh" /\ q.at \notin {"idle", "answer"} => q.token \in Issued
    /\ q.op = "refresh" /\ q.at \in {"user", "issue"} => q.user = owner[q.token]
    /\ q.op = "login" /\ q.at \notin {"idle", "answer"} => q.user \in Users
    /\ q.op = "login" /\ q.at = "issue" => q.user \notin deactivated
    /\ q.op = "deactivate" /\ q.at \notin {"idle", "answer"} => q.user \in Users

\* The row lock of a user has one holder.
Exclusive == \A r, s \in Requests :
    /\ r # s /\ request[r].user = request[s].user
    /\ request[r].op \in {"login", "deactivate"}
    /\ request[s].op \in {"login", "deactivate"}
    => request[r].user = None

SessionInv ==
    /\ TypeOK
    /\ \A r \in Requests : StateOK(request[r])
    /\ Exclusive

LEMMA IdleFacts ==
    /\ Idle \in RequestState /\ Idle.at = "idle" /\ Idle.op = "login"
    /\ Idle.user = None /\ Idle.gives = None
  BY DEF Idle, RequestState

LEMMA InitInv == Init => SessionInv
<1> SUFFICES ASSUME Init PROVE SessionInv
  OBVIOUS
<1>1. request \in [Requests -> RequestState] /\ \A r \in Requests : request[r] = Idle
  BY IdleFacts DEF Init
<1>2. TypeOK
  BY <1>1 DEF Init, TypeOK, sessions
<1>3. \A r \in Requests : StateOK(request[r])
  BY <1>1, IdleFacts DEF StateOK
<1>4. Exclusive
  BY <1>1, IdleFacts DEF Exclusive
<1> QED
  BY <1>2, <1>3, <1>4 DEF SessionInv

LEMMA Shape ==
  ASSUME TypeOK, NEW r \in Requests
  PROVE  /\ request[r] \in RequestState
         /\ request[r].at = "idle" => request[r] = Idle
         /\ request[r].at # "idle" =>
              request[r] \in
                [at : {"token", "user", "issue", "family", "revoke", "answer"}, op : Ops,
                 client : Browsers \cup {None}, user : Users \cup {None},
                 token : Tokens \cup {None}, rows : SUBSET Tokens,
                 gives : Tokens \cup {None}]
<1>1. request[r] \in RequestState
  BY DEF TypeOK
<1>2. CASE request[r] = Idle
  BY <1>1, <1>2, IdleFacts
<1>3. CASE request[r] # Idle
  <2>1. request[r] \in
          [at : {"token", "user", "issue", "family", "revoke", "answer"}, op : Ops,
           client : Browsers \cup {None}, user : Users \cup {None},
           token : Tokens \cup {None}, rows : SUBSET Tokens,
           gives : Tokens \cup {None}]
    BY <1>1, <1>3 DEF RequestState
  <2> QED
    BY <1>1, <2>1
<1> QED
  BY <1>2, <1>3

-----------------------------------------------------------------------------
(* Steps that issue no token: one request moves to a sound state, and      *)
(* keeps or gives up what it locks, or locks what no other has.            *)

LEMMA MoveStep ==
  ASSUME SessionInv, NEW r \in Requests, NEW state \in RequestState, StateOK(state),
         request' = [request EXCEPT ![r] = state],
         \/ state.user = None
         \/ state.op \notin {"login", "deactivate"}
         \/ state.user = request[r].user /\ state.op = request[r].op
         \/ ~Locked(state.user),
         UNCHANGED <<owner, family, deactivated>>
  PROVE  /\ request' \in [Requests -> RequestState]
         /\ \A s \in Requests : StateOK(request[s])'
         /\ Exclusive'
<1>1. /\ request \in [Requests -> RequestState]
      /\ request'[r] = state /\ \A s \in Requests \ {r} : request'[s] = request[s]
  BY DEF SessionInv, TypeOK
<1>2. request' \in [Requests -> RequestState]
  BY <1>1
<1>3. ASSUME NEW s \in Requests PROVE StateOK(request[s])'
  <2>1. StateOK(request[s]) /\ (request'[s] = request[s] \/ request'[s] = state)
    BY <1>1 DEF SessionInv
  <2> QED
    BY <2>1 DEF StateOK, Issued
<1>4. ASSUME NEW s \in Requests, s # r, state.user = request[s].user,
             state.op \in {"login", "deactivate"},
             request[s].op \in {"login", "deactivate"}
      PROVE  state.user = None
  BY <1>4 DEF SessionInv, Exclusive, Locked
<1>5. ASSUME NEW s \in Requests, NEW t \in Requests, s # t,
             request'[s].user = request'[t].user,
             request'[s].op \in {"login", "deactivate"},
             request'[t].op \in {"login", "deactivate"}
      PROVE  request'[s].user = None
  <2>1. CASE s = r
    BY <1>1, <1>4, <1>5, <2>1
  <2>2. CASE t = r
    BY <1>1, <1>4, <1>5, <2>2
  <2>3. CASE s # r /\ t # r
    BY <1>1, <1>5, <2>3 DEF SessionInv, Exclusive
  <2> QED
    BY <2>1, <2>2, <2>3
<1> QED
  BY <1>2, <1>3, <1>5 DEF Exclusive

LEMMA FinishStep ==
  ASSUME SessionInv, NEW r \in Requests, Finish(r), UNCHANGED <<owner, family, deactivated>>
  PROVE  /\ request' \in [Requests -> RequestState]
         /\ \A s \in Requests : StateOK(request[s])'
         /\ Exclusive'
<1>1. StateOK(Idle)
  BY IdleFacts DEF StateOK
<1> QED
  BY <1>1, IdleFacts, MoveStep DEF Finish

LEMMA BeginStep ==
  ASSUME SessionInv, NEW r \in Requests, Begin(r)
  PROVE  SessionInv'
<1>0. TypeOK
  BY DEF SessionInv
<1>1. ASSUME NEW op \in Ops, NEW b \in Browsers \cup {None}, NEW u \in Users \cup {None},
             NEW t \in Issued \cup {None},
             NEW at \in {"token", "user", "family", "answer"},
             Start(r, op, b, u, t, at),
             op # "deactivate" => b \in Browsers,
             at = "answer" => b \in Browsers,
             op = "refresh" => t \in Issued /\ at = "token",
             op \in {"login", "deactivate"} => u \in Users /\ ~Locked(u)
      PROVE  SessionInv'
  <2> DEFINE state == [at |-> at, op |-> op, client |-> b, user |-> u, token |-> t,
                       rows |-> {}, gives |-> None]
  <2>1. state \in RequestState
    BY DEF RequestState, Issued
  <2>2. StateOK(state)
    BY <1>1 DEF StateOK
  <2>3. /\ request' = [request EXCEPT ![r] = state]
        /\ UNCHANGED <<deactivated, admins, sessions, jar>>
        /\ disturbed' \subseteq disturbed \cup {b} /\ (b = None => disturbed' = disturbed)
    BY <1>1 DEF Start
  <2>4. \/ state.op \notin {"login", "deactivate"}
        \/ ~Locked(state.user)
    BY <1>1
  <2> HIDE DEF state
  <2>5. /\ request' \in [Requests -> RequestState]
        /\ \A s \in Requests : StateOK(request[s])'
        /\ Exclusive'
    BY <2>1, <2>2, <2>3, <2>4, MoveStep DEF sessions
  <2>6. disturbed' \subseteq Browsers
    BY <1>0, <2>3 DEF TypeOK
  <2>7. TypeOK'
    BY <1>0, <2>3, <2>5, <2>6 DEF TypeOK, sessions
  <2> QED
    BY <2>5, <2>7 DEF SessionInv
<1>2. \A b \in Browsers : \A op : Cookie(b, op) \in Issued \cup {None}
  BY <1>0 DEF Cookie, TypeOK, Issued
<1>3. ASSUME NEW b \in Browsers, StartRefresh(r, b) PROVE SessionInv'
  <2>1. Cookie(b, "refresh") \in Issued
    BY <1>2, <1>3 DEF StartRefresh
  <2> QED
    BY <1>1, <1>3, <2>1 DEF StartRefresh, Ops
<1>4. ASSUME NEW b \in Browsers, StartLogout(r, b) PROVE SessionInv'
  BY <1>1, <1>2, <1>4 DEF StartLogout, Ops
<1>5. ASSUME NEW b \in Browsers, NEW u \in Users, StartLogin(r, b, u) PROVE SessionInv'
  BY <1>1, <1>5 DEF StartLogin, Ops
<1>6. ASSUME NEW u \in Users, StartDeactivate(r, u) PROVE SessionInv'
  BY <1>1, <1>6 DEF StartDeactivate, Ops
<1> QED
  BY <1>3, <1>4, <1>5, <1>6 DEF Begin

\* Respond: what has been read and locked is given up.
LEMMA RespondFacts ==
  ASSUME SessionInv, NEW r \in Requests, request[r].at # "idle", NEW t, Respond(r, t)
  PROVE  \E state \in [at : {"answer"}, op : Ops, client : Browsers \cup {None},
                       user : {None}, token : {None}, rows : {{}}, gives : {t}] :
            /\ request' = [request EXCEPT ![r] = state]
            /\ state.client = request[r].client /\ state.op = request[r].op
<1> DEFINE state == [request[r] EXCEPT !.at = "answer", !.gives = t, !.rows = {},
                                       !.user = None, !.token = None]
<1>1. request[r] \in
        [at : {"token", "user", "issue", "family", "revoke", "answer"}, op : Ops,
         client : Browsers \cup {None}, user : Users \cup {None},
         token : Tokens \cup {None}, rows : SUBSET Tokens,
         gives : Tokens \cup {None}]
  BY Shape DEF SessionInv
<1>2. request' = [request EXCEPT ![r] = state]
  BY DEF SessionInv, TypeOK, Respond
<1>3. /\ state \in [at : {"answer"}, op : Ops, client : Browsers \cup {None},
                    user : {None}, token : {None}, rows : {{}}, gives : {t}]
      /\ state.client = request[r].client /\ state.op = request[r].op
  BY <1>1
<1> QED
  BY <1>2, <1>3

LEMMA RespondStep ==
  ASSUME SessionInv, NEW r \in Requests, request[r].at # "idle",
         request[r].op # "deactivate", Respond(r, None),
         UNCHANGED <<owner, family, deactivated>>
  PROVE  /\ request' \in [Requests -> RequestState]
         /\ \A s \in Requests : StateOK(request[s])'
         /\ Exclusive'
<1>1. PICK state \in [at : {"answer"}, op : Ops, client : Browsers \cup {None},
                      user : {None}, token : {None}, rows : {{}}, gives : {None}] :
        /\ request' = [request EXCEPT ![r] = state]
        /\ state.client = request[r].client /\ state.op = request[r].op
  BY RespondFacts
<1>2. request[r].client \in Browsers
  BY DEF SessionInv, StateOK
<1>3. state \in RequestState
  BY <1>1 DEF RequestState
<1>4. StateOK(state) /\ state.user = None
  BY <1>1, <1>2 DEF StateOK
<1> QED
  BY <1>1, <1>3, <1>4, MoveStep

\* A request goes on, as it is.
LEMMA GotoStep ==
  ASSUME SessionInv, NEW r \in Requests, request[r].at # "idle",
         NEW at \in {"token", "user", "issue", "family", "revoke"},
         NEW u \in Users \cup {None}, NEW rows \in SUBSET Tokens,
         request' = [request EXCEPT ![r] = [request[r] EXCEPT
                        !.at = at, !.user = u, !.rows = rows]],
         u = request[r].user \/ request[r].op = "refresh",
         StateOK([request[r] EXCEPT !.at = at, !.user = u, !.rows = rows]),
         UNCHANGED <<owner, family, deactivated>>
  PROVE  /\ request' \in [Requests -> RequestState]
         /\ \A s \in Requests : StateOK(request[s])'
         /\ Exclusive'
<1> DEFINE state == [request[r] EXCEPT !.at = at, !.user = u, !.rows = rows]
<1>1. request[r] \in
        [at : {"token", "user", "issue", "family", "revoke", "answer"}, op : Ops,
         client : Browsers \cup {None}, user : Users \cup {None},
         token : Tokens \cup {None}, rows : SUBSET Tokens,
         gives : Tokens \cup {None}]
  BY Shape DEF SessionInv
<1>2. state \in RequestState /\ state.user = u /\ state.op = request[r].op
  BY <1>1 DEF RequestState
<1> HIDE DEF state
<1> QED
  BY <1>2, MoveStep DEF state

LEMMA ReadStep ==
  ASSUME SessionInv, NEW r \in Requests, ReadToken(r) \/ CheckUser(r)
  PROVE  SessionInv'
<1>0. /\ TypeOK /\ StateOK(request[r]) /\ request[r].at # "idle"
      /\ request[r].op # "deactivate"
      /\ UNCHANGED <<deactivated, admins, sessions, jar, disturbed>>
      /\ UNCHANGED <<owner, family, deactivated>>
  BY DEF SessionInv, ReadToken, CheckUser, At, sessions
<1>1. request[r] \in
        [at : {"token", "user", "issue", "family", "revoke", "answer"}, op : Ops,
         client : Browsers \cup {None}, user : Users \cup {None},
         token : Tokens \cup {None}, rows : SUBSET Tokens,
         gives : Tokens \cup {None}]
  BY <1>0, Shape
<1>2. SUFFICES /\ request' \in [Requests -> RequestState]
               /\ \A s \in Requests : StateOK(request[s])'
               /\ Exclusive'
  BY <1>0 DEF SessionInv, TypeOK, sessions
<1> DEFINE Gone(at, u) == [request[r] EXCEPT !.at = at, !.user = u, !.rows = request[r].rows]
<1>3. \A at, u : /\ Gone(at, u).at = at /\ Gone(at, u).user = u
                 /\ Gone(at, u).op = request[r].op
                 /\ Gone(at, u).client = request[r].client
                 /\ Gone(at, u).token = request[r].token
                 /\ Gone(at, u).gives = request[r].gives
  BY <1>1
<1>4. CASE ReadToken(r) /\ Goto(r, "family")
  <2>1. request' = [request EXCEPT ![r] = Gone("family", request[r].user)]
    BY <1>1, <1>4 DEF Goto, SessionInv, TypeOK
  <2>2. StateOK(Gone("family", request[r].user))
    BY <1>0, <1>3, <1>4 DEF StateOK, ReadToken, At
  <2> QED
    BY <1>0, <1>1, <2>1, <2>2, GotoStep
<1>5. CASE Respond(r, None)
  BY <1>0, <1>5, RespondStep
<1>6. CASE ReadToken(r) /\ ~Goto(r, "family") /\ ~Respond(r, None)
  <2> DEFINE u == owner[request[r].token]
  <2>1. u \in Users /\ request[r].token \in Issued
    BY <1>0, <1>6 DEF StateOK, ReadToken, At, TypeOK, Issued
  <2>2. request' = [request EXCEPT ![r] = Gone("user", u)]
    BY <1>0, <1>1, <1>6 DEF ReadToken, TypeOK
  <2>3. StateOK(Gone("user", u))
    BY <1>0, <1>3, <1>6, <2>1 DEF StateOK, ReadToken, At
  <2> QED
    BY <1>0, <1>1, <1>6, <2>1, <2>2, <2>3, GotoStep DEF ReadToken, At
<1>7. CASE CheckUser(r) /\ Goto(r, "issue") /\ request[r].user \notin deactivated
  <2>1. request' = [request EXCEPT ![r] = Gone("issue", request[r].user)]
    BY <1>1, <1>7 DEF Goto, SessionInv, TypeOK
  <2>2. StateOK(Gone("issue", request[r].user))
    BY <1>0, <1>3, <1>7 DEF StateOK, CheckUser, At
  <2> QED
    BY <1>0, <1>1, <2>1, <2>2, GotoStep
<1>8. CASE Finish(r)
  BY <1>0, <1>8, FinishStep
<1> QED
  BY <1>4, <1>5, <1>6, <1>7, <1>8 DEF ReadToken, CheckUser

LEMMA RevokeStep ==
  ASSUME SessionInv, NEW r \in Requests,
         \/ SelectFamily(r) \/ SelectAllSessions(r) \/ RevokeFamily(r)
         \/ DeactivateUser(r) \/ Fail(r)
  PROVE  SessionInv'
<1>0. TypeOK /\ StateOK(request[r]) /\ request[r].at # "idle"
  BY DEF SessionInv, SelectFamily, SelectAllSessions, RevokeFamily, DeactivateUser,
         Fail, At
<1>1. request[r] \in
        [at : {"token", "user", "issue", "family", "revoke", "answer"}, op : Ops,
         client : Browsers \cup {None}, user : Users \cup {None},
         token : Tokens \cup {None}, rows : SUBSET Tokens,
         gives : Tokens \cup {None}]
  BY <1>0, Shape
<1>2. ASSUME NEW S \in SUBSET Tokens, Select(r, S),
             At(r, {"refresh", "logout", "deactivate"}, "family")
      PROVE  SessionInv'
  <2> DEFINE state == [request[r] EXCEPT !.at = "revoke", !.user = request[r].user,
                                         !.rows = live \cap S]
  <2>1. request' = [request EXCEPT ![r] = state]
    BY <1>0, <1>1, <1>2 DEF Select, TypeOK
  <2>2. /\ state.at = "revoke" /\ state.user = request[r].user /\ state.op = request[r].op
        /\ state.client = request[r].client /\ state.token = request[r].token
        /\ state.gives = request[r].gives
    BY <1>1
  <2>3. StateOK(state)
    BY <1>0, <1>2, <2>2 DEF StateOK, At
  <2>4. UNCHANGED <<deactivated, admins, sessions, jar, disturbed>>
        /\ UNCHANGED <<owner, family, deactivated>>
    BY <1>2 DEF Select, sessions
  <2>5. /\ request' \in [Requests -> RequestState]
        /\ \A s \in Requests : StateOK(request[s])'
        /\ Exclusive'
    <3>1. live \cap S \in SUBSET Tokens /\ request[r].user \in Users \cup {None}
      BY <1>1
    <3> QED
      BY <1>0, <2>1, <2>3, <2>4, <3>1, GotoStep
  <2> QED
    BY <1>0, <2>4, <2>5 DEF SessionInv, TypeOK, sessions
<1>3. CASE SelectFamily(r) \/ SelectAllSessions(r)
  <2>1. Family(request[r].token) \in SUBSET Tokens
        /\ SessionsOf(request[r].user) \in SUBSET Tokens
    BY DEF Family, SessionsOf
  <2> QED
    BY <1>2, <1>3, <2>1 DEF SelectFamily, SelectAllSessions, At
<1>4. CASE RevokeFamily(r)
  <2>1. /\ request' \in [Requests -> RequestState]
        /\ \A s \in Requests : StateOK(request[s])'
        /\ Exclusive'
    BY <1>0, <1>4, RespondStep DEF RevokeFamily, At
  <2> QED
    BY <1>0, <1>4, <2>1 DEF RevokeFamily, SessionInv, TypeOK
<1>5. CASE DeactivateUser(r)
  <2> DEFINE u == request[r].user
  <2>1. u \in Users /\ request[r].op = "deactivate"
    BY <1>0, <1>5 DEF DeactivateUser, At, StateOK
  <2>2. /\ deactivated' = deactivated \cup {u}
        /\ request' = [request EXCEPT ![r] = Idle]
        /\ UNCHANGED <<admins, owner, family, expired, jar>>
        /\ live' \subseteq live
        /\ disturbed' \subseteq Browsers
    BY <1>0, <1>5 DEF DeactivateUser, Finish, TypeOK, SignedInAs
  <2>3. /\ request' \in [Requests -> RequestState]
        /\ request'[r] = Idle /\ \A s \in Requests \ {r} : request'[s] = request[s]
    BY <1>0, <2>2, IdleFacts DEF TypeOK
  <2>4. ASSUME NEW s \in Requests PROVE StateOK(request[s])'
    <3>1. CASE s = r
      BY <2>3, <3>1, IdleFacts DEF StateOK
    <3>2. CASE s # r
      <4>1. StateOK(request[s])
        BY DEF SessionInv
      <4>2. request[s].op = "login" => request[s].user # u
        BY <2>1, <3>2, AuthConstants DEF SessionInv, Exclusive
      <4> QED
        BY <2>2, <2>3, <3>2, <4>1, <4>2 DEF StateOK, Issued
    <3> QED
      BY <3>1, <3>2
  <2>5. Exclusive'
    BY <2>3, IdleFacts DEF Exclusive, SessionInv
  <2>6. TypeOK'
    BY <1>0, <2>1, <2>2, <2>3 DEF TypeOK
  <2> QED
    BY <2>4, <2>5, <2>6 DEF SessionInv
<1>6. CASE Fail(r)
  <2>1. /\ UNCHANGED <<owner, family, deactivated>>
        /\ UNCHANGED <<deactivated, admins, sessions, jar, disturbed>>
        /\ Finish(r)
    BY <1>6 DEF Fail, sessions
  <2>2. /\ request' \in [Requests -> RequestState]
        /\ \A s \in Requests : StateOK(request[s])'
        /\ Exclusive'
    BY <2>1, FinishStep
  <2> QED
    BY <1>0, <2>1, <2>2 DEF SessionInv, TypeOK, sessions
<1> QED
  BY <1>3, <1>4, <1>5, <1>6

-----------------------------------------------------------------------------
(* Steps that issue a token.                                               *)

LEMMA IssueStep ==
  ASSUME SessionInv, NEW r \in Requests, request[r].at = "issue",
         request[r].op \in {"login", "refresh"}, request[r].user \in Users,
         NEW t \in Tokens, NEW f \in Tokens, IssueToken(r, t, f),
         f = t \/ (f \in Issued /\ owner[f] = request[r].user),
         live' \subseteq live \cup {t}
  PROVE  SessionInv'
<1> DEFINE u == request[r].user
<1>0. TypeOK /\ u # None
  BY AuthConstants DEF SessionInv
<1>1. /\ owner[t] = None /\ t \notin Issued
      /\ owner' = [owner EXCEPT ![t] = u]
      /\ family' = [family EXCEPT ![t] = f]
      /\ UNCHANGED <<deactivated, admins, expired, jar, disturbed>>
      /\ Respond(r, t)
  BY DEF IssueToken, Issued
<1>2. /\ owner'[t] = u /\ family'[t] = f
      /\ \A s \in Tokens \ {t} : owner'[s] = owner[s] /\ family'[s] = family[s]
      /\ owner' \in [Tokens -> Users \cup {None}]
      /\ family' \in [Tokens -> Tokens \cup {None}]
  BY <1>0, <1>1 DEF TypeOK
<1>3. Issued' = Issued \cup {t}
  BY <1>0, <1>2 DEF Issued
<1>4. \A s \in Tokens : IF owner'[s] = None THEN family'[s] = None
                        ELSE family'[s] \in Tokens /\ owner'[family'[s]] = owner'[s]
  <2> TAKE s \in Tokens
  <2>1. CASE s = t
    <3>1. owner'[f] = u
      BY <1>1, <1>2
    <3> QED
      BY <1>0, <1>2, <2>1, <3>1
  <2>2. CASE s # t /\ owner[s] = None
    BY <1>0, <1>2, <2>2 DEF TypeOK
  <2>3. CASE s # t /\ owner[s] # None
    <3>1. family[s] \in Tokens /\ owner[family[s]] = owner[s]
      BY <1>0, <2>3 DEF TypeOK
    <3>2. family[s] # t
      BY <1>1, <2>3, <3>1
    <3> QED
      BY <1>2, <2>3, <3>1, <3>2
  <2> QED
    BY <2>1, <2>2, <2>3
<1>5. PICK state \in [at : {"answer"}, op : Ops, client : Browsers \cup {None},
                      user : {None}, token : {None}, rows : {{}}, gives : {t}] :
        /\ request' = [request EXCEPT ![r] = state]
        /\ state.client = request[r].client /\ state.op = request[r].op
  <2>1. Respond(r, t) /\ request[r].at # "idle"
    BY <1>1
  <2> QED
    BY <2>1, RespondFacts
<1>6. request[r].client \in Browsers
  BY DEF SessionInv, StateOK
<1>7. /\ request' \in [Requests -> RequestState]
      /\ request'[r] = state /\ \A s \in Requests \ {r} : request'[s] = request[s]
  <2>1. state \in RequestState
    BY <1>5 DEF RequestState
  <2> QED
    BY <1>0, <1>5, <2>1 DEF TypeOK
<1>8. ASSUME NEW s \in Requests PROVE StateOK(request[s])'
  <2>1. CASE s = r
    BY <1>3, <1>5, <1>6, <1>7, <2>1 DEF StateOK
  <2>2. CASE s # r
    <3>1. StateOK(request[s]) /\ request'[s] = request[s]
      BY <1>7, <2>2 DEF SessionInv
    <3>2. request[s].token \in Issued => owner'[request[s].token] = owner[request[s].token]
      BY <1>1, <1>2 DEF Issued
    <3> QED
      BY <1>1, <1>3, <3>1, <3>2 DEF StateOK
  <2> QED
    BY <2>1, <2>2
<1>9. Exclusive'
  BY <1>5, <1>7 DEF Exclusive, SessionInv
<1>10. TypeOK'
  <2>1. live' \subseteq Issued' /\ expired' \subseteq Issued'
        /\ jar' \in [Browsers -> Issued' \cup {None}]
    BY <1>0, <1>1, <1>3 DEF TypeOK, Issued
  <2> QED
    BY <1>0, <1>1, <1>2, <1>4, <1>7, <2>1 DEF TypeOK, Issued
<1> QED
  BY <1>8, <1>9, <1>10 DEF SessionInv

LEMMA CreateStep ==
  ASSUME SessionInv, NEW r \in Requests, CreateSession(r)
  PROVE  SessionInv'
<1>1. request[r].at = "issue" /\ request[r].op = "login" /\ request[r].user \in Users
  BY DEF CreateSession, At, SessionInv, StateOK
<1>2. PICK t \in Tokens : IssueToken(r, t, t) /\ live' = live \cup {t}
  BY DEF CreateSession
<1> QED
  BY <1>1, <1>2, IssueStep

LEMMA RotateStep ==
  ASSUME SessionInv, NEW r \in Requests, RotateRefreshToken(r)
  PROVE  SessionInv'
<1> DEFINE old == request[r].token
<1>1. request[r].at = "issue" /\ request[r].op = "refresh"
  BY DEF RotateRefreshToken, At
<1>2. old \in Issued /\ request[r].user = owner[old]
  BY <1>1 DEF SessionInv, StateOK
<1>3. /\ request[r].user \in Users
      /\ family[old] \in Issued /\ owner[family[old]] = request[r].user
  BY <1>2 DEF SessionInv, TypeOK, Issued
<1>4. PICK t \in Tokens :
        IssueToken(r, t, family[old]) /\ live' = (live \ {old}) \cup {t}
  BY DEF RotateRefreshToken
<1> QED
  BY <1>1, <1>3, <1>4, IssueStep DEF Issued

-----------------------------------------------------------------------------

LEMMA AnswerStep ==
  ASSUME SessionInv, NEW r \in Requests, Deliver(r) \/ Lose(r)
  PROVE  SessionInv'
<1>1. /\ request[r].client \in Browsers /\ request[r].gives \in Issued \cup {None}
      /\ Finish(r)
      /\ UNCHANGED <<owner, family, deactivated>>
      /\ UNCHANGED <<deactivated, admins, sessions>>
  BY DEF SessionInv, StateOK, Deliver, Lose, sessions
<1>2. jar' \in [Browsers -> Issued \cup {None}] /\ disturbed' \subseteq Browsers
  BY <1>1 DEF SessionInv, TypeOK, Issued, Deliver, Lose
<1>3. /\ request' \in [Requests -> RequestState]
      /\ \A s \in Requests : StateOK(request[s])'
      /\ Exclusive'
  BY <1>1, FinishStep
<1>4. TypeOK'
  BY <1>1, <1>2, <1>3 DEF SessionInv, TypeOK, Issued, sessions
<1> QED
  BY <1>3, <1>4 DEF SessionInv

\* Steps that touch no request; none of them deactivates.
LEMMA AloneStep ==
  ASSUME SessionInv, UNCHANGED <<owner, family, jar, request, disturbed>>,
         deactivated' \subseteq deactivated, admins' \subseteq Users,
         live' = live, expired' \subseteq Issued
  PROVE  SessionInv'
<1>1. TypeOK'
  BY DEF SessionInv, TypeOK, Issued
<1>2. \A r \in Requests : StateOK(request[r])'
  BY DEF SessionInv, StateOK, Issued
<1>3. Exclusive'
  BY DEF SessionInv, Exclusive
<1> QED
  BY <1>1, <1>2, <1>3 DEF SessionInv

LEMMA InvStep == SessionInv /\ [Next]_vars => SessionInv'
<1> SUFFICES ASSUME SessionInv, [Next]_vars PROVE SessionInv'
  OBVIOUS
<1>1. ASSUME NEW r \in Requests, Begin(r) \/ Step(r) PROVE SessionInv'
  BY <1>1, BeginStep, ReadStep, CreateStep, RotateStep, RevokeStep, AnswerStep DEF Step
<1>2. CASE Administration
  BY <1>2, AloneStep DEF Administration, ReactivateUser, GrantAdmin, RevokeAdmin,
     Bootstrap, SetAdmins, sessions, SessionInv, TypeOK, Issued
<1>3. ASSUME NEW t \in Tokens, Expire(t) PROVE SessionInv'
  BY <1>3, AloneStep DEF Expire, SessionInv, TypeOK, Issued
<1>4. CASE UNCHANGED vars
  BY <1>4, AloneStep DEF vars, sessions, SessionInv, TypeOK, Issued
<1> QED
  BY <1>1, <1>2, <1>3, <1>4 DEF Next

\* At every moment of every run, what each request carries agrees with the rows it
\* was read from, and the row lock of a user has one holder.
THEOREM InvHolds == Spec => []SessionInv
<1> QED
  BY InitInv, InvStep, PTL DEF Spec

\* The rows of sessions and the cookies are what backend/app/auth/session.py keeps,
\* and a family is one user's, for any users, tokens, browsers and requests.
THEOREM SessionsTypeCorrect == Spec => []TypeOK
<1>1. SessionInv => TypeOK
  BY DEF SessionInv
<1> QED
  BY <1>1, InvHolds, PTL

-----------------------------------------------------------------------------
(* What never comes back.                                                  *)

\* A step makes at most one token live, a new one, and its user is that of the
\* login or refresh that issues it.
LEMMA Issuing ==
  ASSUME SessionInv, NEW r \in Requests, NEW t \in Tokens, NEW f \in Tokens,
         IssueToken(r, t, f)
  PROVE  /\ t \notin Issued /\ owner' = [owner EXCEPT ![t] = request[r].user]
         /\ family'[t] = f /\ \A s \in Tokens \ {t} : family'[s] = family[s]
         /\ \A s \in Requests : request'[s].at \in {"user", "issue"} =>
                                    request'[s] = request[s]
<1>1. /\ t \notin Issued /\ owner' = [owner EXCEPT ![t] = request[r].user]
      /\ family'[t] = f /\ \A s \in Tokens \ {t} : family'[s] = family[s]
  BY DEF IssueToken, Issued, SessionInv, TypeOK
<1>2. ASSUME NEW s \in Requests, request'[s].at \in {"user", "issue"}
      PROVE  request'[s] = request[s]
  <2>1. request'[r].at = "answer"
    <3>1. request' = [request EXCEPT ![r] = [request[r] EXCEPT !.at = "answer",
             !.gives = t, !.rows = {}, !.user = None, !.token = None]]
      BY DEF IssueToken, Respond, SessionInv, TypeOK
    <3>2. request[r] \in RequestState
      BY Shape DEF SessionInv
    <3>3. [request[r] EXCEPT !.at = "answer", !.gives = t, !.rows = {},
             !.user = None, !.token = None].at = "answer"
      BY <3>2 DEF RequestState, Idle
    <3> QED
      BY <3>1, <3>3 DEF SessionInv, TypeOK
  <2>2. s # r
    BY <1>2, <2>1
  <2> QED
    BY <2>2 DEF IssueToken, Respond, SessionInv, TypeOK
<1> QED
  BY <1>1, <1>2

Rotating(q) == q.op = "refresh" /\ q.at \in {"user", "issue"}

\* The other steps make no token live, and a refresh finds its own alive.
LEMMA NotIssuing ==
  ASSUME SessionInv, [Next]_vars,
         \A r \in Requests : ~CreateSession(r) /\ ~RotateRefreshToken(r)
  PROVE  /\ UNCHANGED <<owner, family>> /\ live' \subseteq live
         /\ \A s \in Requests : Rotating(request'[s]) =>
               /\ request'[s].token = request[s].token
               /\ Rotating(request[s]) \/ request[s].token \in live
<1> DEFINE Fine == \A s \in Requests : Rotating(request'[s]) =>
               /\ request'[s].token = request[s].token
               /\ Rotating(request[s]) \/ request[s].token \in live
           Still == UNCHANGED <<owner, family>> /\ live' \subseteq live
<1>0. request \in [Requests -> RequestState]
  BY DEF SessionInv, TypeOK
<1>1. ASSUME NEW r \in Requests, NEW state,
             request' = [request EXCEPT ![r] = state], ~Rotating(state)
      PROVE  Fine
  BY <1>0, <1>1
<1>2. ASSUME NEW r \in Requests, Finish(r) PROVE Fine
  BY <1>1, <1>2, IdleFacts DEF Finish, Rotating
<1>3. ASSUME NEW r \in Requests, NEW t, request[r].at # "idle", Respond(r, t) PROVE Fine
  <2>1. PICK state \in [at : {"answer"}, op : Ops, client : Browsers \cup {None},
                        user : {None}, token : {None}, rows : {{}}, gives : {t}] :
          request' = [request EXCEPT ![r] = state]
    BY <1>3, RespondFacts
  <2>2. ~Rotating(state)
    BY <2>1 DEF Rotating
  <2> QED
    BY <1>1, <2>1, <2>2
<1>4. ASSUME NEW r \in Requests, Begin(r) PROVE Still /\ Fine
  <2>1. ASSUME NEW op, NEW b, NEW u, NEW t, NEW at \in {"token", "user", "family", "answer"},
               Start(r, op, b, u, t, at), ~(op = "refresh" /\ at = "user")
        PROVE  Still /\ Fine
    <3> DEFINE state == [at |-> at, op |-> op, client |-> b, user |-> u, token |-> t,
                         rows |-> {}, gives |-> None]
    <3>1. request' = [request EXCEPT ![r] = state]
          /\ UNCHANGED <<deactivated, admins, sessions, jar>>
      BY <2>1 DEF Start
    <3>2. ~Rotating(state)
      BY <2>1 DEF Rotating
    <3> HIDE DEF state
    <3> QED
      BY <1>1, <3>1, <3>2 DEF sessions
  <2> QED
    BY <1>4, <2>1 DEF Begin, StartRefresh, StartLogout, StartLogin, StartDeactivate
<1>5. ASSUME NEW r \in Requests, ReadToken(r) PROVE Still /\ Fine
  <2>1. Still /\ request[r].op = "refresh" /\ request[r].at = "token"
    BY <1>5 DEF ReadToken, At, sessions
  <2>2. CASE Goto(r, "family")
    <3>1. ~Rotating([request[r] EXCEPT !.at = "family"])
      BY <2>1, Shape DEF Rotating, SessionInv
    <3> QED
      BY <1>0, <1>1, <2>1, <2>2, <3>1 DEF Goto
  <2>3. CASE Respond(r, None)
    BY <1>3, <2>1, <2>3
  <2>4. CASE ~Goto(r, "family") /\ ~Respond(r, None)
    <3>1. /\ request[r].token \in live
          /\ request' = [request EXCEPT ![r] = [request[r] EXCEPT
                !.at = "user", !.user = owner[request[r].token]]]
      BY <1>0, <1>5, <2>4 DEF ReadToken
    <3>2. request'[r].token = request[r].token
      BY <1>0, <2>1, <3>1, Shape DEF SessionInv
    <3> QED
      BY <1>0, <2>1, <3>1, <3>2
  <2> QED
    BY <2>2, <2>3, <2>4
<1>6. ASSUME NEW r \in Requests, CheckUser(r) PROVE Still /\ Fine
  <2>1. Still /\ request[r].at = "user"
    BY <1>6 DEF CheckUser, At, sessions
  <2>2. CASE Goto(r, "issue")
    <3>1. /\ request'[r] = [request[r] EXCEPT !.at = "issue"]
          /\ \A s \in Requests \ {r} : request'[s] = request[s]
      BY <1>0, <2>2 DEF Goto
    <3>2. request'[r].token = request[r].token /\ request'[r].op = request[r].op
      BY <2>1, <3>1, Shape DEF SessionInv
    <3> QED
      BY <2>1, <3>1, <3>2 DEF Rotating
  <2> QED
    BY <1>2, <1>3, <1>6, <2>1, <2>2 DEF CheckUser
<1>7. ASSUME NEW r \in Requests, NEW S, Select(r, S), request[r].at # "idle"
      PROVE  Still /\ Fine
  <2>1. request' = [request EXCEPT ![r] = [request[r] EXCEPT
                       !.at = "revoke", !.rows = live \cap S]]
    BY <1>0, <1>7 DEF Select
  <2>2. ~Rotating([request[r] EXCEPT !.at = "revoke", !.rows = live \cap S])
    BY <1>7, Shape DEF Rotating, SessionInv
  <2> QED
    BY <1>1, <1>7, <2>1, <2>2 DEF Select, sessions
<1>8. ASSUME NEW r \in Requests,
             \/ SelectFamily(r) \/ SelectAllSessions(r) \/ RevokeFamily(r)
             \/ DeactivateUser(r) \/ Fail(r) \/ Deliver(r) \/ Lose(r)
      PROVE  Still /\ Fine
  BY <1>2, <1>3, <1>7, <1>8 DEF SelectFamily, SelectAllSessions, RevokeFamily,
     DeactivateUser, Fail, Deliver, Lose, At, sessions
<1>9. ASSUME request' = request PROVE Fine
  BY <1>9
<1>10. CASE UNCHANGED vars
  BY <1>9, <1>10 DEF vars, sessions
<1>11. CASE Administration \/ \E t \in Tokens : Expire(t)
  BY <1>9, <1>11 DEF Administration, ReactivateUser, GrantAdmin, RevokeAdmin,
     Bootstrap, SetAdmins, Expire, sessions
<1> QED
  BY <1>4, <1>5, <1>6, <1>8, <1>10, <1>11 DEF Next, Step

\* Reuse detection and deactivation are final: a family without a live token, and
\* without a refresh that has found one alive, never has one again
\* (backend/app/auth/session.py), however many requests overlap.
THEOREM DeadStaysDead == Spec => DeadFamilyStaysDead
<1>1. ASSUME SessionInv, [Next]_vars, NEW t \in Tokens, Dead(t)
      PROVE  Dead(t)'
  <2>0. /\ t \in Issued /\ live \cap Family(t) = {}
        /\ \A s \in Requests : Rotating(request[s]) => request[s].token \notin Family(t)
    BY <1>1 DEF Dead, Issued, RefreshUnderWay, At, Rotating
  <2>1. SUFFICES /\ owner'[t] # None
                 /\ live' \cap Family(t)' = {}
                 /\ \A s \in Requests : Rotating(request'[s]) =>
                       request'[s].token \notin Family(t)'
    BY DEF Dead, RefreshUnderWay, At, Rotating
  <2>2. CASE \A r \in Requests : ~CreateSession(r) /\ ~RotateRefreshToken(r)
    <3>1. /\ UNCHANGED <<owner, family>> /\ live' \subseteq live
          /\ \A s \in Requests : Rotating(request'[s]) =>
               /\ request'[s].token = request[s].token
               /\ Rotating(request[s]) \/ request[s].token \in live
      BY <1>1, <2>2, NotIssuing
    <3>2. Family(t)' = Family(t)
      BY <3>1 DEF Family
    <3> QED
      BY <2>0, <3>1, <3>2 DEF Issued
  <2>3. ASSUME NEW r \in Requests, NEW n \in Tokens, NEW f \in Tokens,
               IssueToken(r, n, f), live' \subseteq live \cup {n},
               f = n \/ f # family[t]
        PROVE  /\ owner'[t] # None
               /\ live' \cap Family(t)' = {}
               /\ \A s \in Requests : Rotating(request'[s]) =>
                     request'[s].token \notin Family(t)'
    <3>1. /\ n \notin Issued /\ owner' = [owner EXCEPT ![n] = request[r].user]
          /\ family'[n] = f /\ \A s \in Tokens \ {n} : family'[s] = family[s]
          /\ \A s \in Requests : request'[s].at \in {"user", "issue"} =>
                                     request'[s] = request[s]
      BY <1>1, <2>3, Issuing
    <3>2. family[t] \in Issued /\ t # n
      BY <1>1, <2>0, <3>1 DEF SessionInv, TypeOK, Issued
    <3>3. Family(t)' \subseteq Family(t) /\ n \notin Family(t)'
      BY <2>3, <3>1, <3>2 DEF Family
    <3>4. owner'[t] = owner[t]
      BY <1>1, <3>1, <3>2 DEF SessionInv, TypeOK
    <3> QED
      BY <2>0, <2>3, <3>1, <3>3, <3>4 DEF Rotating, Issued
  <2>4. ASSUME NEW r \in Requests, CreateSession(r)
        PROVE  /\ owner'[t] # None
               /\ live' \cap Family(t)' = {}
               /\ \A s \in Requests : Rotating(request'[s]) =>
                     request'[s].token \notin Family(t)'
    <3>1. PICK n \in Tokens : IssueToken(r, n, n) /\ live' = live \cup {n}
      BY <2>4 DEF CreateSession
    <3> QED
      BY <2>3, <3>1
  <2>5. ASSUME NEW r \in Requests, RotateRefreshToken(r)
        PROVE  /\ owner'[t] # None
               /\ live' \cap Family(t)' = {}
               /\ \A s \in Requests : Rotating(request'[s]) =>
                     request'[s].token \notin Family(t)'
    <3> DEFINE old == request[r].token
    <3>1. PICK n \in Tokens :
            IssueToken(r, n, family[old]) /\ live' = (live \ {old}) \cup {n}
      BY <2>5 DEF RotateRefreshToken
    <3>2. Rotating(request[r]) /\ old \in Issued /\ family[old] \in Tokens
      BY <1>1, <2>5 DEF RotateRefreshToken, At, Rotating, SessionInv, StateOK, TypeOK, Issued
    <3>3. family[old] # family[t]
      BY <2>0, <3>2 DEF Family, Issued
    <3> QED
      BY <2>3, <3>1, <3>2, <3>3
  <2> QED
    BY <2>2, <2>4, <2>5
<1>2. SessionInv /\ [Next]_vars => [\A t \in Tokens : Dead(t) => Dead(t)']_vars
  BY <1>1
<1> QED
  BY <1>2, InvHolds, PTL DEF Spec, DeadFamilyStaysDead

\* A deactivated user is issued no token but by a refresh that found the user active
\* before (backend/app/auth/session.py, backend/app/admin/service.py).
THEOREM NoTokensForDeactivated == Spec => DeactivatedGetNoTokens
<1>1. ASSUME SessionInv, [Next]_vars, NEW u \in deactivated,
             \A r \in Requests : ~(At(r, {"refresh"}, "issue") /\ request[r].user = u)
      PROVE  SessionsOf(u)' = SessionsOf(u)
  <2>1. CASE \A r \in Requests : ~CreateSession(r) /\ ~RotateRefreshToken(r)
    BY <1>1, <2>1, NotIssuing DEF SessionsOf
  <2>2. ASSUME NEW r \in Requests, CreateSession(r) \/ RotateRefreshToken(r)
        PROVE  SessionsOf(u)' = SessionsOf(u)
    <3>1. request[r].user # u
      BY <1>1, <2>2 DEF CreateSession, RotateRefreshToken, At, SessionInv, StateOK
    <3>2. PICK n \in Tokens : owner[n] = None
            /\ owner' = [owner EXCEPT ![n] = request[r].user]
      BY <2>2 DEF CreateSession, RotateRefreshToken, IssueToken
    <3>3. u # None
      BY <1>1, AuthConstants DEF SessionInv, TypeOK
    <3> QED
      BY <1>1, <3>1, <3>2, <3>3 DEF SessionsOf, SessionInv, TypeOK
  <2> QED
    BY <2>1, <2>2
<1>2. SessionInv /\ [Next]_vars =>
        [\A u \in deactivated :
            (\A r \in Requests : ~(At(r, {"refresh"}, "issue") /\ request[r].user = u))
            => SessionsOf(u)' = SessionsOf(u)]_vars
  BY <1>1
<1> QED
  BY <1>2, InvHolds, PTL DEF Spec, DeactivatedGetNoTokens

-----------------------------------------------------------------------------
(* Reuse detection never signs out an undisturbed browser: the invariant   *)
(* CalmSession, which CalmInv strengthens by what is true while a request  *)
(* of the browser is under way.                                            *)

\* A token in the hands of a browser: in its cookie, in a request or in an answer.
HeldBy(t, b) ==
    /\ t # None
    /\ \/ jar[b] = t
       \/ \E r \in Requests : /\ request[r].client = b
                              /\ request[r].token = t \/ request[r].gives = t

\* Only an answer gives a token, only a refresh sends one, and the rows an UPDATE has
\* chosen are of one family, or of one user.
CarriesOK(q) ==
    /\ q.gives # None => q.at = "answer" /\ q.op \in {"login", "refresh"}
    /\ q.token # None => q.op = "refresh" /\ q.at # "answer"
    /\ q.op = "logout" => q.at = "answer"
    /\ q.op = "deactivate" => q.client = None
    /\ q.at = "revoke" /\ q.op = "refresh" => q.rows \subseteq Family(q.token)
    /\ q.at = "revoke" /\ q.op = "deactivate" => q.rows \subseteq SessionsOf(q.user)

\* A family is in the hands of one browser.
Separate == \A b, c \in Browsers : \A s, t \in Tokens :
    HeldBy(s, b) /\ HeldBy(t, c) /\ family[s] = family[t] => b = c

\* What a login is about to give is alone in its family and nowhere else.
FreshLogin(r) ==
    LET g == request[r].gives
    IN  request[r].op = "login" /\ g # None =>
          /\ \A s \in Issued : family[s] = family[g] => s = g
          /\ \A b \in Browsers : jar[b] # g
          /\ \A s \in Requests \ {r} : request[s].token # g /\ request[s].gives # g

Whole(t) == live \cap Family(t) = {t}

\* An undisturbed browser has one request at most, sends what is in its cookie, and
\* that token, or the one on its way, is the live one of its family.
Calm(b) ==
    b \notin disturbed =>
      /\ \A r, s \in Requests : request[r].client = b /\ request[s].client = b => r = s
      /\ \A r \in Requests : request[r].client = b =>
            /\ request[r].op = "refresh" /\ request[r].at # "answer" =>
                  request[r].at \in {"token", "user", "issue"} /\ request[r].token = jar[b]
            /\ request[r].gives # None => Whole(request[r].gives)
      /\ jar[b] # None =>
            \/ Whole(jar[b])
            \/ \E r \in Requests : /\ request[r].client = b
                                   /\ request[r].op = "refresh" /\ request[r].gives # None

CalmInv ==
    /\ \A r \in Requests : CarriesOK(request[r])
    /\ Separate
    /\ \A r \in Requests : FreshLogin(r)
    /\ \A b \in Browsers : Calm(b)

LEMMA CalmInit == Init => CalmInv
<1> SUFFICES ASSUME Init PROVE CalmInv
  OBVIOUS
<1>1. \A r \in Requests : /\ request[r].at = "idle" /\ request[r].op = "login"
                          /\ request[r].client = None /\ request[r].user = None
                          /\ request[r].token = None /\ request[r].gives = None
  BY DEF Init, Idle
<1>2. \A b \in Browsers : jar[b] = None /\ b # None
  BY AuthConstants DEF Init
<1>3. \A r \in Requests : CarriesOK(request[r])
  BY <1>1 DEF CarriesOK
<1>4. \A b \in Browsers, t \in Tokens : ~HeldBy(t, b)
  BY <1>1, <1>2 DEF HeldBy
<1>5. Separate
  BY <1>4 DEF Separate
<1>6. \A r \in Requests : FreshLogin(r)
  BY <1>1 DEF FreshLogin
<1>7. \A b \in Browsers : Calm(b)
  BY <1>1, <1>2 DEF Calm
<1> QED
  BY <1>3, <1>5, <1>6, <1>7 DEF CalmInv

-----------------------------------------------------------------------------
(* What the invariants say of tokens and requests.                         *)

LEMMA Rows ==
  ASSUME SessionInv
  PROVE  /\ \A t \in Issued : /\ t \in Tokens /\ family[t] \in Issued
                              /\ owner[t] \in Users /\ owner[family[t]] = owner[t]
         /\ \A t \in Tokens \ Issued : family[t] = None
         /\ live \subseteq Issued
         /\ jar \in [Browsers -> Issued \cup {None}]
         /\ request \in [Requests -> RequestState]
         /\ None \notin Tokens /\ None \notin Browsers /\ None \notin Users
  BY AuthConstants DEF SessionInv, TypeOK, Issued

\* What a browser holds was issued.
LEMMA HeldIssued ==
  ASSUME SessionInv, CalmInv, NEW t, NEW b \in Browsers, HeldBy(t, b)
  PROVE  t \in Issued
<1>1. CASE jar[b] = t
  BY <1>1, Rows DEF HeldBy
<1>2. ASSUME NEW r \in Requests, request[r].gives = t PROVE t \in Issued
  BY <1>2 DEF HeldBy, SessionInv, StateOK
<1>3. ASSUME NEW r \in Requests, request[r].token = t PROVE t \in Issued
  <2>1. StateOK(request[r]) /\ CarriesOK(request[r]) /\ t # None
    BY DEF SessionInv, CalmInv, HeldBy
  <2>2. request[r].op = "refresh" /\ request[r].at # "answer"
    BY <1>3, <2>1 DEF CarriesOK
  <2>3. request[r].at # "idle"
    BY <2>2, Shape, IdleFacts DEF SessionInv
  <2> QED
    BY <1>3, <2>1, <2>2, <2>3 DEF StateOK
<1> QED
  BY <1>1, <1>2, <1>3 DEF HeldBy

-----------------------------------------------------------------------------
(* Steps that issue no token.                                              *)

\* One request moves on and gives nothing; what it sends, if anything, it sent already
\* or takes from the cookie.  A delivered answer puts what it gave into the cookie.
LEMMA QuietKeeps ==
  ASSUME SessionInv, CalmInv, NEW r \in Requests, NEW state \in RequestState,
         request' = [request EXCEPT ![r] = state],
         UNCHANGED <<owner, family>>, CarriesOK(state), state.gives = None,
         \/ jar' = jar
         \/ /\ state.token = None /\ request[r].client \in Browsers
            /\ jar' = [jar EXCEPT ![request[r].client] = request[r].gives],
         \/ state.token = None
         \/ state.token = request[r].token /\ state.client = request[r].client
         \/ state.client \in Browsers /\ state.token = jar[state.client]
  PROVE  /\ \A s \in Requests : CarriesOK(request[s])'
         /\ Separate'
         /\ \A s \in Requests : FreshLogin(s)'
<1>1. /\ request'[r] = state /\ \A s \in Requests \ {r} : request'[s] = request[s]
      /\ Issued' = Issued
  BY Rows DEF Issued
<1>2. ASSUME NEW s \in Requests PROVE CarriesOK(request[s])'
  <2>1. CarriesOK(request'[s])
    BY <1>1 DEF CalmInv
  <2> QED
    BY <2>1 DEF CarriesOK, Family, SessionsOf
<1>3. ASSUME NEW t \in Tokens, NEW b \in Browsers, HeldBy(t, b)' PROVE HeldBy(t, b)
  <2>1. CASE jar'[b] = t
    BY <1>3, <2>1, Rows DEF HeldBy
  <2>2. ASSUME NEW s \in Requests, request'[s].client = b,
               request'[s].token = t \/ request'[s].gives = t
        PROVE  HeldBy(t, b)
    BY <1>1, <1>3, <2>2, Rows DEF HeldBy
  <2> QED
    BY <1>3, <2>1, <2>2 DEF HeldBy
<1>4. Separate'
  BY <1>3 DEF Separate, CalmInv
<1>5. ASSUME NEW s \in Requests, request'[s].op = "login", request'[s].gives # None
      PROVE  /\ \A t \in Issued : family[t] = family[request'[s].gives] => t = request'[s].gives
             /\ \A b \in Browsers : jar'[b] # request'[s].gives
             /\ \A q \in Requests \ {s} : /\ request'[q].token # request'[s].gives
                                          /\ request'[q].gives # request'[s].gives
  <2>1. s # r /\ request'[s] = request[s] /\ FreshLogin(s)
    BY <1>1, <1>5 DEF CalmInv
  <2> DEFINE g == request[s].gives
  <2>2. /\ \A t \in Issued : family[t] = family[g] => t = g
        /\ \A b \in Browsers : jar[b] # g
        /\ \A q \in Requests \ {s} : request[q].token # g /\ request[q].gives # g
    BY <1>5, <2>1 DEF FreshLogin
  <2>3. \A b \in Browsers : jar'[b] # g
    BY <2>1, <2>2, Rows
  <2>4. \A q \in Requests \ {s} : request'[q].token # g /\ request'[q].gives # g
    BY <1>1, <1>5, <2>1, <2>2
  <2> QED
    BY <2>1, <2>2, <2>3, <2>4
<1>6. \A s \in Requests : FreshLogin(s)'
  BY <1>1, <1>5 DEF FreshLogin
<1> QED
  BY <1>2, <1>4, <1>6

\* A browser that a step is not about, none of whose tokens it touches, stays calm.
LEMMA CalmOther ==
  ASSUME CalmInv, NEW r \in Requests, NEW b \in Browsers, b \notin disturbed,
         request' \in [Requests -> RequestState],
         \A s \in Requests \ {r} : request'[s] = request[s],
         request[r].client # b, request'[r].client # b, jar'[b] = jar[b],
         \A t : HeldBy(t, b) => (live \cap Family(t))' = live \cap Family(t)
  PROVE  Calm(b)'
<1>1. Calm(b)
  BY DEF CalmInv
<1>2. ASSUME NEW s \in Requests, request'[s].client = b
      PROVE  s # r /\ request'[s] = request[s] /\ request[s].client = b
  BY <1>2
<1>3. \A s, q \in Requests : request'[s].client = b /\ request'[q].client = b => s = q
  BY <1>1, <1>2 DEF Calm
<1>4. ASSUME NEW s \in Requests, request'[s].client = b
      PROVE  /\ request'[s].op = "refresh" /\ request'[s].at # "answer" =>
                  request'[s].at \in {"token", "user", "issue"} /\ request'[s].token = jar'[b]
             /\ request'[s].gives # None => Whole(request[s].gives)'
  <2>1. request'[s] = request[s] /\ request[s].client = b
    BY <1>2, <1>4
  <2>2. ASSUME request[s].gives # None PROVE Whole(request[s].gives)'
    <3>1. HeldBy(request[s].gives, b) /\ Whole(request[s].gives)
      BY <1>1, <2>1, <2>2 DEF Calm, HeldBy
    <3>2. (live \cap Family(request[s].gives))' = live \cap Family(request[s].gives)
      BY <2>1, <3>1
    <3> QED
      BY <2>1, <3>1, <3>2 DEF Whole
  <2> QED
    BY <1>1, <2>1, <2>2 DEF Calm
<1>5. ASSUME jar'[b] # None
      PROVE  \/ Whole(jar[b])'
             \/ \E s \in Requests : /\ request'[s].client = b
                                    /\ request'[s].op = "refresh" /\ request'[s].gives # None
  <2>0. \/ Whole(jar[b])
        \/ \E s \in Requests : /\ request[s].client = b
                               /\ request[s].op = "refresh" /\ request[s].gives # None
    BY <1>1, <1>5 DEF Calm
  <2>1. CASE Whole(jar[b])
    <3>1. HeldBy(jar[b], b)
      BY <1>5 DEF HeldBy
    <3> QED
      BY <2>1, <3>1 DEF Whole
  <2>2. CASE \E s \in Requests : /\ request[s].client = b
                                 /\ request[s].op = "refresh" /\ request[s].gives # None
    BY <2>2
  <2> QED
    BY <2>0, <2>1, <2>2
<1> QED
  BY <1>3, <1>4, <1>5 DEF Calm

\* A browser whose own request moves on without giving a token stays calm.
LEMMA CalmOwn ==
  ASSUME SessionInv, CalmInv, NEW r \in Requests, NEW b \in Browsers, b \notin disturbed,
         NEW state, request' = [request EXCEPT ![r] = state],
         \A s \in Requests : request[s].client = b => s = r,
         request[r].client = b => request[r].gives = None \/ request[r].op # "refresh",
         UNCHANGED <<jar, live, family>>, state.gives = None,
         state.client = b /\ state.op = "refresh" /\ state.at # "answer" =>
            state.at \in {"token", "user", "issue"} /\ state.token = jar[b]
  PROVE  Calm(b)'
<1>1. request'[r] = state /\ \A s \in Requests \ {r} : request'[s] = request[s]
  BY Rows
<1>2. \A s \in Requests : request'[s].client = b => s = r
  BY <1>1
<1>3. jar[b] # None => Whole(jar[b])
  BY DEF CalmInv, Calm
<1>4. jar'[b] # None => Whole(jar[b])'
  BY <1>3 DEF Whole, Family
<1> QED
  BY <1>1, <1>2, <1>4 DEF Calm

\* The same for all browsers, when the tables stay as they are.
LEMMA QuietCalm ==
  ASSUME SessionInv, CalmInv, NEW r \in Requests, NEW state \in RequestState,
         request' = [request EXCEPT ![r] = state],
         UNCHANGED <<jar, live, owner, family>>, state.gives = None,
         CarriesOK(state),
         state.client \in {None, request[r].client},
         \/ state.token = None
         \/ state.token = request[r].token /\ state.client = request[r].client,
         request[r].client \notin disturbed' /\ request[r].client \in Browsers =>
            /\ request[r].gives = None \/ request[r].op # "refresh"
            /\ state.client = request[r].client /\ state.op = "refresh" /\ state.at # "answer" =>
                  state.at \in {"token", "user", "issue"} /\ state.token = request[r].token
                  /\ request[r].op = "refresh" /\ request[r].at # "answer",
         disturbed \subseteq disturbed'
  PROVE  CalmInv'
<1>1. /\ \A s \in Requests : CarriesOK(request[s])'
      /\ Separate'
      /\ \A s \in Requests : FreshLogin(s)'
  BY QuietKeeps
<1>2. ASSUME NEW b \in Browsers PROVE Calm(b)'
  <2>1. CASE b \in disturbed'
    BY <2>1 DEF Calm
  <2>2. CASE b \notin disturbed' /\ b = request[r].client
    <3>1. b \notin disturbed /\ Calm(b)
      BY <2>2 DEF CalmInv
    <3>2. \A s \in Requests : request[s].client = b => s = r
      BY <2>2, <3>1 DEF Calm
    <3>3. state.client = b /\ state.op = "refresh" /\ state.at # "answer" =>
            state.at \in {"token", "user", "issue"} /\ state.token = jar[b]
      BY <2>2, <3>1 DEF Calm
    <3> QED
      BY <2>2, <3>1, <3>2, <3>3, CalmOwn
  <2>3. CASE b \notin disturbed' /\ b # request[r].client
    <3>1. \A t : (live \cap Family(t))' = live \cap Family(t)
      BY DEF Family
    <3>2. request' \in [Requests -> RequestState] /\ request'[r].client # b
          /\ \A s \in Requests \ {r} : request'[s] = request[s]
      BY <2>3, Rows
    <3> QED
      BY <2>3, <3>1, <3>2, CalmOther
  <2> QED
    BY <2>1, <2>2, <2>3
<1> QED
  BY <1>1, <1>2 DEF CalmInv

-----------------------------------------------------------------------------
(* The steps.                                                              *)

IdleRequest == Idle \in RequestState /\ Idle.client = None /\ Idle.token = None
               /\ Idle.gives = None /\ Idle.op = "login" /\ Idle.at = "idle"
LEMMA IdleShape == IdleRequest
  BY DEF IdleRequest, Idle, RequestState

LEMMA BeginCalm ==
  ASSUME SessionInv, CalmInv, NEW r \in Requests, Begin(r)
  PROVE  CalmInv'
<1>1. ASSUME NEW op \in Ops, NEW b \in Browsers \cup {None}, NEW u \in Users \cup {None},
             NEW t \in Tokens \cup {None},
             NEW at \in {"token", "user", "family", "answer"},
             Start(r, op, b, u, t, at),
             op = "refresh" => at = "token" /\ b \in Browsers /\ t = jar[b],
             op # "refresh" => t = None,
             op = "logout" => at = "answer",
             op = "deactivate" => b = None
      PROVE  CalmInv'
  <2> DEFINE state == [at |-> at, op |-> op, client |-> b, user |-> u, token |-> t,
                       rows |-> {}, gives |-> None]
  <2>1. state \in RequestState /\ CarriesOK(state)
    BY <1>1 DEF RequestState, CarriesOK
  <2>2. /\ request[r] = Idle /\ request' = [request EXCEPT ![r] = state]
        /\ UNCHANGED <<deactivated, admins, sessions, jar>>
        /\ disturbed \subseteq disturbed'
        /\ b # None /\ Busy(b) => b \in disturbed'
    BY <1>1 DEF Start
  <2>3. /\ state.gives = None /\ state.token = t /\ state.client = b
        /\ state.op = op /\ state.at = at
    OBVIOUS
  <2> HIDE DEF state
  <2>4. UNCHANGED <<owner, family, live>>
    BY <2>2 DEF sessions
  <2>5. /\ \A s \in Requests : CarriesOK(request[s])'
        /\ Separate'
        /\ \A s \in Requests : FreshLogin(s)'
    BY <1>1, <2>1, <2>2, <2>3, <2>4, QuietKeeps
  <2>6. ASSUME NEW c \in Browsers PROVE Calm(c)'
    <3>1. CASE c \in disturbed'
      BY <3>1 DEF Calm
    <3>2. CASE c \notin disturbed' /\ c = b
      <4>1. \A s \in Requests : request[s].client # c
        BY <2>2, <3>2, IdleShape, Rows DEF Busy, IdleRequest
      <4>2. c \notin disturbed
        BY <2>2, <3>2
      <4> QED
        BY <1>1, <2>1, <2>2, <2>3, <2>4, <3>2, <4>1, <4>2, CalmOwn
    <3>3. CASE c \notin disturbed' /\ c # b
      <4>1. \A t_1 : (live \cap Family(t_1))' = live \cap Family(t_1)
        BY <2>4 DEF Family
      <4>2. /\ request' \in [Requests -> RequestState] /\ request'[r].client # c
            /\ request[r].client # c
            /\ \A s \in Requests \ {r} : request'[s] = request[s]
        BY <2>1, <2>2, <2>3, <3>3, IdleShape, Rows DEF IdleRequest
      <4> QED
        BY <2>2, <3>3, <4>1, <4>2, CalmOther
    <3> QED
      BY <3>1, <3>2, <3>3
  <2> QED
    BY <2>5, <2>6 DEF CalmInv
<1>2. jar \in [Browsers -> Tokens \cup {None}]
  BY Rows DEF Issued
<1>3. ASSUME NEW b \in Browsers, StartRefresh(r, b) PROVE CalmInv'
  <2>1. Cookie(b, "refresh") = jar[b] /\ jar[b] \in Tokens \cup {None}
    BY <1>2 DEF Cookie, SentTo
  <2> QED
    BY <1>1, <1>3, <2>1 DEF StartRefresh, Ops
<1>4. ASSUME NEW b \in Browsers, StartLogout(r, b) PROVE CalmInv'
  <2>1. Cookie(b, "logout") = None
    BY DEF Cookie, SentTo
  <2>2. Start(r, "logout", b, None, None, "answer")
    BY <1>4, <2>1 DEF StartLogout
  <2> QED
    BY <1>1, <2>2 DEF Ops
<1>5. ASSUME NEW b \in Browsers, NEW u \in Users, StartLogin(r, b, u) PROVE CalmInv'
  BY <1>1, <1>5 DEF StartLogin, Ops
<1>6. ASSUME NEW u \in Users, StartDeactivate(r, u) PROVE CalmInv'
  BY <1>1, <1>6 DEF StartDeactivate, Ops
<1> QED
  BY <1>3, <1>4, <1>5, <1>6 DEF Begin

\* A request under way ends, or answers without a token.
LEMMA EndCalm ==
  ASSUME SessionInv, CalmInv, NEW r \in Requests, request[r].at # "idle",
         Finish(r) \/ Respond(r, None),
         UNCHANGED <<jar, live, owner, family>>, disturbed \subseteq disturbed',
         \/ request[r].client \in disturbed'
         \/ request[r].gives = None \/ request[r].op # "refresh"
  PROVE  CalmInv'
<1>1. CASE Finish(r)
  <2>1. CarriesOK(Idle)
    BY IdleShape DEF IdleRequest, CarriesOK
  <2> QED
    BY <1>1, <2>1, IdleShape, QuietCalm DEF IdleRequest, Finish
<1>2. CASE Respond(r, None)
  <2>1. PICK state \in [at : {"answer"}, op : Ops, client : Browsers \cup {None},
                        user : {None}, token : {None}, rows : {{}}, gives : {None}] :
          /\ request' = [request EXCEPT ![r] = state]
          /\ state.client = request[r].client /\ state.op = request[r].op
    BY <1>2, RespondFacts
  <2>2. state \in RequestState
    BY <2>1 DEF RequestState
  <2>3. CarriesOK(state)
    BY <2>1 DEF CarriesOK, CalmInv
  <2> QED
    BY <2>1, <2>2, <2>3, QuietCalm
<1> QED
  BY <1>1, <1>2

\* A request under way goes on, as it is.
LEMMA GoCalm ==
  ASSUME SessionInv, CalmInv, NEW r \in Requests, request[r].at \notin {"idle", "answer"},
         NEW at \in {"token", "user", "issue", "family", "revoke"},
         NEW u \in Users \cup {None}, NEW rows \in SUBSET Tokens,
         request' = [request EXCEPT ![r] = [request[r] EXCEPT
                        !.at = at, !.user = u, !.rows = rows]],
         CarriesOK([request[r] EXCEPT !.at = at, !.user = u, !.rows = rows]),
         request[r].op = "refresh" /\ request[r].client \notin disturbed =>
            at \in {"user", "issue"},
         UNCHANGED <<jar, live, owner, family, disturbed>>
  PROVE  CalmInv'
<1> DEFINE state == [request[r] EXCEPT !.at = at, !.user = u, !.rows = rows]
<1>1. request[r] \in
        [at : {"token", "user", "issue", "family", "revoke", "answer"}, op : Ops,
         client : Browsers \cup {None}, user : Users \cup {None},
         token : Tokens \cup {None}, rows : SUBSET Tokens,
         gives : Tokens \cup {None}]
  BY Shape DEF SessionInv
<1>2. /\ state \in RequestState /\ state.op = request[r].op /\ state.at = at
      /\ state.client = request[r].client /\ state.token = request[r].token
      /\ state.gives = request[r].gives
  BY <1>1 DEF RequestState
<1>3. request[r].gives = None
  BY DEF CalmInv, CarriesOK
<1> HIDE DEF state
<1> QED
  BY <1>2, <1>3, QuietCalm DEF state

LEMMA ReadCalm ==
  ASSUME SessionInv, CalmInv, NEW r \in Requests, ReadToken(r) \/ CheckUser(r)
  PROVE  CalmInv'
<1>0. /\ TypeOK /\ UNCHANGED <<jar, live, owner, family, disturbed>>
      /\ request[r].at \in {"token", "user"} /\ request[r].op \in {"login", "refresh"}
      /\ request[r].at \notin {"idle", "answer"}
  BY DEF ReadToken, CheckUser, At, sessions, SessionInv
<1>1. request[r] \in
        [at : {"token", "user", "issue", "family", "revoke", "answer"}, op : Ops,
         client : Browsers \cup {None}, user : Users \cup {None},
         token : Tokens \cup {None}, rows : SUBSET Tokens,
         gives : Tokens \cup {None}]
  BY <1>0, Shape
<1>2. CarriesOK(request[r]) /\ StateOK(request[r]) /\ request[r].gives = None
  BY <1>0 DEF CalmInv, SessionInv, CarriesOK
<1> DEFINE Gone(at, u) == [request[r] EXCEPT !.at = at, !.user = u, !.rows = request[r].rows]
<1>3. ASSUME NEW at \in {"user", "issue", "family"}, NEW u \in Users \cup {None},
             request' = [request EXCEPT ![r] = Gone(at, u)],
             request[r].op = "refresh" /\ request[r].client \notin disturbed =>
                at \in {"user", "issue"}
      PROVE  CalmInv'
  <2>1. /\ Gone(at, u).at = at /\ Gone(at, u).op = request[r].op
        /\ Gone(at, u).client = request[r].client
        /\ Gone(at, u).token = request[r].token
        /\ Gone(at, u).gives = request[r].gives
    BY <1>1
  <2>2. CarriesOK(Gone(at, u))
    BY <1>0, <1>2, <2>1 DEF CarriesOK
  <2> QED
    BY <1>0, <1>1, <1>3, <2>2, GoCalm
<1>4. CASE Finish(r) \/ Respond(r, None)
  BY <1>0, <1>2, <1>4, EndCalm
<1>5. CASE ReadToken(r) /\ request[r].token \notin live
  <2>1. request' = [request EXCEPT ![r] = Gone("family", request[r].user)]
    BY <1>0, <1>1, <1>5 DEF ReadToken, Goto, TypeOK
  <2>2. request[r].client \in disturbed
    <3>1. request[r].op = "refresh" /\ request[r].at = "token"
          /\ request[r].client \in Browsers /\ request[r].token \in Issued
      BY <1>2, <1>5 DEF ReadToken, At, StateOK
    <3>2. ASSUME request[r].client \notin disturbed PROVE FALSE
      <4> DEFINE b == request[r].client
      <4>1. Calm(b)
        BY <3>1 DEF CalmInv
      <4>2. request[r].token = jar[b] /\ jar[b] # None
        BY <3>1, <3>2, <4>1, Rows DEF Calm, Issued
      <4>3. Whole(jar[b])
        BY <1>2, <3>1, <3>2, <4>1, <4>2 DEF Calm
      <4> QED
        BY <1>5, <4>2, <4>3 DEF Whole
    <3> QED
      BY <3>2
  <2> QED
    BY <1>1, <1>3, <2>1, <2>2
<1>6. CASE ReadToken(r) /\ request[r].token \in live /\ ~Respond(r, None)
  <2>1. owner[request[r].token] \in Users
    BY <1>2, <1>6, Rows DEF ReadToken, At, StateOK
  <2>2. request' = [request EXCEPT ![r] = [request[r] EXCEPT
                       !.at = "user", !.user = owner[request[r].token]]]
    BY <1>0, <1>6 DEF ReadToken, TypeOK
  <2>3. Gone("user", owner[request[r].token])
          = [request[r] EXCEPT !.at = "user", !.user = owner[request[r].token]]
    BY <1>1
  <2> QED
    BY <1>3, <2>1, <2>2, <2>3
<1>7. CASE CheckUser(r) /\ Goto(r, "issue")
  <2>1. request' = [request EXCEPT ![r] = Gone("issue", request[r].user)]
    BY <1>0, <1>1, <1>7 DEF Goto, TypeOK
  <2> QED
    BY <1>1, <1>3, <2>1
<1> QED
  BY <1>4, <1>5, <1>6, <1>7 DEF ReadToken, CheckUser

\* A calm browser has no request that revokes.
LEMMA SelectCalm ==
  ASSUME SessionInv, CalmInv, NEW r \in Requests, SelectFamily(r) \/ SelectAllSessions(r)
  PROVE  CalmInv'
<1>0. /\ TypeOK /\ UNCHANGED <<jar, live, owner, family, disturbed>>
      /\ request[r].at = "family" /\ request[r].op \in {"refresh", "logout", "deactivate"}
  BY DEF SelectFamily, SelectAllSessions, Select, At, sessions, SessionInv
<1>1. request[r] \in
        [at : {"token", "user", "issue", "family", "revoke", "answer"}, op : Ops,
         client : Browsers \cup {None}, user : Users \cup {None},
         token : Tokens \cup {None}, rows : SUBSET Tokens,
         gives : Tokens \cup {None}]
  BY <1>0, Shape
<1>2. CarriesOK(request[r]) /\ StateOK(request[r]) /\ request[r].op # "logout"
  BY <1>0 DEF CalmInv, SessionInv, CarriesOK
<1>3. ~(request[r].op = "refresh" /\ request[r].client \notin disturbed)
  <2> SUFFICES ASSUME request[r].op = "refresh", request[r].client \notin disturbed
               PROVE  FALSE
    OBVIOUS
  <2>1. request[r].client \in Browsers
    BY <1>0, <1>2 DEF StateOK
  <2> QED
    BY <1>0, <2>1 DEF CalmInv, Calm
<1>4. ASSUME NEW S \in SUBSET Tokens, Select(r, S),
             request[r].op = "refresh" => S \subseteq Family(request[r].token),
             request[r].op = "deactivate" => S \subseteq SessionsOf(request[r].user)
      PROVE  CalmInv'
  <2> DEFINE state == [request[r] EXCEPT !.at = "revoke", !.user = request[r].user,
                                         !.rows = live \cap S]
  <2>1. request' = [request EXCEPT ![r] = state]
    BY <1>0, <1>1, <1>4 DEF Select, TypeOK
  <2>2. /\ state.at = "revoke" /\ state.user = request[r].user /\ state.op = request[r].op
        /\ state.client = request[r].client /\ state.token = request[r].token
        /\ state.gives = request[r].gives /\ state.rows \subseteq S
    BY <1>1
  <2>3. CarriesOK(state)
    BY <1>0, <1>2, <1>4, <2>2 DEF CarriesOK
  <2>4. request[r].user \in Users \cup {None} /\ live \cap S \in SUBSET Tokens
    BY <1>1
  <2>5. request[r].at \notin {"idle", "answer"}
    BY <1>0
  <2> QED
    BY <1>0, <1>3, <2>1, <2>3, <2>4, <2>5, GoCalm
<1>5. CASE SelectFamily(r)
  BY <1>2, <1>4, <1>5 DEF SelectFamily, At, Family
<1>6. CASE SelectAllSessions(r)
  BY <1>2, <1>4, <1>6 DEF SelectAllSessions, At, SessionsOf
<1> QED
  BY <1>5, <1>6

\* An answer of a request that revokes, or its end: no token of a calm browser is among
\* the rows.
LEMMA RevokeCalm ==
  ASSUME SessionInv, CalmInv, NEW r \in Requests, NEW state \in RequestState,
         request' = [request EXCEPT ![r] = state],
         CarriesOK(state), state.gives = None, state.token = None,
         state.client \in {None, request[r].client},
         UNCHANGED <<owner, family, jar>>, live' = live \ request[r].rows,
         disturbed \subseteq disturbed',
         request[r].client \in Browsers => request[r].client \in disturbed',
         \A b \in Browsers \ disturbed', t \in Tokens :
            HeldBy(t, b) => request[r].rows \cap Family(t) = {}
  PROVE  CalmInv'
<1>1. /\ \A s \in Requests : CarriesOK(request[s])'
      /\ Separate'
      /\ \A s \in Requests : FreshLogin(s)'
  BY QuietKeeps
<1>2. ASSUME NEW b \in Browsers PROVE Calm(b)'
  <2>1. CASE b \in disturbed'
    BY <2>1 DEF Calm
  <2>2. CASE b \notin disturbed'
    <3>1. \A t : HeldBy(t, b) => (live \cap Family(t))' = live \cap Family(t)
      <4> SUFFICES ASSUME NEW t, HeldBy(t, b)
                   PROVE  (live \cap Family(t))' = live \cap Family(t)
        OBVIOUS
      <4>1. t \in Tokens
        BY HeldIssued, Rows
      <4>2. request[r].rows \cap Family(t) = {}
        BY <2>2, <4>1
      <4>3. Family(t)' = Family(t)
        BY DEF Family
      <4> QED
        BY <4>2, <4>3
    <3>2. /\ request' \in [Requests -> RequestState] /\ request'[r] = state
          /\ \A s \in Requests \ {r} : request'[s] = request[s]
      BY Rows
    <3>3. request[r].client # b /\ request'[r].client # b /\ b \notin disturbed
      BY <2>2, <3>2, Rows
    <3> QED
      BY <3>1, <3>2, <3>3, CalmOther
  <2> QED
    BY <2>1, <2>2
<1> QED
  BY <1>1, <1>2 DEF CalmInv

LEMMA RevokeFamilyCalm ==
  ASSUME SessionInv, CalmInv, NEW r \in Requests, RevokeFamily(r)
  PROVE  CalmInv'
<1>0. /\ request[r].at = "revoke" /\ request[r].op \in {"refresh", "logout"}
      /\ live' = live \ request[r].rows /\ Respond(r, None)
      /\ UNCHANGED <<owner, family, jar, disturbed>>
  BY DEF RevokeFamily, At
<1>1. CarriesOK(request[r]) /\ StateOK(request[r])
  BY DEF CalmInv, SessionInv
<1>2. /\ request[r].op = "refresh" /\ request[r].rows \subseteq Family(request[r].token)
      /\ request[r].client \in Browsers /\ request[r].token \in Issued
  BY <1>0, <1>1 DEF CarriesOK, StateOK
<1>3. request[r].client \in disturbed
  BY <1>0, <1>2 DEF CalmInv, Calm
<1>4. PICK state \in [at : {"answer"}, op : Ops, client : Browsers \cup {None},
                      user : {None}, token : {None}, rows : {{}}, gives : {None}] :
        /\ request' = [request EXCEPT ![r] = state]
        /\ state.client = request[r].client /\ state.op = request[r].op
  BY <1>0, RespondFacts
<1>5. state \in RequestState
  BY <1>4 DEF RequestState
<1>6. CarriesOK(state)
  BY <1>2, <1>4 DEF CarriesOK
<1>7. ASSUME NEW b \in Browsers \ disturbed', NEW t \in Tokens, HeldBy(t, b)
      PROVE  request[r].rows \cap Family(t) = {}
  <2>1. HeldBy(request[r].token, request[r].client) /\ request[r].client # b
    BY <1>0, <1>2, <1>3, <1>7, Rows DEF HeldBy
  <2>2. family[request[r].token] # family[t]
    BY <1>2, <1>7, <2>1, Rows DEF CalmInv, Separate
  <2> QED
    BY <1>2, <2>2 DEF Family
<1> QED
  BY <1>0, <1>3, <1>4, <1>5, <1>6, <1>7, RevokeCalm

LEMMA DeactivateCalm ==
  ASSUME SessionInv, CalmInv, NEW r \in Requests, DeactivateUser(r)
  PROVE  CalmInv'
<1> DEFINE u == request[r].user
<1>0. /\ request[r].at = "revoke" /\ request[r].op = "deactivate"
      /\ live' = live \ request[r].rows /\ Finish(r)
      /\ UNCHANGED <<owner, family, jar>> /\ disturbed' = disturbed \cup SignedInAs(u)
  BY DEF DeactivateUser, At
<1>1. CarriesOK(request[r])
  BY DEF CalmInv
<1>2. request[r].rows \subseteq SessionsOf(u) /\ request[r].client = None
  BY <1>0, <1>1 DEF CarriesOK
<1>3. request' = [request EXCEPT ![r] = Idle] /\ CarriesOK(Idle)
  BY <1>0, IdleShape DEF Finish, IdleRequest, CarriesOK
<1>4. ASSUME NEW b \in Browsers \ disturbed', NEW t \in Tokens, HeldBy(t, b)
      PROVE  request[r].rows \cap Family(t) = {}
  <2>1. b \notin SignedInAs(u) /\ b \notin disturbed
    BY <1>0, <1>4
  <2>2. t \in Issued /\ jar[b] \in Issued \cup {None}
    BY <1>4, HeldIssued, Rows
  <2>3. t \notin SessionsOf(u)
    <3>1. CASE jar[b] = t
      BY <2>1, <3>1 DEF SignedInAs
    <3>2. ASSUME NEW s \in Requests, request[s].client = b, request[s].gives = t
          PROVE  t \notin SessionsOf(u)
      BY <2>1, <3>2 DEF SignedInAs
    <3>3. ASSUME NEW s \in Requests, request[s].client = b, request[s].token = t
          PROVE  jar[b] = t
      <4>1. CarriesOK(request[s]) /\ request[s].token # None
        BY <1>4, <3>3 DEF CalmInv, HeldBy
      <4>2. request[s].op = "refresh" /\ request[s].at # "answer"
        BY <4>1 DEF CarriesOK
      <4> QED
        BY <2>1, <3>3, <4>2 DEF CalmInv, Calm
    <3> QED
      BY <1>4, <3>1, <3>2, <3>3 DEF HeldBy
  <2>4. \A s \in Issued : family[s] = family[t] => owner[s] = owner[t]
    BY <2>2, Rows
  <2>5. \A s \in request[r].rows : s \in Issued /\ owner[s] = u
    <3>1. u \in Users
      BY <1>0 DEF SessionInv, StateOK
    <3> QED
      BY <1>2, <3>1, Rows DEF SessionsOf, Issued
  <2>6. owner[t] # u
    BY <2>3 DEF SessionsOf
  <2> QED
    BY <2>4, <2>5, <2>6 DEF Family
<1> QED
  BY <1>0, <1>2, <1>3, <1>4, IdleShape, Rows, RevokeCalm DEF IdleRequest

\* The session is closed, or the answer is lost.
LEMMA QuitCalm ==
  ASSUME SessionInv, CalmInv, NEW r \in Requests, Fail(r) \/ Lose(r)
  PROVE  CalmInv'
<1>1. /\ request[r].at # "idle" /\ Finish(r)
      /\ UNCHANGED <<jar, live, owner, family>> /\ disturbed \subseteq disturbed'
  BY DEF Fail, Lose, sessions
<1>2. \/ request[r].client \in disturbed'
      \/ request[r].gives = None \/ request[r].op # "refresh"
  BY DEF Fail, Lose, CalmInv, CarriesOK
<1> QED
  BY <1>1, <1>2, EndCalm

-----------------------------------------------------------------------------
(* Answers that arrive.                                                    *)

LEMMA DeliverCalm ==
  ASSUME SessionInv, CalmInv, NEW r \in Requests, Deliver(r)
  PROVE  CalmInv'
<1>c. PICK c \in Browsers, g \in Issued \cup {None} :
        c = request[r].client /\ g = request[r].gives
  BY DEF Deliver, SessionInv, StateOK
<1>0. /\ request[r].at = "answer"
      /\ jar' = [jar EXCEPT ![c] = g] /\ Finish(r)
      /\ UNCHANGED <<live, owner, family>>
  BY <1>c DEF Deliver, sessions
<1>1. request' = [request EXCEPT ![r] = Idle] /\ CarriesOK(Idle)
  BY <1>0, IdleShape DEF Finish, IdleRequest, CarriesOK
<1>2. /\ \A s \in Requests : CarriesOK(request[s])'
      /\ Separate'
      /\ \A s \in Requests : FreshLogin(s)'
  BY <1>c, <1>0, <1>1, IdleShape, QuietKeeps DEF IdleRequest
<1>3. /\ jar'[c] = g /\ \A b \in Browsers \ {c} : jar'[b] = jar[b]
      /\ request'[r].client = None
      /\ \A s \in Requests \ {r} : request'[s] = request[s]
      /\ request' \in [Requests -> RequestState] /\ None \notin Browsers
      /\ \A t : Whole(t)' <=> Whole(t)
  BY <1>0, <1>1, IdleShape, Rows DEF IdleRequest, Whole, Family
<1>4. ASSUME \A s \in Requests \ {r} : request[s].client # c, g # None => Whole(g)
      PROVE  Calm(c)'
  <2>1. \A s \in Requests : request'[s].client # c
    BY <1>3, <1>4
  <2>2. jar'[c] # None => Whole(jar[c])'
    BY <1>3, <1>4
  <2> QED
    BY <2>1, <2>2 DEF Calm
<1>5. ASSUME c \notin disturbed PROVE Calm(c)'
  <2>1. Calm(c)
    BY DEF CalmInv
  <2> QED
    BY <1>c, <1>4, <1>5, <2>1 DEF Calm
<1>6. ASSUME c \in disturbed, c \notin disturbed' PROVE Calm(c)'
  <2>1. /\ request[r].op = "login" /\ g \in live
        /\ \A s \in Requests \ {r} : request[s].client # c
    BY <1>c, <1>6 DEF Deliver
  <2>2. \A s \in Issued : family[s] = family[g] => s = g
    BY <1>c, <2>1, Rows DEF CalmInv, FreshLogin
  <2>3. Whole(g)
    BY <2>1, <2>2, Rows DEF Whole, Family
  <2> QED
    BY <1>4, <2>1, <2>3
<1>7. ASSUME NEW b \in Browsers PROVE Calm(b)'
  <2>1. CASE b \in disturbed'
    BY <2>1 DEF Calm
  <2>2. CASE b = c /\ b \notin disturbed'
    BY <1>5, <1>6, <2>2
  <2>3. CASE b # c /\ b \notin disturbed'
    <3>1. b \notin disturbed
      BY <1>c, <2>3 DEF Deliver
    <3>2. \A t : (live \cap Family(t))' = live \cap Family(t)
      BY <1>0 DEF Family
    <3>3. request'[r].client # b /\ request[r].client # b /\ jar'[b] = jar[b]
      BY <1>c, <1>3, <2>3
    <3> QED
      BY <1>3, <3>1, <3>2, <3>3, CalmOther
  <2> QED
    BY <2>1, <2>2, <2>3
<1> QED
  BY <1>2, <1>7 DEF CalmInv

-----------------------------------------------------------------------------
(* Steps that issue a token.                                               *)

\* A new token n goes to the browser of request r, in a family f of its own or of the
\* token the request sent, and no old token is made live.
LEMMA IssueCalm ==
  ASSUME SessionInv, CalmInv, NEW r \in Requests, NEW n \in Tokens, NEW f \in Tokens,
         IssueToken(r, n, f), request[r].at = "issue",
         \/ /\ request[r].op = "login" /\ f = n /\ live' = live \cup {n}
         \/ /\ request[r].op = "refresh" /\ f = family[request[r].token]
            /\ live' = (live \ {request[r].token}) \cup {n}
  PROVE  CalmInv'
<1>c. PICK c, old : c = request[r].client /\ old = request[r].token
  OBVIOUS
<1>0. /\ Respond(r, n) /\ UNCHANGED <<jar, disturbed>> /\ owner[n] = None
      /\ c \in Browsers /\ request[r].gives = None
      /\ request[r].op = "refresh" => old \in Issued
  BY <1>c DEF IssueToken, CalmInv, SessionInv, StateOK, CarriesOK
<1>1. /\ n \notin Issued /\ owner' = [owner EXCEPT ![n] = request[r].user]
      /\ family'[n] = f /\ \A s \in Tokens \ {n} : family'[s] = family[s]
  BY Issuing
<1>2. PICK state \in [at : {"answer"}, op : Ops, client : Browsers \cup {None},
                      user : {None}, token : {None}, rows : {{}}, gives : {n}] :
        /\ request' = [request EXCEPT ![r] = state]
        /\ state.client = c /\ state.op = request[r].op
  BY <1>c, <1>0, RespondFacts
<1>3. /\ request'[r] = state /\ \A s \in Requests \ {r} : request'[s] = request[s]
      /\ state \in RequestState
      /\ request' \in [Requests -> RequestState]
  <2>1. state \in RequestState
    BY <1>2 DEF RequestState
  <2> QED
    BY <1>2, <2>1, Rows
<1>4. /\ state.gives = n /\ state.token = None /\ state.client = c /\ state.at = "answer"
      /\ state.op = request[r].op
  BY <1>2
<1>5. \A b \in Browsers : ~HeldBy(n, b)
  BY <1>1, HeldIssued
<1>6. \A s \in Requests : request[s].token # n /\ request[s].gives # n
  <2> SUFFICES ASSUME NEW s \in Requests, request[s].token = n \/ request[s].gives = n
               PROVE  FALSE
    OBVIOUS
  <2>1. CarriesOK(request[s]) /\ StateOK(request[s]) /\ n # None
    BY Rows DEF CalmInv, SessionInv
  <2>2. request[s].gives # n
    BY <1>1, <2>1 DEF StateOK
  <2>3. request[s].op = "refresh" /\ request[s].at # "answer" /\ request[s].token = n
    BY <2>1, <2>2 DEF CarriesOK
  <2>4. request[s].at # "idle"
    BY <2>3, Shape, IdleFacts DEF SessionInv
  <2> QED
    BY <1>1, <2>1, <2>3, <2>4 DEF StateOK
<1>7. \A s \in Issued : s \in Tokens /\ s # n /\ family[s] \in Issued
  BY <1>1, Rows
<1>8. \A s \in Requests : CarriesOK(request[s])'
  <2> SUFFICES ASSUME NEW s \in Requests PROVE CarriesOK(request[s])'
    OBVIOUS
  <2>1. CASE s = r
    BY <1>3, <1>4, <2>1 DEF CarriesOK
  <2>2. CASE s # r
    <3>1. CarriesOK(request[s]) /\ request'[s] = request[s]
      BY <1>3, <2>2 DEF CalmInv
    <3>2. request[s].at = "revoke" /\ request[s].op = "refresh" =>
             Family(request[s].token) \subseteq Family(request[s].token)'
      <4> SUFFICES ASSUME request[s].at = "revoke", request[s].op = "refresh"
                   PROVE  \A t \in Tokens : family[t] = family[request[s].token] =>
                              family'[t] = family'[request'[s].token]
        BY DEF Family
      <4>1. request[s].token \in Issued
        BY DEF SessionInv, StateOK
      <4>2. family[request[s].token] # None /\ family[n] = None
        BY <1>1, <4>1, Rows
      <4> QED
        BY <1>1, <1>7, <3>1, <4>1, <4>2
    <3>3. request[s].at = "revoke" /\ request[s].op = "deactivate" =>
             SessionsOf(request[s].user) \subseteq SessionsOf(request[s].user)'
      <4> SUFFICES ASSUME request[s].at = "revoke", request[s].op = "deactivate"
                   PROVE  \A t \in Tokens : owner[t] = request[s].user =>
                              owner'[t] = request'[s].user
        BY DEF SessionsOf
      <4>1. request[s].user # None
        BY Rows DEF SessionInv, StateOK
      <4> QED
        BY <1>0, <1>1, <3>1, <4>1
    <3> QED
      BY <3>1, <3>2, <3>3 DEF CarriesOK
  <2> QED
    BY <2>1, <2>2
\* The tokens held are those held before, and n by c.
<1>9. ASSUME NEW t \in Tokens, NEW b \in Browsers, HeldBy(t, b)'
      PROVE  (t = n /\ b = c) \/ (t # n /\ HeldBy(t, b))
  <2>1. CASE jar'[b] = t
    BY <1>0, <1>5, <1>9, <2>1 DEF HeldBy
  <2>2. ASSUME NEW s \in Requests, request'[s].client = b,
               request'[s].token = t \/ request'[s].gives = t
        PROVE  (t = n /\ b = c) \/ (t # n /\ HeldBy(t, b))
    <3>1. t # None
      BY Rows
    <3>2. CASE s = r
      <4>1. request'[s].client = c /\ request'[s].token = None /\ request'[s].gives = n
        BY <1>3, <1>4, <3>2
      <4> QED
        BY <2>2, <3>1, <4>1
    <3>3. CASE s # r
      BY <1>3, <1>6, <2>2, <3>1, <3>3 DEF HeldBy
    <3> QED
      BY <3>2, <3>3
  <2> QED
    BY <1>9, <2>1, <2>2 DEF HeldBy
<1>10. ASSUME NEW t \in Tokens, NEW b \in Browsers, HeldBy(t, b), family[t] = f
       PROVE  b = c
  <2>1. t \in Issued
    BY <1>10, HeldIssued
  <2>2. f # n
    BY <1>1, <1>10, <2>1, Rows
  <2>3. request[r].op = "refresh" /\ f = family[old] /\ old \in Issued
    BY <1>c, <1>0, <2>2
  <2>4. HeldBy(old, c)
    BY <1>c, <2>3, Rows DEF HeldBy, Issued
  <2> QED
    BY <1>0, <1>10, <2>3, <2>4, Rows DEF CalmInv, Separate
<1>11. Separate'
  <2> SUFFICES ASSUME NEW a \in Browsers, NEW b \in Browsers,
                      NEW s \in Tokens, NEW t \in Tokens,
                      HeldBy(s, a)', HeldBy(t, b)', family'[s] = family'[t]
               PROVE  a = b
    BY DEF Separate
  <2>1. /\ (s = n /\ a = c) \/ (s # n /\ HeldBy(s, a))
        /\ (t = n /\ b = c) \/ (t # n /\ HeldBy(t, b))
    BY <1>9
  <2>2. CASE s # n /\ t # n
    BY <1>1, <2>1, <2>2 DEF CalmInv, Separate
  <2>3. CASE s = n \/ t = n
    BY <1>1, <1>10, <2>1, <2>3
  <2> QED
    BY <2>2, <2>3
<1>12. \A s \in Requests : FreshLogin(s)'
  <2> SUFFICES ASSUME NEW s \in Requests, NEW h, h = request'[s].gives,
                      request'[s].op = "login", h # None
               PROVE  /\ \A t \in Issued' : family'[t] = family'[h] => t = h
                      /\ \A b \in Browsers : jar'[b] # h
                      /\ \A q \in Requests \ {s} : /\ request'[q].token # h
                                                   /\ request'[q].gives # h
    BY DEF FreshLogin
  <2>1. CASE s = r
    <3>1. h = n /\ f = n
      BY <1>3, <1>4, <2>1
    <3>2. \A t \in Issued' : t \in Tokens /\ (t = n \/ t \in Issued)
      BY <1>1, Rows DEF Issued
    <3>3. \A b \in Browsers : jar'[b] # n
      BY <1>0, <1>1, Rows
    <3>4. \A t \in Issued' : family'[t] = family'[n] => t = n
      BY <1>1, <1>7, <3>1, <3>2
    <3>5. \A q \in Requests \ {s} : request'[q].token # n /\ request'[q].gives # n
      BY <1>3, <1>6, <2>1
    <3> QED
      BY <3>1, <3>3, <3>4, <3>5
  <2>2. CASE s # r
    <3>1. request'[s] = request[s] /\ FreshLogin(s) /\ StateOK(request[s])
      BY <1>3, <2>2 DEF CalmInv, SessionInv
    <3>2. /\ \A t \in Issued : family[t] = family[h] => t = h
          /\ \A b \in Browsers : jar[b] # h
          /\ \A q \in Requests \ {s} : request[q].token # h /\ request[q].gives # h
      BY <3>1 DEF FreshLogin
    <3>3. h \in Issued /\ h # n
      BY <1>1, <3>1 DEF StateOK
    <3>4. family[h] # f
      <4>1. CASE f = n
        BY <1>1, <3>3, <4>1, Rows
      <4>2. CASE f = family[old] /\ request[r].op = "refresh"
        <5>1. old \in Issued /\ old # h
          BY <1>c, <1>0, <2>2, <3>2, <4>2
        <5> QED
          BY <3>2, <4>2, <5>1
      <4> QED
        BY <1>c, <4>1, <4>2
    <3>5. \A t \in Issued' : t \in Tokens /\ (t = n \/ t \in Issued)
      BY <1>1, Rows DEF Issued
    <3>6. \A t \in Issued' : family'[t] = family'[h] => t = h
      BY <1>1, <1>7, <3>2, <3>3, <3>4, <3>5
    <3>7. \A q \in Requests \ {s} : request'[q].token # h /\ request'[q].gives # h
      BY <1>3, <1>4, <3>2, <3>3, Rows
    <3> QED
      BY <1>0, <3>2, <3>6, <3>7
  <2> QED
    BY <2>1, <2>2
<1>13. ASSUME NEW b \in Browsers, b \notin disturbed', b # c PROVE Calm(b)'
  <2>1. \A t : HeldBy(t, b) => (live \cap Family(t))' = live \cap Family(t)
    <3> SUFFICES ASSUME NEW t, HeldBy(t, b)
                 PROVE  \A s \in Tokens : s \in live' /\ family'[s] = family'[t]
                                      <=> s \in live /\ family[s] = family[t]
      BY DEF Family
    <3>1. t \in Issued /\ t \in Tokens /\ t # n
      BY <1>7, <1>13, HeldIssued
    <3>2. family[t] # f
      BY <1>10, <1>13, <3>1
    <3>3. family[n] = None /\ family[t] # None /\ n \notin live
      BY <1>1, <3>1, Rows
    <3>4. \A s \in Tokens : s # n /\ ~(request[r].op = "refresh" /\ s = old)
                              => (s \in live' <=> s \in live)
      BY <1>c
    <3> QED
      BY <1>c, <1>1, <3>1, <3>2, <3>3, <3>4
  <2>2. request'[r].client # b /\ request[r].client # b /\ b \notin disturbed
    BY <1>c, <1>0, <1>3, <1>4, <1>13
  <2> QED
    BY <1>0, <1>3, <1>13, <2>1, <2>2, CalmOther
<1>14. ASSUME c \notin disturbed' PROVE Calm(c)'
  <2>1. c \notin disturbed /\ Calm(c)
    BY <1>0, <1>14 DEF CalmInv
  <2>2. \A s \in Requests : request'[s].client = c => s = r
    BY <1>c, <1>3, <2>1 DEF Calm
  <2>3. jar[c] # None => Whole(jar[c])
    BY <1>c, <1>0, <2>1 DEF Calm
  <2>4. request[r].op = "refresh" => old = jar[c] /\ jar[c] # None
    BY <1>c, <1>0, <2>1, Rows DEF Calm, Issued
  <2>5. Whole(n)'
    <3>1. \A s \in Tokens : s \in live' /\ family'[s] = f => s = n
      <4>1. CASE f = n /\ live' = live \cup {n}
        BY <1>1, <1>7, <4>1, Rows
      <4>2. CASE /\ request[r].op = "refresh" /\ f = family[old]
                 /\ live' = (live \ {old}) \cup {n}
        BY <1>1, <2>3, <2>4, <4>2 DEF Whole, Family
      <4> QED
        BY <1>c, <4>1, <4>2
    <3>2. n \in live' /\ family'[n] = f
      BY <1>1
    <3> QED
      BY <3>1, <3>2 DEF Whole, Family
  <2>6. request[r].op # "refresh" /\ jar'[c] # None => Whole(jar[c])'
    <3> SUFFICES ASSUME request[r].op # "refresh", jar[c] # None PROVE Whole(jar[c])'
      BY <1>0
    <3>1. jar[c] \in Issued /\ jar[c] # n /\ jar'[c] = jar[c]
      BY <1>0, <1>1, Rows
    <3>2. family'[n] = n /\ family[jar[c]] \in Issued /\ live' = live \cup {n}
      BY <1>1, <3>1, Rows
    <3> QED
      BY <1>1, <1>7, <2>3, <3>1, <3>2, Rows DEF Whole, Family
  <2>7. ASSUME NEW s \in Requests, request'[s].client = c
        PROVE  /\ request'[s].op = "refresh" /\ request'[s].at # "answer" =>
                     request'[s].at \in {"token", "user", "issue"} /\ request'[s].token = jar'[c]
               /\ request'[s].gives # None => Whole(request[s].gives)'
    <3>1. s = r /\ request'[s] = state
      BY <1>3, <2>2, <2>7
    <3>2. request'[s].at = "answer" /\ request'[s].gives = n
      BY <1>4, <3>1
    <3> QED
      BY <2>5, <3>2 DEF Whole, Family
  <2>8. request[r].op = "refresh" =>
          \E s \in Requests : /\ request'[s].client = c
                             /\ request'[s].op = "refresh" /\ request'[s].gives # None
    BY <1>3, <1>4, Rows
  <2> QED
    BY <2>2, <2>6, <2>7, <2>8 DEF Calm
<1>15. \A b \in Browsers : Calm(b)'
  BY <1>13, <1>14 DEF Calm
<1> QED
  BY <1>8, <1>11, <1>12, <1>15 DEF CalmInv

-----------------------------------------------------------------------------

\* A step that touches neither requests nor rows nor cookies.
LEMMA AloneCalm ==
  ASSUME CalmInv, UNCHANGED <<owner, family, live, jar, request, disturbed>>
  PROVE  CalmInv'
<1>1. /\ \A t : Family(t)' = Family(t)
      /\ \A u : SessionsOf(u)' = SessionsOf(u)
      /\ \A t : Whole(t)' <=> Whole(t)
  BY DEF Family, SessionsOf, Whole
<1>2. \A r \in Requests : CarriesOK(request[r])'
  BY <1>1 DEF CalmInv, CarriesOK
<1>3. Separate'
  BY DEF CalmInv, Separate, HeldBy
<1>4. \A r \in Requests : FreshLogin(r)'
  BY DEF CalmInv, FreshLogin, Issued
<1>5. \A b \in Browsers : Calm(b)'
  BY <1>1 DEF CalmInv, Calm
<1> QED
  BY <1>2, <1>3, <1>4, <1>5 DEF CalmInv

LEMMA CalmStep == SessionInv /\ CalmInv /\ [Next]_vars => CalmInv'
<1> SUFFICES ASSUME SessionInv, CalmInv, [Next]_vars PROVE CalmInv'
  OBVIOUS
<1>1. ASSUME NEW r \in Requests, CreateSession(r) PROVE CalmInv'
  BY <1>1, IssueCalm DEF CreateSession, At
<1>2. ASSUME NEW r \in Requests, RotateRefreshToken(r) PROVE CalmInv'
  <2>1. request[r].op = "refresh" /\ request[r].at = "issue"
    BY <1>2 DEF RotateRefreshToken, At
  <2>2. family[request[r].token] \in Tokens
    BY <2>1, Rows DEF SessionInv, StateOK, Issued
  <2> QED
    BY <1>2, <2>1, <2>2, IssueCalm DEF RotateRefreshToken
<1>3. ASSUME NEW r \in Requests, Begin(r) \/ Step(r) PROVE CalmInv'
  BY <1>1, <1>2, <1>3, BeginCalm, ReadCalm, SelectCalm, RevokeFamilyCalm,
     DeactivateCalm, QuitCalm, DeliverCalm DEF Step
<1>4. CASE Administration \/ \E t \in Tokens : Expire(t)
  BY <1>4, AloneCalm DEF Administration, ReactivateUser, GrantAdmin, RevokeAdmin,
     Bootstrap, SetAdmins, Expire, sessions
<1>5. CASE UNCHANGED vars
  BY <1>5, AloneCalm DEF vars, sessions
<1> QED
  BY <1>3, <1>4, <1>5 DEF Next

\* A calm browser that has no request under way holds the one live token of its family.
LEMMA CalmShown == CalmInv => CalmSession
<1> SUFFICES ASSUME CalmInv, NEW b \in Browsers \ disturbed, Resting(b), jar[b] # None
             PROVE  live \cap Family(jar[b]) = {jar[b]}
  BY DEF CalmSession
<1>1. Whole(jar[b])
  BY DEF CalmInv, Calm, Resting
<1> QED
  BY <1>1 DEF Whole

\* Reuse detection never signs out a browser that sends one request at a time, loses no
\* rotated token and whose user is not deactivated: rotate_refresh_token of
\* backend/app/auth/session.py, whatever the other browsers and requests do.
THEOREM UndisturbedStaySignedIn == Spec => []CalmSession
<1>1. Init => CalmInv
  BY CalmInit
<1>2. SessionInv /\ CalmInv /\ [Next]_vars => CalmInv'
  BY CalmStep
<1>3. CalmInv => CalmSession
  BY CalmShown
<1> QED
  BY <1>1, <1>2, <1>3, InvHolds, PTL DEF Spec
=============================================================================
