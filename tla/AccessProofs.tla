---------------------------- MODULE AccessProofs ----------------------------
(* Proofs about Access, for any accounts, tokens, projects, processes and     *)
(* request threads, however the requests overlap.                             *)
EXTENDS Access, TLAPS

\* Requests that write the grants of a project, or will.
Editing == {"grant", "grant_row", "revoke", "revoke_row"}

\* What a request knows, by where it is.
CallsKnow ==
  \A r \in Reqs :
    /\ req[r].pc # "idle" => req[r].proc \in Procs /\ req[r].user \in Users
    /\ req[r].pc \in Editing => req[r].whom \in Users
    /\ req[r].pc \in Editing \cup {"remove", "drop", "wipe_grants"} => req[r].proj \in Projects

\* Passwords: a request that is about to open a session, or about to sign the
\* account out and then open one, rests on a password that is not older than the
\* last settled one.
PasswordIsSafe ==
  /\ \A u \in Users : settled[u] <= version[u] /\ (account[u] = "free" => version[u] = 0)
  /\ \A r \in Reqs :
       /\ req[r].pc \in {"session", "signout"} => req[r].ver >= settled[req[r].user]
       /\ req[r].pc = "signout" => req[r].ver <= version[req[r].user]
  /\ NoSessionFromBefore

\* Deletion: but for what was made too late, whatever names an account names a live
\* one, and a request that deletes an account has listed every project it owns.
NamesLiveOnes ==
  /\ \A t \in Tokens : session[t].user \in Users => account[session[t].user] = "live" \/ t \in late
  /\ \A k \in Links : reset[k] \in Users => account[reset[k]] = "live" \/ k \in late
  /\ \A p \in Projects : owner[p] \in Users => account[owner[p]] = "live" \/ p \in late
  /\ \A r \in Reqs :
       /\ req[r].pc \in {"wipe", "wipe_grants", "erase"} =>
            \A p \in Projects : owner[p] = req[r].user => p \in req[r].todo \/ p \in late
       /\ req[r].pc = "erase" => req[r].todo = {}

\* Grants: what a process took back is gone from its cache and from the table, and
\* nobody is about to write it again.
RevokedIsSafe ==
  /\ \A c \in Procs : \A g \in revoked[c] :
       cache[c][g[1]][g[2]] = "none" /\ grants[g[1]][g[2]] = "none"
  /\ \A r \in Reqs : req[r].pc = "grant_row" =>
       \A c \in Procs : <<req[r].proj, req[r].whom>> \notin revoked[c]

-----------------------------------------------------------------------------
(* Types, and what a request knows, action by action.                         *)

\* Nothing is known of an idle thread.
LEMMA IdleType == Idle \in Calls /\ Idle.pc = "idle" /\ NoRow \in Sessions /\ NoRow.user = NoOne
  BY AccessAssumption DEF Idle, Calls, NoRow, Sessions, Roles

\* A request that starts is one, for its account.
LEMMA StartStep ==
  ASSUME TypeOK, CallsKnow, NEW r \in Reqs, NEW c \in Procs, NEW u \in Users, NEW step \in Calls,
         Start(r, step), step.pc # "idle", step.user = u, step.proc = c,
         step.pc \in Editing => step.whom \in Users,
         step.pc \in Editing \cup {"remove", "drop", "wipe_grants"} => step.proj \in Projects
  PROVE  /\ req' \in [Reqs -> Calls] /\ CallsKnow' /\ made' \in Nat /\ req'[r] = step
<1>0. made' \in Nat
  <2>1. made \in Nat
    BY DEF TypeOK
  <2>2. made' = made + 1
    BY DEF Start
  <2> QED
    BY <2>1, <2>2
<1>1. req' = [req EXCEPT ![r] = step]
  BY DEF Start
<1>2. req' \in [Reqs -> Calls]
  BY <1>1 DEF TypeOK
<1>3. req'[r] = step /\ \A q \in Reqs \ {r} : req'[q] = req[q]
  BY <1>1 DEF TypeOK
<1> QED
  BY <1>0, <1>1, <1>2, <1>3 DEF CallsKnow

\* A request that ends leaves its thread idle.
LEMMA AnswerStep ==
  ASSUME TypeOK, CallsKnow, NEW r \in Reqs, Answer(r)
  PROVE  /\ req' \in [Reqs -> Calls] /\ CallsKnow' /\ req'[r] = Idle
<1>1. req' = [req EXCEPT ![r] = Idle]
  BY DEF Answer
<1>2. req' \in [Reqs -> Calls]
  BY <1>1, IdleType DEF TypeOK
<1>3. req'[r] = Idle /\ \A q \in Reqs \ {r} : req'[q] = req[q]
  BY <1>1 DEF TypeOK
<1> QED
  BY <1>2, <1>3, IdleType DEF CallsKnow, Editing

\* A request that goes on from one statement to the next.
LEMMA GoStep ==
  ASSUME TypeOK, CallsKnow, NEW r \in Reqs, NEW step \in Calls, req' = [req EXCEPT ![r] = step],
         req[r].pc # "idle", step.pc # "idle", step.user = req[r].user, step.proc = req[r].proc,
         step.pc \in Editing => req[r].pc \in Editing /\ step.proj = req[r].proj /\ step.whom = req[r].whom,
         step.pc \in {"remove", "drop", "wipe_grants"} => step.proj \in Projects
  PROVE  /\ req' \in [Reqs -> Calls] /\ CallsKnow' /\ req'[r] = step
<1>1. req' \in [Reqs -> Calls]
  BY DEF TypeOK
<1>2. req'[r] = step /\ \A q \in Reqs \ {r} : req'[q] = req[q]
  BY DEF TypeOK
<1> QED
  BY <1>1, <1>2 DEF CallsKnow

\* Goto changes where a request is and nothing else of it.
LEMMA GotoStep ==
  ASSUME TypeOK, CallsKnow, NEW r \in Reqs,
         NEW pc \in {"password", "grant_row", "revoke_row", "drop", "list", "erase"}, Goto(r, pc),
         req[r].pc # "idle", pc \in Editing => req[r].pc \in Editing,
         pc = "drop" => req[r].proj \in Projects
  PROVE  /\ req' \in [Reqs -> Calls] /\ CallsKnow' /\ req'[r] = [req[r] EXCEPT !.pc = pc]
<1> DEFINE step == [req[r] EXCEPT !.pc = pc]
<1>1. /\ step \in Calls /\ step.pc = pc /\ step.user = req[r].user /\ step.proc = req[r].proc
      /\ step.proj = req[r].proj /\ step.whom = req[r].whom
  BY DEF TypeOK, Calls
<1>2. req' = [req EXCEPT ![r] = step]
  BY DEF Goto, TypeOK
<1> HIDE DEF step
<1>3. /\ req' \in [Reqs -> Calls] /\ CallsKnow' /\ req'[r] = step
  BY <1>1, <1>2, GoStep
<1> QED
  BY <1>3 DEF step

\* The first steps of requests, and what they carry.
LEMMA StepType ==
  ASSUME NEW c \in Procs, NEW u \in Users,
         NEW pc \in {"session", "link", "password", "prove", "create"},
         NEW aim \in {"none", "password", "reset", "change", "delete", "sso"}
  PROVE  /\ Step(pc, aim, c, u) \in Calls /\ Step(pc, aim, c, u).pc = pc
         /\ Step(pc, aim, c, u).user = u /\ Step(pc, aim, c, u).proc = c
  BY AccessAssumption DEF Step, Idle, Calls, Roles

\* The steps of passwords and sessions keep the types.
LEMMA AuthenticationType ==
  ASSUME TypeOK, CallsKnow, Authentication
  PROVE  TypeOK' /\ CallsKnow'
<1> DEFINE Goal == TypeOK' /\ CallsKnow'
<1> DEFINE ReqOK == req' \in [Reqs -> Calls] /\ CallsKnow'
<1> USE AccessAssumption
<1>1. ASSUME NEW r \in Reqs, NEW c \in Procs, NEW u \in Users,
             NEW pc \in {"session", "link", "password", "prove", "create"},
             NEW aim \in {"none", "password", "reset", "change", "delete", "sso"},
             NEW v \in Nat, Start(r, Step(pc, aim, c, u))
                             \/ Start(r, [Step(pc, aim, c, u) EXCEPT !.ver = v])
      PROVE  ReqOK /\ made' \in Nat
  <2> DEFINE one == Step(pc, aim, c, u)
             two == [one EXCEPT !.ver = v]
  <2>1. /\ one \in Calls /\ one.pc = pc /\ one.user = u /\ one.proc = c
        /\ two \in Calls /\ two.pc = pc /\ two.user = u /\ two.proc = c
    <3>1. /\ Step(pc, aim, c, u) \in Calls /\ Step(pc, aim, c, u).pc = pc
          /\ Step(pc, aim, c, u).user = u /\ Step(pc, aim, c, u).proc = c
      BY StepType
    <3> HIDE DEF one
    <3>2. one \in Calls /\ one.pc = pc /\ one.user = u /\ one.proc = c
      BY <3>1 DEF one
    <3> QED
      BY <3>2 DEF Calls
  <2>2. pc # "idle" /\ pc \notin Editing /\ pc \notin {"remove", "drop", "wipe_grants"}
    BY DEF Editing
  <2> HIDE DEF one, two
  <2>3. PICK step \in {one, two} : Start(r, step)
    BY <1>1 DEF one, two
  <2>4. /\ step \in Calls /\ step.pc # "idle" /\ step.user = u /\ step.proc = c
        /\ step.pc \notin Editing /\ step.pc \notin {"remove", "drop", "wipe_grants"}
    BY <2>1, <2>2
  <2>5. ReqOK /\ made' \in Nat /\ req'[r] = step
    BY <2>3, <2>4, StartStep
  <2> QED
    BY <2>4, <2>5
<1>2. ASSUME NEW r \in Reqs, Answer(r) PROVE ReqOK
  BY <1>2, AnswerStep
<1>3. ASSUME NEW r \in Reqs, NEW c \in Procs, NEW u \in Users, Register(r, c, u) PROVE Goal
  <2>1. ReqOK /\ made' \in Nat
    BY <1>1, <1>3 DEF Register
  <2> QED
    BY <1>3, <2>1 DEF Register, TypeOK, hist
<1>4. ASSUME NEW r \in Reqs, NEW c \in Procs, NEW u \in Users, Login(r, c, u) PROVE Goal
  <2>1. version[u] \in Nat
    BY DEF TypeOK
  <2>2. ReqOK /\ made' \in Nat
    BY <1>1, <1>4, <2>1 DEF Login
  <2> QED
    BY <1>4, <2>2 DEF Login, TypeOK, hist
<1>5. ASSUME NEW r \in Reqs, NEW c \in Procs, NEW u \in Users, ForgotPassword(r, c, u) PROVE Goal
  <2>1. ReqOK /\ made' \in Nat
    BY <1>1, <1>5 DEF ForgotPassword
  <2> QED
    BY <1>5, <2>1 DEF ForgotPassword, TypeOK, hist
<1>6. ASSUME NEW r \in Reqs, NEW c \in Procs, NEW u \in Users, NEW aim \in {"change", "delete"},
             AskPassword(r, c, u, aim) PROVE Goal
  <2>1. ReqOK /\ made' \in Nat
    BY <1>1, <1>6 DEF AskPassword
  <2> QED
    BY <1>6, <2>1 DEF AskPassword, TypeOK, hist
<1>7. ASSUME NEW r \in Reqs, NEW c \in Procs, NEW u \in Users, NEW l \in Logins, NEW tok \in IdTokens,
             SsoCallback(r, c, l, u, tok) PROVE Goal
  <2>1. version[u] \in Nat
    BY DEF TypeOK
  <2>2. ReqOK /\ made' \in Nat
    BY <1>1, <1>7, <2>1 DEF SsoCallback
  <2> QED
    BY <1>7, <2>2 DEF SsoCallback, TypeOK, hist, consume
<1>8. ASSUME NEW r \in Reqs, NEW c \in Procs, NEW k \in Links, RedeemLink(r, c, k) PROVE Goal
  <2>1. ReqOK /\ made' \in Nat
    BY <1>1, <1>8 DEF RedeemLink
  <2> QED
    BY <1>8, <2>1 DEF RedeemLink, TypeOK, hist, consume_reset_token
<1>9. ASSUME NEW r \in Reqs, CreateSession(r) PROVE Goal
  <2>1. ReqOK
    BY <1>2, <1>9 DEF CreateSession
  <2>2. PICK t \in Tokens : session' = [session EXCEPT ![t] = [user |-> req[r].user, ver |-> req[r].ver,
                                                              expired |-> FALSE]]
    BY <1>9 DEF CreateSession
  <2>3. [user |-> req[r].user, ver |-> req[r].ver, expired |-> FALSE] \in Sessions
    BY DEF TypeOK, Calls, Sessions
  <2>4. session' \in [Tokens -> Sessions]
    BY <2>2, <2>3 DEF TypeOK
  <2> QED
    BY <1>9, <2>1, <2>4 DEF CreateSession, Overtaken, TypeOK
<1>10. ASSUME NEW r \in Reqs, SendLink(r) PROVE Goal
  <2>1. ReqOK
    BY <1>2, <1>10 DEF SendLink
  <2>2. req[r].user \in Users
    BY <1>10 DEF SendLink, CallsKnow
  <2> QED
    BY <1>10, <2>1, <2>2 DEF SendLink, Overtaken, TypeOK, create_reset_token
<1>11. ASSUME NEW r \in Reqs, ProvePassword(r) PROVE Goal
  <2>1. ReqOK
    <3>1. CASE Answer(r)
      BY <1>2, <3>1
    <3>2. CASE Goto(r, "list") \/ Goto(r, "password")
      BY <1>11, <3>2, GotoStep DEF ProvePassword, Editing
    <3> QED
      BY <1>11, <3>1, <3>2 DEF ProvePassword
  <2> QED
    BY <1>11, <2>1 DEF ProvePassword, TypeOK, hist
<1>12. ASSUME NEW r \in Reqs, SetPassword(r) PROVE Goal
  <2>1. CASE Answer(r) /\ UNCHANGED version
    BY <1>2, <1>12, <2>1 DEF SetPassword, TypeOK, hist
  <2>2. ASSUME NEW v \in Nat, version' = [version EXCEPT ![req[r].user] = v],
               req' = [req EXCEPT ![r].pc = "signout", ![r].ver = v] PROVE Goal
    <3> DEFINE step == [req[r] EXCEPT !.pc = "signout", !.ver = v]
    <3>1. /\ step \in Calls /\ step.pc = "signout" /\ step.user = req[r].user /\ step.proc = req[r].proc
      <4>1. req[r] \in Calls
        BY DEF TypeOK
      <4> QED
        BY <4>1 DEF Calls
    <3>2. req' = [req EXCEPT ![r] = step] /\ req[r].pc # "idle"
      BY <1>12, <2>2 DEF SetPassword, TypeOK
    <3> HIDE DEF step
    <3>3. ReqOK
      BY <3>1, <3>2, GoStep DEF Editing
    <3>4. version' \in [Users -> Nat]
      BY <2>2 DEF TypeOK
    <3> QED
      BY <1>12, <3>3, <3>4 DEF SetPassword, TypeOK, hist
  <2>3. req[r].user \in Users
    BY <1>12 DEF SetPassword, CallsKnow
  <2>4. version[req[r].user] \in Nat /\ version[req[r].user] + 1 \in Nat
    BY <2>3 DEF TypeOK
  <2> QED
    BY <1>12, <2>1, <2>2, <2>4 DEF SetPassword
<1>13. ASSUME NEW r \in Reqs, SignOut(r) PROVE Goal
  <2>1. ReqOK
    <3>1. CASE Answer(r)
      BY <1>2, <3>1
    <3>2. CASE req' = [req EXCEPT ![r].pc = "session", ![r].aim = "password"]
      <4> DEFINE step == [req[r] EXCEPT !.pc = "session", !.aim = "password"]
      <4>1. /\ step \in Calls /\ step.pc = "session" /\ step.user = req[r].user /\ step.proc = req[r].proc
        <5>1. req[r] \in Calls
          BY DEF TypeOK
        <5> QED
          BY <5>1 DEF Calls
      <4>2. req' = [req EXCEPT ![r] = step] /\ req[r].pc # "idle"
        BY <1>13, <3>2 DEF SignOut, TypeOK
      <4> HIDE DEF step
      <4> QED
        BY <4>1, <4>2, GoStep DEF Editing
    <3> QED
      BY <1>13, <3>1, <3>2 DEF SignOut
  <2>2. session' \in [Tokens -> Sessions]
    BY <1>13, IdleType DEF SignOut, delete_sessions_for_user, TypeOK
  <2>3. settled' \in [Users -> Nat]
    BY <1>13 DEF SignOut, TypeOK, Calls
  <2> QED
    BY <1>13, <2>1, <2>2, <2>3 DEF SignOut, TypeOK
<1>14. ASSUME UNCHANGED req PROVE ReqOK
  BY <1>14 DEF TypeOK, CallsKnow
<1>15. ASSUME NEW t \in Tokens, Expire(t) \/ DeleteSession(t) PROVE Goal
  <2>1. [session[t] EXCEPT !.expired = TRUE] \in Sessions
    <3>1. session[t] \in Sessions
      BY DEF TypeOK
    <3> QED
      BY <3>1 DEF Sessions
  <2>2. session' \in [Tokens -> Sessions]
    <3>1. CASE Expire(t)
      <4>1. session' = [session EXCEPT ![t] = [session[t] EXCEPT !.expired = TRUE]]
        BY <3>1 DEF Expire
      <4> QED
        BY <2>1, <4>1 DEF TypeOK
    <3>2. CASE DeleteSession(t)
      <4>1. session' = [session EXCEPT ![t] = NoRow] /\ NoRow \in Sessions
        BY <3>2, IdleType DEF DeleteSession
      <4> QED
        BY <4>1 DEF TypeOK
    <3> QED
      BY <1>15, <3>1, <3>2
  <2>3. UNCHANGED <<account, version, sso, reset, owner, grants, cache, pending, begun, req, hist, made>>
    BY <1>15 DEF Expire, DeleteSession
  <2> QED
    BY <1>14, <2>2, <2>3 DEF TypeOK, hist
<1>16. ASSUME NEW k \in Links, LinkLapses(k) PROVE Goal
  BY <1>14, <1>16 DEF LinkLapses, TypeOK, hist
<1>17. ASSUME NEW c \in Procs, NEW l \in Logins, SsoLogin(c, l) \/ DropLogin(c, l) PROVE Goal
  BY <1>14, <1>17 DEF SsoLogin, DropLogin, TypeOK, hist
<1>18. ASSUME NEW c \in Procs, NEW l \in Logins, NEW tok \in IdTokens, SsoRefused(c, l, tok) PROVE Goal
  BY <1>14, <1>18 DEF SsoRefused, consume, TypeOK, hist
<1> QED
  BY <1>3, <1>4, <1>5, <1>6, <1>7, <1>8, <1>9, <1>10, <1>11, <1>12, <1>13, <1>15, <1>16, <1>17,
     <1>18 DEF Authentication

\* A role written into a table of grants leaves it one.
LEMMA MembersType ==
  /\ NoGrants \in Members
  /\ \A m \in Members, p \in Projects, u \in Users, role \in Roles :
       [m EXCEPT ![p][u] = role] \in Members
  /\ \A m \in Members, p \in Projects : [m EXCEPT ![p] = NoGrants[p]] \in Members
  BY DEF Members, NoGrants, Roles

\* The steps of projects and grants keep the types.
LEMMA SharingType ==
  ASSUME TypeOK, CallsKnow, Sharing
  PROVE  TypeOK' /\ CallsKnow'
<1> DEFINE Goal == TypeOK' /\ CallsKnow'
<1> DEFINE ReqOK == req' \in [Reqs -> Calls] /\ CallsKnow'
<1> USE AccessAssumption
<1>1. ASSUME NEW r \in Reqs, NEW c \in Procs, NEW u \in Users, AskProject(r, c, u) PROVE Goal
  <2>1. /\ Step("create", "none", c, u) \in Calls /\ Step("create", "none", c, u).pc = "create"
        /\ Step("create", "none", c, u).user = u /\ Step("create", "none", c, u).proc = c
    BY StepType
  <2>2. Start(r, Step("create", "none", c, u))
    BY <1>1 DEF AskProject
  <2> DEFINE step == Step("create", "none", c, u)
  <2> HIDE DEF step
  <2>3. step \in Calls /\ step.pc = "create" /\ step.user = u /\ step.proc = c /\ Start(r, step)
    BY <2>1, <2>2 DEF step
  <2>4. ReqOK /\ made' \in Nat /\ req'[r].pc = "create"
    BY <2>3, StartStep DEF Editing
  <2> QED
    BY <1>1, <2>4 DEF AskProject, TypeOK, hist
<1>2. ASSUME NEW r \in Reqs, NEW c \in Procs, NEW u \in Users, NEW p \in Projects,
             NEW aim \in {"grant", "revoke", "remove"}, NEW w \in Users \cup {NoOne},
             NEW role \in Roles, aim # "remove" => w \in Users, AskAdmin(r, c, u, p, aim, w, role)
      PROVE  Goal
  <2> DEFINE step == [Step(aim, "none", c, u) EXCEPT !.proj = p, !.whom = w, !.role = role]
  <2>1. /\ step \in Calls /\ step.pc = aim /\ step.user = u /\ step.proc = c
        /\ step.proj = p /\ step.whom = w
    BY DEF Step, Idle, Calls
  <2>2. Start(r, step)
    BY <1>2 DEF AskAdmin
  <2> HIDE DEF step
  <2>3. ReqOK /\ made' \in Nat /\ req'[r] = step
    BY <1>2, <2>1, <2>2, StartStep DEF Editing
  <2> QED
    BY <1>2, <2>3 DEF AskAdmin, TypeOK, hist
<1>3. ASSUME NEW r \in Reqs, Answer(r) PROVE ReqOK
  BY <1>3, AnswerStep
<1>4. ASSUME NEW r \in Reqs, CreateProject(r) PROVE Goal
  <2>1. ReqOK /\ req[r].user \in Users
    BY <1>3, <1>4 DEF CreateProject, CallsKnow
  <2> QED
    BY <1>4, <2>1 DEF CreateProject, Overtaken, TypeOK
<1>5. ASSUME NEW r \in Reqs, req[r].pc \in Editing
      PROVE  /\ req[r].proc \in Procs /\ req[r].proj \in Projects /\ req[r].whom \in Users
             /\ req[r].role \in Roles /\ cache[req[r].proc] \in Members /\ grants \in Members
  BY <1>5 DEF CallsKnow, TypeOK, Calls, Editing
<1>6. ASSUME NEW r \in Reqs, GrantCache(r) PROVE Goal
  <2>1. ReqOK
    BY <1>6, GotoStep DEF GrantCache, Editing
  <2>2. cache' \in [Procs -> Members]
    BY <1>5, <1>6, MembersType DEF GrantCache, Editing, TypeOK
  <2>3. revoked' \in [Procs -> SUBSET (Projects \X Users)]
    BY <1>6 DEF GrantCache, TypeOK
  <2> QED
    BY <1>6, <2>1, <2>2, <2>3 DEF GrantCache, TypeOK
<1>7. ASSUME NEW r \in Reqs, GrantRow(r) PROVE Goal
  <2>1. ReqOK
    BY <1>3, <1>7 DEF GrantRow
  <2>2. grants' \in Members
    BY <1>5, <1>7, MembersType DEF GrantRow, Editing
  <2> QED
    BY <1>7, <2>1, <2>2 DEF GrantRow, TypeOK, hist
<1>8. ASSUME NEW r \in Reqs, RevokeCache(r) PROVE Goal
  <2>1. ReqOK
    <3>1. CASE Answer(r)
      BY <1>3, <3>1
    <3>2. CASE Goto(r, "revoke_row")
      BY <1>8, <3>2, GotoStep DEF RevokeCache, Editing
    <3> QED
      BY <1>8, <3>1, <3>2 DEF RevokeCache
  <2>2. cache' \in [Procs -> Members]
    <3>1. "none" \in Roles
      BY DEF Roles
    <3>2. CASE UNCHANGED cache
      BY <3>2 DEF TypeOK
    <3>3. CASE cache' = [cache EXCEPT ![req[r].proc][req[r].proj][req[r].whom] = "none"]
      BY <1>5, <1>8, <3>1, <3>3, MembersType DEF RevokeCache, Editing, TypeOK
    <3> QED
      BY <1>8, <3>2, <3>3 DEF RevokeCache
  <2> QED
    BY <1>8, <2>1, <2>2 DEF RevokeCache, TypeOK, hist
<1>9. ASSUME NEW r \in Reqs, RevokeRow(r) PROVE Goal
  <2>1. ReqOK
    BY <1>3, <1>9 DEF RevokeRow
  <2>2. grants' \in Members
    <3>1. "none" \in Roles
      BY DEF Roles
    <3> QED
      BY <1>5, <1>9, <3>1, MembersType DEF RevokeRow, Editing
  <2>3. revoked' \in [Procs -> SUBSET (Projects \X Users)]
    BY <1>5, <1>9 DEF RevokeRow, TakenBack, TypeOK, Editing
  <2> QED
    BY <1>9, <2>1, <2>2, <2>3 DEF RevokeRow, TypeOK
<1>10. ASSUME NEW r \in Reqs, RemoveProject(r) PROVE Goal
  <2>1. ReqOK
    <3>1. CASE Answer(r)
      BY <1>3, <3>1
    <3>2. CASE Goto(r, "drop")
      BY <1>10, <3>2, GotoStep DEF RemoveProject, CallsKnow, Editing
    <3> QED
      BY <1>10, <3>1, <3>2 DEF RemoveProject
  <2> QED
    BY <1>10, <2>1 DEF RemoveProject, TypeOK, hist
<1>11. ASSUME NEW r \in Reqs, DropProject(r) PROVE Goal
  <2>1. ReqOK
    BY <1>3, <1>11 DEF DropProject
  <2>2. req[r].proc \in Procs /\ req[r].proj \in Projects
    BY <1>11 DEF DropProject, CallsKnow
  <2>3. grants' \in Members /\ cache' \in [Procs -> Members]
    BY <1>11, <2>2, MembersType DEF DropProject, Drop, TypeOK
  <2> QED
    BY <1>11, <2>1, <2>3 DEF DropProject, TypeOK, hist
<1>12. Granted \subseteq Roles /\ "none" \in Roles
  BY DEF Roles
<1> QED
  BY <1>1, <1>2, <1>4, <1>6, <1>7, <1>8, <1>9, <1>10, <1>11, <1>12 DEF Sharing

\* The steps of the deletion of an account keep the types.
LEMMA DeletionType ==
  ASSUME TypeOK, CallsKnow, Deletion
  PROVE  TypeOK' /\ CallsKnow'
<1> DEFINE Goal == TypeOK' /\ CallsKnow'
<1> DEFINE ReqOK == req' \in [Reqs -> Calls] /\ CallsKnow'
<1> USE AccessAssumption
<1>1. ASSUME NEW r \in Reqs, NEW step \in Calls, req' = [req EXCEPT ![r] = step], req[r].pc # "idle",
             step.pc \in {"wipe", "wipe_grants"}, step.user = req[r].user, step.proc = req[r].proc,
             step.pc = "wipe_grants" => step.proj \in Projects
      PROVE  ReqOK
  BY <1>1, GoStep DEF Editing
<1>2. ASSUME NEW r \in Reqs, ListOwned(r) PROVE Goal
  <2> DEFINE owned == {p \in Projects : owner[p] = req[r].user}
             step == [req[r] EXCEPT !.pc = "wipe", !.todo = owned]
  <2>1. owned \in SUBSET Projects /\ req[r] \in Calls
    BY DEF TypeOK
  <2>2. req' = [req EXCEPT ![r] = step] /\ req[r].pc # "idle"
    BY <1>2 DEF ListOwned, TypeOK
  <2> HIDE DEF owned
  <2>3. step \in Calls /\ step.pc = "wipe" /\ step.user = req[r].user /\ step.proc = req[r].proc
    BY <2>1 DEF Calls
  <2> HIDE DEF step
  <2>4. ReqOK
    BY <1>1, <2>2, <2>3
  <2> QED
    BY <1>2, <2>4 DEF ListOwned, TypeOK, hist
<1>3. ASSUME NEW r \in Reqs, WipeProject(r) PROVE Goal
  <2>1. PICK p \in req[r].todo :
          /\ owner' = [owner EXCEPT ![p] = Gone]
          /\ req' = [req EXCEPT ![r].pc = "wipe_grants", ![r].proj = p, ![r].todo = @ \ {p}]
    BY <1>3 DEF WipeProject
  <2> DEFINE step == [req[r] EXCEPT !.pc = "wipe_grants", !.proj = p, !.todo = @ \ {p}]
  <2>2. req[r] \in Calls /\ p \in Projects
    BY DEF TypeOK, Calls
  <2>3. req' = [req EXCEPT ![r] = step] /\ req[r].pc # "idle"
    BY <1>3, <2>1 DEF WipeProject, TypeOK
  <2>4. /\ step \in Calls /\ step.pc = "wipe_grants" /\ step.user = req[r].user
        /\ step.proc = req[r].proc /\ step.proj = p
    BY <2>2 DEF Calls
  <2> HIDE DEF step
  <2>5. ReqOK
    BY <1>1, <2>2, <2>3, <2>4
  <2> QED
    BY <1>3, <2>1, <2>5 DEF WipeProject, TypeOK, hist
<1>4. ASSUME NEW r \in Reqs, WipeGrants(r) PROVE Goal
  <2> DEFINE step == [req[r] EXCEPT !.pc = "wipe", !.proj = NoOne]
  <2>1. req[r] \in Calls /\ req[r].proc \in Procs /\ req[r].proj \in Projects
    BY <1>4 DEF TypeOK, WipeGrants, CallsKnow
  <2>2. req' = [req EXCEPT ![r] = step] /\ req[r].pc # "idle"
    BY <1>4 DEF WipeGrants, TypeOK
  <2>3. step \in Calls /\ step.pc = "wipe" /\ step.user = req[r].user /\ step.proc = req[r].proc
    BY <2>1 DEF Calls
  <2> HIDE DEF step
  <2>4. ReqOK
    BY <1>1, <2>2, <2>3
  <2>5. grants' \in Members /\ cache' \in [Procs -> Members]
    BY <1>4, <2>1, MembersType DEF WipeGrants, Drop, TypeOK
  <2> QED
    BY <1>4, <2>4, <2>5 DEF WipeGrants, TypeOK, hist
<1>5. ASSUME NEW r \in Reqs, DropGrants(r) PROVE Goal
  <2>1. ReqOK /\ req[r].proc \in Procs
    BY <1>5, GotoStep DEF DropGrants, CallsKnow, Editing
  <2>2. grants' \in Members
    BY <1>5 DEF DropGrants, TypeOK, Members, Roles
  <2>3. cache' \in [Procs -> Members]
    <3> DEFINE u == req[r].user
               m == cache[req[r].proc]
               shared == projects_for(req[r].proc, u)
               left == [p \in Projects |-> IF p \in shared THEN [m[p] EXCEPT ![u] = "none"] ELSE m[p]]
    <3>1. m \in Members
      BY <2>1 DEF TypeOK
    <3> HIDE DEF m, shared, u
    <3>2. left \in Members
      BY <3>1 DEF Members, Roles
    <3>3. cache' = [cache EXCEPT ![req[r].proc] = left]
      BY <1>5 DEF DropGrants, m, shared, u
    <3> HIDE DEF left
    <3> QED
      BY <3>2, <3>3 DEF TypeOK
  <2> QED
    BY <1>5, <2>1, <2>2, <2>3 DEF DropGrants, TypeOK, hist
<1>6. ASSUME NEW r \in Reqs, EraseAccount(r) PROVE Goal
  <2>1. ReqOK
    BY <1>6, AnswerStep DEF EraseAccount
  <2>2. session' \in [Tokens -> Sessions]
    BY <1>6, IdleType DEF EraseAccount, delete_sessions_for_user, TypeOK
  <2> QED
    BY <1>6, <2>1, <2>2 DEF EraseAccount, TypeOK, hist
<1> QED
  BY <1>2, <1>3, <1>4, <1>5, <1>6 DEF Deletion

\* Every step keeps the types.
LEMMA TypeStep ==
  ASSUME TypeOK, CallsKnow, [Next]_vars
  PROVE  TypeOK' /\ CallsKnow'
<1>1. ASSUME NEW c \in Procs, Restart(c) PROVE TypeOK' /\ CallsKnow'
  <2>1. \A q \in Reqs : req'[q] = req[q] \/ req'[q] = Idle
    BY <1>1 DEF Restart
  <2>2. req' \in [Reqs -> Calls]
    BY <1>1, IdleType DEF Restart, TypeOK
  <2>3. CallsKnow'
    BY <2>1, IdleType DEF CallsKnow, Editing
  <2> QED
    BY <1>1, <2>2, <2>3 DEF Restart, TypeOK, hist
<1>2. CASE UNCHANGED vars
  BY <1>2 DEF vars, hist, TypeOK, CallsKnow
<1> QED
  BY <1>1, <1>2, AuthenticationType, SharingType, DeletionType DEF Next

\* Nobody is registered and nothing is going on at first.
LEMMA TypeInit == Init => TypeOK /\ CallsKnow
  BY IdleType, MembersType, AccessAssumption DEF Init, TypeOK, CallsKnow, Editing

\* The tables of accounts, sessions, links, projects and grants, and what each
\* request carries from statement to statement, keep their types.
THEOREM TypeCorrect == Spec => []TypeOK
<1>1. TypeOK /\ CallsKnow /\ [Next]_vars => TypeOK' /\ CallsKnow'
  BY TypeStep
<1> QED
  BY <1>1, TypeInit, PTL DEF Spec

-----------------------------------------------------------------------------
(* How requests begin.                                                        *)

\* What a thread knows once a request has started on it.
LEMMA Begun ==
  ASSUME TypeOK, NEW r \in Reqs, NEW c, NEW u, NEW pc, NEW aim, Start(r, Step(pc, aim, c, u))
  PROVE  /\ req[r] = Idle /\ req'[r].pc = pc /\ req'[r].user = u
         /\ \A q \in Reqs \ {r} : req'[q] = req[q]
  BY DEF Start, Step, Idle, TypeOK

\* The same, for register, login and sso_callback: the session to come rests on the
\* password as it is then.
LEMMA BegunSession ==
  ASSUME TypeOK, NEW r \in Reqs, NEW c \in Procs, NEW u \in Users,
         \/ Register(r, c, u) \/ Login(r, c, u)
         \/ \E l \in Logins, tok \in IdTokens : SsoCallback(r, c, l, u, tok)
  PROVE  /\ req[r] = Idle /\ req'[r].pc = "session" /\ req'[r].user = u /\ req'[r].ver = version'[u]
         /\ \A q \in Reqs \ {r} : req'[q] = req[q]
<1>1. ASSUME NEW v, NEW aim, Start(r, [Step("session", aim, c, u) EXCEPT !.ver = v])
      PROVE  /\ req[r] = Idle /\ req'[r].pc = "session" /\ req'[r].user = u /\ req'[r].ver = v
             /\ \A q \in Reqs \ {r} : req'[q] = req[q]
  BY <1>1 DEF Start, Step, Idle, TypeOK
<1>2. CASE Register(r, c, u)
  <2>1. Start(r, [Step("session", "password", c, u) EXCEPT !.ver = 1]) /\ version'[u] = 1
    BY <1>2 DEF Register, TypeOK
  <2> QED
    BY <1>1, <2>1
<1>3. CASE Login(r, c, u)
  <2>1. Start(r, [Step("session", "password", c, u) EXCEPT !.ver = version[u]])
        /\ version' = version
    BY <1>3 DEF Login
  <2> QED
    BY <1>1, <2>1
<1>4. CASE \E l \in Logins, tok \in IdTokens : SsoCallback(r, c, l, u, tok)
  <2>1. Start(r, [Step("session", "sso", c, u) EXCEPT !.ver = version[u]])
        /\ version' = version
    BY <1>4 DEF SsoCallback
  <2> QED
    BY <1>1, <2>1
<1> QED
  BY <1>2, <1>3, <1>4

\* The same, for a request that administers a project.
LEMMA BegunAdmin ==
  ASSUME TypeOK, NEW r \in Reqs, NEW c, NEW u, NEW p, NEW aim, NEW w, NEW role,
         AskAdmin(r, c, u, p, aim, w, role)
  PROVE  /\ req[r] = Idle /\ req'[r].pc = aim /\ req'[r].user = u
         /\ \A q \in Reqs \ {r} : req'[q] = req[q]
  BY DEF AskAdmin, Start, Step, Idle, TypeOK

-----------------------------------------------------------------------------
(* Deletion of an account.                                                    *)

Wiping == {"wipe", "wipe_grants", "erase"}

\* A step that names no account anew, lists nothing and erases no account keeps
\* them all live.
LEMMA LiveWhenQuiet ==
  ASSUME TypeOK, CallsKnow, NamesLiveOnes, UNCHANGED late,
         \A v \in Users : account[v] = "live" => account'[v] = "live",
         \A q \in Reqs : req'[q].pc \in Wiping =>
           /\ req[q].pc \in Wiping /\ req'[q].user = req[q].user /\ req'[q].todo = req[q].todo
           /\ req'[q].pc = "erase" => req[q].pc = "erase",
         \A t \in Tokens : session'[t].user \in Users => session'[t].user = session[t].user,
         \A k \in Links : reset'[k] \in Users => reset'[k] = reset[k],
         \A p \in Projects : owner'[p] \in Users => owner'[p] = owner[p]
  PROVE  NamesLiveOnes'
<1>1. /\ \A t \in Tokens : session'[t].user \in Users => account'[session'[t].user] = "live" \/ t \in late'
      /\ \A k \in Links : reset'[k] \in Users => account'[reset'[k]] = "live" \/ k \in late'
      /\ \A p \in Projects : owner'[p] \in Users => account'[owner'[p]] = "live" \/ p \in late'
  BY DEF NamesLiveOnes
<1>2. ASSUME NEW q \in Reqs, req'[q].pc \in Wiping
      PROVE  /\ \A p \in Projects : owner'[p] = req'[q].user => p \in req'[q].todo \/ p \in late'
             /\ req'[q].pc = "erase" => req'[q].todo = {}
  <2>1. /\ req[q].pc \in Wiping /\ req'[q].todo = req[q].todo /\ req'[q].user = req[q].user
        /\ req[q].user \in Users /\ (req'[q].pc = "erase" => req[q].pc = "erase")
    BY <1>2 DEF Wiping, CallsKnow
  <2> QED
    BY <2>1 DEF NamesLiveOnes, Wiping
<1> QED
  BY <1>1, <1>2 DEF NamesLiveOnes, Wiping

\* What a request makes for an account: of a live one, or too late.
LEMMA OvertakenStep ==
  ASSUME NEW u \in Users, NEW x, late' = Overtaken(u, x)
  PROVE  /\ \A y : y # x => (y \in late' <=> y \in late)
         /\ x \in late' \/ (account[u] = "live" /\ ~Deleting(u))
  BY DEF Overtaken

\* Every step names live accounts only, but for what comes too late.
LEMMA LiveStep ==
  ASSUME TypeOK, CallsKnow, NamesLiveOnes, [Next]_vars
  PROVE  NamesLiveOnes'
<1> USE AccessAssumption
<1>1. ASSUME NEW r \in Reqs, NEW c \in Procs, NEW u \in Users, Register(r, c, u) PROVE NamesLiveOnes'
  <2>1. /\ req[r] = Idle /\ req'[r].pc = "session" /\ req'[r].user = u
        /\ \A q \in Reqs \ {r} : req'[q] = req[q]
    BY <1>1, BegunSession
  <2> QED
    BY <1>1, <2>1, LiveWhenQuiet DEF Register, Wiping, TypeOK, hist
<1>2. ASSUME NEW r \in Reqs, NEW c \in Procs, NEW u \in Users, Login(r, c, u) PROVE NamesLiveOnes'
  <2>1. /\ req[r] = Idle /\ req'[r].pc = "session" /\ req'[r].user = u
        /\ \A q \in Reqs \ {r} : req'[q] = req[q]
    BY <1>2, BegunSession
  <2> QED
    BY <1>2, <2>1, LiveWhenQuiet DEF Login, Wiping, hist
<1>3. ASSUME NEW r \in Reqs, NEW c \in Procs, NEW u \in Users, ForgotPassword(r, c, u)
      PROVE  NamesLiveOnes'
  <2>1. /\ req[r] = Idle /\ req'[r].pc = "link" /\ req'[r].user = u
        /\ \A q \in Reqs \ {r} : req'[q] = req[q]
    BY <1>3, Begun DEF ForgotPassword
  <2> QED
    BY <1>3, <2>1, LiveWhenQuiet DEF ForgotPassword, Wiping, hist
<1>4. ASSUME NEW r \in Reqs, NEW c \in Procs, NEW u \in Users, NEW aim \in {"change", "delete"},
             AskPassword(r, c, u, aim) PROVE NamesLiveOnes'
  <2>1. /\ req[r] = Idle /\ req'[r].pc = "prove" /\ req'[r].user = u
        /\ \A q \in Reqs \ {r} : req'[q] = req[q]
    BY <1>4, Begun DEF AskPassword
  <2> QED
    BY <1>4, <2>1, LiveWhenQuiet DEF AskPassword, SignedIn, Wiping, hist
<1>5. ASSUME NEW r \in Reqs, NEW c \in Procs, NEW u \in Users, NEW l \in Logins, NEW tok \in IdTokens,
             SsoCallback(r, c, l, u, tok) PROVE NamesLiveOnes'
  <2>1. /\ req[r] = Idle /\ req'[r].pc = "session" /\ req'[r].user = u
        /\ \A q \in Reqs \ {r} : req'[q] = req[q]
    BY <1>5, BegunSession
  <2> QED
    BY <1>5, <2>1, LiveWhenQuiet DEF SsoCallback, Wiping, TypeOK, hist
<1>6. ASSUME NEW r \in Reqs, NEW c \in Procs, NEW k \in Links, RedeemLink(r, c, k) PROVE NamesLiveOnes'
  <2> DEFINE u == reset[k]
  <2>2. /\ req[r] = Idle /\ req'[r].pc = "password" /\ req'[r].user = u
        /\ \A q \in Reqs \ {r} : req'[q] = req[q]
    BY <1>6, Begun DEF RedeemLink
  <2>3. /\ UNCHANGED <<account, session, owner, late>>
        /\ \A j \in Links : reset'[j] \in Users => reset'[j] = reset[j]
    BY <1>6 DEF RedeemLink, consume_reset_token, TypeOK, hist
  <2> HIDE DEF u
  <2> QED
    BY <2>2, <2>3, LiveWhenQuiet DEF Wiping
<1>7. ASSUME NEW r \in Reqs, NEW c \in Procs, NEW u \in Users, AskProject(r, c, u) PROVE NamesLiveOnes'
  <2>1. /\ req[r] = Idle /\ req'[r].pc = "create" /\ req'[r].user = u
        /\ \A q \in Reqs \ {r} : req'[q] = req[q]
    BY <1>7, Begun DEF AskProject
  <2> QED
    BY <1>7, <2>1, LiveWhenQuiet DEF AskProject, SignedIn, Wiping, hist
<1>8. ASSUME NEW r \in Reqs, NEW c \in Procs, NEW u \in Users, NEW p \in Projects,
             NEW aim \in {"grant", "revoke", "remove"}, NEW w, NEW role, AskAdmin(r, c, u, p, aim, w, role)
      PROVE  NamesLiveOnes'
  <2>1. /\ req[r] = Idle /\ req'[r].pc = aim /\ req'[r].user = u
        /\ \A q \in Reqs \ {r} : req'[q] = req[q]
    BY <1>8, BegunAdmin
  <2> QED
    BY <1>8, <2>1, LiveWhenQuiet DEF AskAdmin, SignedIn, Wiping, hist
<1>9. ASSUME NEW r \in Reqs, CreateSession(r) PROVE NamesLiveOnes'
  <2> DEFINE u == req[r].user
  <2>1. PICK t \in Tokens :
          /\ session' = [session EXCEPT ![t] = [user |-> u, ver |-> req[r].ver, expired |-> FALSE]]
          /\ late' = Overtaken(u, t)
    BY <1>9 DEF CreateSession
  <2>2. \A x \in Tokens : session'[x].user = IF x = t THEN u ELSE session[x].user
    BY <2>1 DEF TypeOK
  <2>3. /\ u \in Users /\ UNCHANGED <<account, reset, owner>>
        /\ \A q \in Reqs : IF q = r THEN req'[q] = Idle ELSE req'[q] = req[q]
    BY <1>9 DEF CreateSession, Answer, TypeOK, CallsKnow
  <2> HIDE DEF u
  <2>4. /\ \A y : y # t => (y \in late' <=> y \in late)
        /\ t \in late' \/ account[u] = "live"
    BY <2>1, <2>3, OvertakenStep
  <2>5. \A p \in Projects : p # t
    OBVIOUS
  <2>6. \A k \in Links : k # t
    OBVIOUS
  <2> QED
    BY <2>2, <2>3, <2>4, <2>5, <2>6, IdleType DEF NamesLiveOnes
<1>10. ASSUME NEW r \in Reqs, SendLink(r) PROVE NamesLiveOnes'
  <2> DEFINE u == req[r].user
  <2>1. PICK k \in Links : reset' = create_reset_token(u, k) /\ late' = Overtaken(u, k)
    BY <1>10 DEF SendLink
  <2>2. \A x \in Links : reset'[x] \in Users => reset'[x] = IF x = k THEN u ELSE reset[x]
    BY <2>1 DEF create_reset_token
  <2>3. /\ u \in Users /\ UNCHANGED <<account, session, owner>>
        /\ \A q \in Reqs : IF q = r THEN req'[q] = Idle ELSE req'[q] = req[q]
    BY <1>10 DEF SendLink, Answer, TypeOK, CallsKnow
  <2> HIDE DEF u
  <2>4. /\ \A y : y # k => (y \in late' <=> y \in late)
        /\ k \in late' \/ account[u] = "live"
    BY <2>1, <2>3, OvertakenStep
  <2>5. \A p \in Projects : p # k
    OBVIOUS
  <2>6. \A t \in Tokens : t # k
    OBVIOUS
  <2> QED
    BY <2>2, <2>3, <2>4, <2>5, <2>6, IdleType DEF NamesLiveOnes
<1>11. ASSUME NEW r \in Reqs, ProvePassword(r) \/ SetPassword(r) PROVE NamesLiveOnes'
  <2>1. /\ req[r].pc # "idle" /\ UNCHANGED <<account, session, reset, owner, late>>
        /\ \A q \in Reqs \ {r} : req'[q] = req[q]
        /\ req'[r].pc \notin Wiping /\ (req'[r].pc # "idle" => req'[r].user = req[r].user)
    BY <1>11 DEF ProvePassword, SetPassword, Answer, Goto, Idle, TypeOK, Calls, Wiping, hist
  <2> QED
    BY <2>1, LiveWhenQuiet DEF Wiping
<1>12. ASSUME NEW r \in Reqs, SignOut(r) PROVE NamesLiveOnes'
  <2>1. /\ req[r].pc # "idle" /\ UNCHANGED <<account, reset, owner, late>>
        /\ \A q \in Reqs \ {r} : req'[q] = req[q]
        /\ req'[r].pc \notin Wiping /\ (req'[r].pc # "idle" => req'[r].user = req[r].user)
    BY <1>12 DEF SignOut, Answer, Idle, TypeOK, Calls, Wiping
  <2>2. \A t \in Tokens : session'[t].user \in Users => session'[t].user = session[t].user
    BY <1>12, IdleType DEF SignOut, delete_sessions_for_user
  <2> QED
    BY <2>1, <2>2, LiveWhenQuiet DEF Wiping
<1>13. ASSUME NEW t \in Tokens, Expire(t) \/ DeleteSession(t) PROVE NamesLiveOnes'
  <2>1. \A x \in Tokens : session'[x].user \in Users => session'[x].user = session[x].user
    <3>1. CASE Expire(t)
      <4>1. session' = [session EXCEPT ![t].expired = TRUE]
        BY <3>1 DEF Expire
      <4> QED
        BY <4>1 DEF TypeOK, Sessions
    <3>2. CASE DeleteSession(t)
      <4>1. session' = [session EXCEPT ![t] = NoRow]
        BY <3>2 DEF DeleteSession
      <4> QED
        BY <4>1, IdleType DEF TypeOK
    <3> QED
      BY <1>13, <3>1, <3>2
  <2>2. UNCHANGED <<account, reset, owner, req, late>>
    BY <1>13 DEF Expire, DeleteSession, hist
  <2> QED
    BY <2>1, <2>2 DEF NamesLiveOnes
<1>14. ASSUME NEW k \in Links, LinkLapses(k) PROVE NamesLiveOnes'
  <2>1. \A x \in Links : reset'[x] \in Users => reset'[x] = reset[x]
    BY <1>14 DEF LinkLapses, TypeOK
  <2>2. UNCHANGED <<account, session, owner, req, late>>
    BY <1>14 DEF LinkLapses, hist
  <2> QED
    BY <2>1, <2>2 DEF NamesLiveOnes
<1>15. ASSUME UNCHANGED <<account, session, reset, owner, req, late>> PROVE NamesLiveOnes'
  BY <1>15 DEF NamesLiveOnes
<1>16. ASSUME NEW c \in Procs, NEW l \in Logins,
              SsoLogin(c, l) \/ DropLogin(c, l) \/ \E tok \in IdTokens : SsoRefused(c, l, tok)
       PROVE  NamesLiveOnes'
  BY <1>15, <1>16 DEF SsoLogin, DropLogin, SsoRefused, hist
<1>17. ASSUME NEW r \in Reqs, CreateProject(r) PROVE NamesLiveOnes'
  <2> DEFINE u == req[r].user
  <2>1. PICK p \in Projects : owner' = [owner EXCEPT ![p] = u] /\ late' = Overtaken(u, p)
    BY <1>17 DEF CreateProject
  <2>2. \A x \in Projects : owner'[x] = IF x = p THEN u ELSE owner[x]
    BY <2>1 DEF TypeOK
  <2>3. /\ u \in Users /\ UNCHANGED <<account, session, reset>>
        /\ \A q \in Reqs : IF q = r THEN req'[q] = Idle ELSE req'[q] = req[q]
    BY <1>17 DEF CreateProject, Answer, TypeOK, CallsKnow
  <2> HIDE DEF u
  <2>4. /\ \A y : y # p => (y \in late' <=> y \in late)
        /\ p \in late' \/ (account[u] = "live" /\ ~Deleting(u))
    BY <2>1, <2>3, OvertakenStep
  <2>5. \A t \in Tokens : t # p
    OBVIOUS
  <2>6. \A k \in Links : k # p
    OBVIOUS
  <2>7. /\ \A t \in Tokens : session'[t].user \in Users => account'[session'[t].user] = "live" \/ t \in late'
        /\ \A k \in Links : reset'[k] \in Users => account'[reset'[k]] = "live" \/ k \in late'
        /\ \A x \in Projects : owner'[x] \in Users => account'[owner'[x]] = "live" \/ x \in late'
    BY <2>2, <2>3, <2>4, <2>5, <2>6 DEF NamesLiveOnes
  <2>8. ASSUME NEW q \in Reqs, req'[q].pc \in Wiping
        PROVE  /\ \A x \in Projects : owner'[x] = req'[q].user => x \in req'[q].todo \/ x \in late'
               /\ req'[q].pc = "erase" => req'[q].todo = {}
    <3>1. req'[q] = req[q]
      BY <2>3, <2>8, IdleType DEF Wiping
    <3>2. req[q].user = u => Deleting(u)
      BY <2>8, <3>1 DEF Deleting, Wiping
    <3> QED
      BY <2>2, <2>4, <2>8, <3>1, <3>2 DEF NamesLiveOnes, Wiping
  <2> QED
    BY <2>7, <2>8 DEF NamesLiveOnes, Wiping
<1>18. ASSUME NEW r \in Reqs, GrantCache(r) \/ GrantRow(r) \/ RevokeCache(r) \/ RevokeRow(r) \/ DropProject(r)
       PROVE  NamesLiveOnes'
  <2>1. /\ req[r].pc # "idle" /\ UNCHANGED <<account, session, reset, owner, late>>
        /\ \A q \in Reqs \ {r} : req'[q] = req[q]
        /\ req'[r].pc \notin Wiping /\ (req'[r].pc # "idle" => req'[r].user = req[r].user)
    <3>1. req \in [Reqs -> Calls] /\ req[r] \in Calls
      BY DEF TypeOK
    <3>2. CASE Answer(r)
      <4>1. req'[r] = Idle /\ \A q \in Reqs \ {r} : req'[q] = req[q]
        BY <3>1, <3>2 DEF Answer
      <4>2. req'[r].pc = "idle" /\ "idle" \notin Wiping
        BY <4>1 DEF Idle, Wiping
      <4>3. req[r].pc # "idle" /\ UNCHANGED <<account, session, reset, owner, late>>
        BY <1>18 DEF GrantCache, GrantRow, RevokeCache, RevokeRow, DropProject, hist
      <4> QED
        BY <4>1, <4>2, <4>3
    <3>3. CASE Goto(r, "grant_row") \/ Goto(r, "revoke_row")
      <4>1. PICK step \in {"grant_row", "revoke_row"} : req' = [req EXCEPT ![r].pc = step]
        BY <3>3 DEF Goto
      <4>2. /\ \A q \in Reqs \ {r} : req'[q] = req[q]
            /\ req'[r].pc = step /\ req'[r].user = req[r].user
        BY <3>1, <4>1 DEF Calls
      <4> QED
        BY <1>18, <4>2 DEF GrantCache, GrantRow, RevokeCache, RevokeRow, DropProject, Wiping, hist
    <3> QED
      BY <1>18, <3>2, <3>3 DEF GrantCache, GrantRow, RevokeCache, RevokeRow, DropProject
  <2> QED
    BY <2>1, LiveWhenQuiet DEF Wiping
<1>19. ASSUME NEW r \in Reqs, RemoveProject(r) PROVE NamesLiveOnes'
  <2>1. /\ req[r].pc # "idle" /\ UNCHANGED <<account, session, reset, late>>
        /\ \A q \in Reqs \ {r} : req'[q] = req[q]
        /\ req'[r].pc \notin Wiping /\ (req'[r].pc # "idle" => req'[r].user = req[r].user)
    BY <1>19 DEF RemoveProject, Answer, Goto, Idle, TypeOK, Calls, Wiping, hist
  <2>2. \A p \in Projects : owner'[p] \in Users => owner'[p] = owner[p]
    BY <1>19 DEF RemoveProject, TypeOK
  <2> QED
    BY <2>1, <2>2, LiveWhenQuiet DEF Wiping
<1>20. ASSUME NEW r \in Reqs, ListOwned(r) PROVE NamesLiveOnes'
  <2>1. /\ req[r].pc = "list" /\ UNCHANGED <<account, session, reset, owner, late>>
        /\ \A q \in Reqs \ {r} : req'[q] = req[q]
        /\ req'[r].pc = "wipe" /\ req'[r].user = req[r].user
        /\ req'[r].todo = {p \in Projects : owner[p] = req[r].user}
    BY <1>20 DEF ListOwned, TypeOK, Calls, hist
  <2> QED
    BY <2>1 DEF NamesLiveOnes
<1>21. ASSUME NEW r \in Reqs, WipeProject(r) PROVE NamesLiveOnes'
  <2>1. PICK p \in req[r].todo :
          /\ owner' = [owner EXCEPT ![p] = Gone]
          /\ req' = [req EXCEPT ![r].pc = "wipe_grants", ![r].proj = p, ![r].todo = @ \ {p}]
    BY <1>21 DEF WipeProject
  <2>2. /\ req[r].pc = "wipe" /\ UNCHANGED <<account, session, reset, late>>
        /\ \A q \in Reqs \ {r} : req'[q] = req[q]
        /\ req'[r].pc = "wipe_grants" /\ req'[r].user = req[r].user
        /\ req'[r].todo = req[r].todo \ {p}
    BY <1>21, <2>1 DEF WipeProject, TypeOK, Calls, hist
  <2>3. /\ p \in Projects /\ req[r].user \in Users
        /\ \A x \in Projects : owner'[x] = IF x = p THEN Gone ELSE owner[x]
    BY <2>1, <2>2 DEF TypeOK, Calls, CallsKnow
  <2>4. \A q \in Reqs : req[q].pc # "idle" => req[q].user # Gone
    BY DEF CallsKnow
  <2> QED
    BY <2>2, <2>3, <2>4 DEF NamesLiveOnes
<1>22. ASSUME NEW r \in Reqs, WipeGrants(r) \/ DropGrants(r) PROVE NamesLiveOnes'
  <2>1. /\ req[r].pc \in Wiping /\ UNCHANGED <<account, session, reset, owner, late>>
        /\ \A q \in Reqs \ {r} : req'[q] = req[q]
        /\ req'[r].user = req[r].user /\ req'[r].todo = req[r].todo
        /\ (req'[r].pc = "wipe" \/ (req'[r].pc = "erase" /\ req[r].todo = {}))
    <3>1. req[r] \in Calls
      BY DEF TypeOK
    <3>2. CASE WipeGrants(r)
      <4>1. req' = [req EXCEPT ![r] = [req[r] EXCEPT !.pc = "wipe", !.proj = NoOne]]
        BY <3>2 DEF WipeGrants, TypeOK
      <4>2. req'[r] = [req[r] EXCEPT !.pc = "wipe", !.proj = NoOne]
            /\ \A q \in Reqs \ {r} : req'[q] = req[q]
        BY <4>1 DEF TypeOK
      <4>3. req[r].pc = "wipe_grants" /\ UNCHANGED <<account, session, reset, owner, late>>
        BY <3>2 DEF WipeGrants, hist
      <4>4. req'[r].pc = "wipe" /\ req'[r].user = req[r].user /\ req'[r].todo = req[r].todo
        BY <3>1, <4>2 DEF Calls
      <4> QED
        BY <4>2, <4>3, <4>4 DEF Wiping
    <3>3. CASE DropGrants(r)
      <4>1. req'[r] = [req[r] EXCEPT !.pc = "erase"] /\ \A q \in Reqs \ {r} : req'[q] = req[q]
        BY <3>3 DEF DropGrants, Goto, TypeOK
      <4>2. req[r].pc = "wipe" /\ req[r].todo = {} /\ UNCHANGED <<account, session, reset, owner, late>>
        BY <3>3 DEF DropGrants, hist
      <4> QED
        BY <3>1, <4>1, <4>2 DEF Calls, Wiping
    <3> QED
      BY <1>22, <3>2, <3>3
  <2> QED
    BY <2>1 DEF NamesLiveOnes, Wiping
<1>23. ASSUME NEW r \in Reqs, EraseAccount(r) PROVE NamesLiveOnes'
  <2> DEFINE u == req[r].user
  <2>1. /\ req[r].pc = "erase" /\ u \in Users /\ UNCHANGED <<owner, late>>
        /\ \A v \in Users : account'[v] = IF v = u THEN "gone" ELSE account[v]
        /\ \A t \in Tokens : session'[t] = IF session[t].user = u THEN NoRow ELSE session[t]
        /\ \A k \in Links : reset'[k] = IF reset[k] = u THEN "void" ELSE reset[k]
        /\ \A q \in Reqs : IF q = r THEN req'[q] = Idle ELSE req'[q] = req[q]
    BY <1>23 DEF EraseAccount, delete_sessions_for_user, Answer, TypeOK, CallsKnow, hist
  <2>2. \A p \in Projects : owner[p] = u => p \in late
    BY <2>1 DEF NamesLiveOnes
  <2> HIDE DEF u
  <2>3. /\ \A t \in Tokens : session'[t].user \in Users => account'[session'[t].user] = "live" \/ t \in late'
        /\ \A k \in Links : reset'[k] \in Users => account'[reset'[k]] = "live" \/ k \in late'
        /\ \A p \in Projects : owner'[p] \in Users => account'[owner'[p]] = "live" \/ p \in late'
    BY <2>1, <2>2, IdleType DEF NamesLiveOnes
  <2>4. \A q \in Reqs :
          /\ req'[q].pc \in {"wipe", "wipe_grants", "erase"} =>
               \A p \in Projects : owner'[p] = req'[q].user => p \in req'[q].todo \/ p \in late'
          /\ req'[q].pc = "erase" => req'[q].todo = {}
    BY <2>1, IdleType DEF NamesLiveOnes
  <2> QED
    BY <2>3, <2>4 DEF NamesLiveOnes
<1>24. ASSUME NEW c \in Procs, Restart(c) PROVE NamesLiveOnes'
  <2>1. /\ \A q \in Reqs : req'[q] = req[q] \/ req'[q] = Idle
        /\ UNCHANGED <<account, session, reset, owner, late>>
    BY <1>24 DEF Restart, hist
  <2> QED
    BY <2>1, IdleType DEF NamesLiveOnes
<1>25. CASE UNCHANGED vars
  BY <1>15, <1>25 DEF vars, hist
<1> QED
  BY <1>1, <1>2, <1>3, <1>4, <1>5, <1>6, <1>7, <1>8, <1>9, <1>10, <1>11, <1>12, <1>13, <1>14,
     <1>16, <1>17, <1>18, <1>19, <1>20, <1>21, <1>22, <1>23, <1>24, <1>25
     DEF Next, Authentication, Sharing, Deletion

-----------------------------------------------------------------------------
(* Which requests a step leaves alone.                                        *)

\* The steps of passwords, sessions and sign-on write no grants, and no request is
\* about to write any that was not.
LEMMA AuthenticationLeavesGrants ==
  ASSUME TypeOK, Authentication
  PROVE  /\ UNCHANGED <<grants, cache, revoked>>
         /\ \A q \in Reqs : req'[q].pc \in Editing => req'[q] = req[q]
<1> DEFINE Goal == /\ UNCHANGED <<grants, cache, revoked>>
                   /\ \A q \in Reqs : req'[q].pc \in Editing => req'[q] = req[q]
<1>1. ASSUME NEW r \in Reqs, NEW c \in Procs, NEW u \in Users,
             \/ Register(r, c, u) \/ Login(r, c, u)
             \/ \E l \in Logins, tok \in IdTokens : SsoCallback(r, c, l, u, tok)
      PROVE  Goal
  <2>1. req'[r].pc = "session" /\ \A q \in Reqs \ {r} : req'[q] = req[q]
    BY <1>1, BegunSession
  <2>2. UNCHANGED <<grants, cache, revoked>>
    BY <1>1 DEF Register, Login, SsoCallback, hist
  <2> QED
    BY <2>1, <2>2 DEF Editing
<1>2. ASSUME NEW r \in Reqs, NEW c, NEW u, NEW pc \in {"link", "prove", "password"}, NEW aim,
             Start(r, Step(pc, aim, c, u))
      PROVE  \A q \in Reqs : req'[q].pc \in Editing => req'[q] = req[q]
  <2>1. req'[r].pc = pc /\ \A q \in Reqs \ {r} : req'[q] = req[q]
    BY <1>2, Begun
  <2> QED
    BY <2>1 DEF Editing
<1>3. ASSUME NEW r \in Reqs, NEW c \in Procs, NEW u \in Users, ForgotPassword(r, c, u) PROVE Goal
  BY <1>2, <1>3 DEF ForgotPassword, hist
<1>4. ASSUME NEW r \in Reqs, NEW c \in Procs, NEW u \in Users, NEW aim \in {"change", "delete"},
             AskPassword(r, c, u, aim) PROVE Goal
  BY <1>2, <1>4 DEF AskPassword, hist
<1>5. ASSUME NEW r \in Reqs, NEW c \in Procs, NEW k \in Links, RedeemLink(r, c, k) PROVE Goal
  BY <1>2, <1>5 DEF RedeemLink, hist
<1>6. ASSUME NEW r \in Reqs, Answer(r) PROVE \A q \in Reqs : req'[q].pc \in Editing => req'[q] = req[q]
  BY <1>6, IdleType DEF Answer, TypeOK, Editing
<1>7. ASSUME NEW r \in Reqs, CreateSession(r) \/ SendLink(r) PROVE Goal
  BY <1>6, <1>7 DEF CreateSession, SendLink, hist
<1>8. ASSUME NEW r \in Reqs, ProvePassword(r) \/ SetPassword(r) \/ SignOut(r) PROVE Goal
  <2>1. UNCHANGED <<grants, cache, revoked>>
    BY <1>8 DEF ProvePassword, SetPassword, SignOut, hist
  <2>2. CASE Answer(r)
    BY <1>6, <2>1, <2>2
  <2>3. CASE ~Answer(r)
    <3>1. /\ req'[r].pc \in {"list", "password", "signout", "session"}
          /\ \A q \in Reqs \ {r} : req'[q] = req[q]
      BY <1>8, <2>3 DEF ProvePassword, SetPassword, SignOut, Goto, TypeOK, Calls
    <3> QED
      BY <2>1, <3>1 DEF Editing
  <2> QED
    BY <2>2, <2>3
<1>9. ASSUME NEW t \in Tokens, Expire(t) \/ DeleteSession(t) PROVE Goal
  BY <1>9 DEF Expire, DeleteSession, hist
<1>10. ASSUME NEW k \in Links, LinkLapses(k) PROVE Goal
  BY <1>10 DEF LinkLapses, hist
<1>11. ASSUME NEW c \in Procs, NEW l \in Logins,
              SsoLogin(c, l) \/ DropLogin(c, l) \/ \E tok \in IdTokens : SsoRefused(c, l, tok)
       PROVE  Goal
  BY <1>11 DEF SsoLogin, DropLogin, SsoRefused, hist
<1> QED
  BY <1>1, <1>3, <1>4, <1>5, <1>7, <1>8, <1>9, <1>10, <1>11 DEF Authentication

Opening == {"session", "signout"}

\* The steps of projects, grants and deletion set no password, open no session, and
\* no request is about to that was not.
LEMMA SharingLeavesPasswords ==
  ASSUME TypeOK, CallsKnow, Sharing \/ Deletion
  PROVE  /\ UNCHANGED <<version, settled>>
         /\ \A u \in Users : account'[u] = "free" => account[u] = "free"
         /\ \A t \in Tokens : session'[t] = session[t] \/ session'[t] = NoRow
         /\ \A q \in Reqs : req'[q].pc \in Opening => req'[q] = req[q]
<1> DEFINE Left == UNCHANGED <<account, version, session, settled>>
           Kept == \A q \in Reqs : req'[q].pc \in Opening => req'[q] = req[q]
<1>1. ASSUME NEW r \in Reqs, NEW c \in Procs, NEW u \in Users, AskProject(r, c, u) PROVE Left /\ Kept
  <2>1. req'[r].pc = "create" /\ \A q \in Reqs \ {r} : req'[q] = req[q]
    BY <1>1, Begun DEF AskProject
  <2> QED
    BY <1>1, <2>1 DEF AskProject, hist, Opening
<1>2. ASSUME NEW r \in Reqs, NEW c \in Procs, NEW u \in Users, NEW p \in Projects,
             NEW aim \in {"grant", "revoke", "remove"}, NEW w, NEW role, AskAdmin(r, c, u, p, aim, w, role)
      PROVE  Left /\ Kept
  <2>1. req'[r].pc = aim /\ \A q \in Reqs \ {r} : req'[q] = req[q]
    BY <1>2, BegunAdmin
  <2> QED
    BY <1>2, <2>1 DEF AskAdmin, hist, Opening
<1>3. ASSUME NEW r \in Reqs, Answer(r) PROVE Kept
  BY <1>3, IdleType DEF Answer, TypeOK, Opening
<1>4. ASSUME NEW r \in Reqs, NEW pc \in {"grant_row", "revoke_row", "drop", "erase"}, Goto(r, pc)
      PROVE  Kept
  BY <1>4 DEF Goto, TypeOK, Calls, Opening
<1>5. ASSUME NEW r \in Reqs, CreateProject(r) \/ GrantRow(r) \/ RevokeRow(r) \/ DropProject(r)
      PROVE  Left /\ Kept
  BY <1>3, <1>5 DEF CreateProject, GrantRow, RevokeRow, DropProject, hist
<1>6. ASSUME NEW r \in Reqs, GrantCache(r) \/ RevokeCache(r) \/ RemoveProject(r) \/ DropGrants(r)
      PROVE  Left /\ Kept
  BY <1>3, <1>4, <1>6 DEF GrantCache, RevokeCache, RemoveProject, DropGrants, hist
<1>7. ASSUME NEW r \in Reqs, ListOwned(r) \/ WipeProject(r) \/ WipeGrants(r) PROVE Left /\ Kept
  <2>1. /\ req'[r].pc \in {"wipe", "wipe_grants"} /\ \A q \in Reqs \ {r} : req'[q] = req[q]
    <3>1. CASE ListOwned(r)
      BY <3>1 DEF ListOwned, TypeOK, Calls
    <3>2. CASE WipeProject(r)
      BY <3>2 DEF WipeProject, TypeOK, Calls
    <3>3. CASE WipeGrants(r)
      BY <3>3 DEF WipeGrants, TypeOK, Calls
    <3> QED
      BY <1>7, <3>1, <3>2, <3>3
  <2> QED
    BY <1>7, <2>1 DEF ListOwned, WipeProject, WipeGrants, hist, Opening
<1>8. ASSUME NEW r \in Reqs, EraseAccount(r)
      PROVE  /\ UNCHANGED <<version, settled>> /\ Kept
             /\ \A u \in Users : account'[u] = "free" => account[u] = "free"
             /\ \A t \in Tokens : session'[t] = session[t] \/ session'[t] = NoRow
  <2>1. Kept /\ UNCHANGED <<version, settled>>
    BY <1>3, <1>8 DEF EraseAccount, hist
  <2> QED
    BY <1>8, <2>1 DEF EraseAccount, delete_sessions_for_user, TypeOK
<1>9. CASE Sharing
  <2>1. Left /\ Kept
    BY <1>1, <1>2, <1>5, <1>6, <1>9 DEF Sharing
  <2> QED
    BY <2>1
<1>10. CASE Deletion
  <2>1. (Left /\ Kept) \/ \E r \in Reqs : EraseAccount(r)
    BY <1>6, <1>7, <1>10 DEF Deletion
  <2> QED
    BY <1>8, <2>1
<1> QED
  BY <1>9, <1>10

-----------------------------------------------------------------------------
(* Passwords and sessions.                                                    *)

\* A step that sets and settles no password, opens no session and lets no request
\* come nearer to opening one keeps passwords safe.
LEMMA SafeWhenStill ==
  ASSUME TypeOK, CallsKnow, PasswordIsSafe, UNCHANGED <<version, settled>>,
         \A u \in Users : account'[u] = "free" => account[u] = "free",
         \A q \in Reqs : req'[q].pc \in Opening => req'[q] = req[q],
         \A t \in Tokens : session'[t].user \in Users =>
           session'[t].user = session[t].user /\ session'[t].ver = session[t].ver
  PROVE  PasswordIsSafe'
<1>1. \A u \in Users : settled'[u] <= version'[u] /\ (account'[u] = "free" => version'[u] = 0)
  BY DEF PasswordIsSafe, Opening
<1>2. \A q \in Reqs : /\ req'[q].pc \in Opening => req'[q].ver >= settled'[req'[q].user]
                      /\ req'[q].pc = "signout" => req'[q].ver <= version'[req'[q].user]
  BY DEF PasswordIsSafe, Opening
<1>3. NoSessionFromBefore'
  BY DEF PasswordIsSafe, NoSessionFromBefore
<1> QED
  BY <1>1, <1>2, <1>3 DEF PasswordIsSafe, Opening

\* Every step keeps passwords safe: signing the account out settles a password only
\* when no request of it is about to open a session on an earlier one.
LEMMA PasswordStep ==
  ASSUME TypeOK, CallsKnow, PasswordIsSafe, [Next]_vars
  PROVE  PasswordIsSafe'
<1> USE AccessAssumption
<1>1. ASSUME NEW r \in Reqs, NEW c \in Procs, NEW u \in Users, Register(r, c, u) PROVE PasswordIsSafe'
  <2>1. /\ req[r] = Idle /\ req'[r].pc = "session" /\ req'[r].user = u /\ req'[r].ver = version'[u]
        /\ \A q \in Reqs \ {r} : req'[q] = req[q]
    BY <1>1, BegunSession
  <2>2. /\ version[u] = 0 /\ settled[u] = 0 /\ UNCHANGED <<settled, session>>
        /\ \A v \in Users : version'[v] = IF v = u THEN 1 ELSE version[v]
        /\ \A v \in Users : account'[v] = IF v = u THEN "live" ELSE account[v]
    BY <1>1 DEF Register, hist, PasswordIsSafe, TypeOK
  <2>3. \A v \in Users : version[v] \in Nat /\ settled[v] \in Nat
    BY DEF TypeOK
  <2>4. \A v \in Users : settled'[v] <= version'[v] /\ (account'[v] = "free" => version'[v] = 0)
    BY <2>2, <2>3 DEF PasswordIsSafe, Opening
  <2>5. \A q \in Reqs : req[q].pc # "idle" => req[q].user \in Users /\ req[q].ver \in Nat
    BY DEF CallsKnow, TypeOK, Calls
  <2>6. \A q \in Reqs : /\ req'[q].pc \in Opening => req'[q].ver >= settled'[req'[q].user]
                        /\ req'[q].pc = "signout" => req'[q].ver <= version'[req'[q].user]
    BY <2>1, <2>2, <2>3, <2>5 DEF PasswordIsSafe, Opening
  <2>7. NoSessionFromBefore'
    BY <2>2 DEF PasswordIsSafe, NoSessionFromBefore
  <2> QED
    BY <2>4, <2>6, <2>7 DEF PasswordIsSafe, Opening
<1>2. ASSUME NEW r \in Reqs, NEW c \in Procs, NEW u \in Users,
             Login(r, c, u) \/ \E l \in Logins, tok \in IdTokens : SsoCallback(r, c, l, u, tok)
      PROVE  PasswordIsSafe'
  <2>1. /\ req[r] = Idle /\ req'[r].pc = "session" /\ req'[r].user = u /\ req'[r].ver = version'[u]
        /\ \A q \in Reqs \ {r} : req'[q] = req[q]
    BY <1>2, BegunSession
  <2>2. /\ UNCHANGED <<version, settled, session>>
        /\ \A v \in Users : account'[v] = "free" => account[v] = "free"
    BY <1>2 DEF Login, SsoCallback, hist, TypeOK
  <2>3. \A v \in Users : version[v] \in Nat /\ settled[v] \in Nat /\ version[v] >= settled[v]
    BY DEF TypeOK, PasswordIsSafe
  <2>4. \A q \in Reqs : /\ req'[q].pc \in Opening => req'[q].ver >= settled'[req'[q].user]
                        /\ req'[q].pc = "signout" => req'[q].ver <= version'[req'[q].user]
    BY <2>1, <2>2, <2>3 DEF PasswordIsSafe, Opening
  <2> QED
    BY <2>2, <2>4 DEF PasswordIsSafe, NoSessionFromBefore, Opening
<1>3. ASSUME NEW r \in Reqs, NEW c, NEW u, NEW pc \in {"link", "prove", "password"}, NEW aim,
             Start(r, Step(pc, aim, c, u)), UNCHANGED <<account, version, settled, session>>
      PROVE  PasswordIsSafe'
  <2>1. req'[r].pc = pc /\ \A q \in Reqs \ {r} : req'[q] = req[q]
    BY <1>3, Begun
  <2>2. \A q \in Reqs : req'[q].pc \in Opening => req'[q] = req[q]
    BY <2>1 DEF Opening
  <2> QED
    BY <1>3, <2>2, SafeWhenStill
<1>4. ASSUME NEW r \in Reqs, NEW c \in Procs, NEW u \in Users, ForgotPassword(r, c, u) PROVE PasswordIsSafe'
  BY <1>3, <1>4 DEF ForgotPassword, hist
<1>5. ASSUME NEW r \in Reqs, NEW c \in Procs, NEW u \in Users, NEW aim \in {"change", "delete"},
             AskPassword(r, c, u, aim) PROVE PasswordIsSafe'
  BY <1>3, <1>5 DEF AskPassword, hist
<1>6. ASSUME NEW r \in Reqs, NEW c \in Procs, NEW k \in Links, RedeemLink(r, c, k) PROVE PasswordIsSafe'
  BY <1>3, <1>6 DEF RedeemLink, hist
<1>7. ASSUME NEW r \in Reqs, CreateSession(r) PROVE PasswordIsSafe'
  <2>1. PICK t \in Tokens : session' = [session EXCEPT ![t] = [user |-> req[r].user, ver |-> req[r].ver,
                                                              expired |-> FALSE]]
    BY <1>7 DEF CreateSession
  <2>2. /\ session'[t].user = req[r].user /\ session'[t].ver = req[r].ver
        /\ \A x \in Tokens \ {t} : session'[x] = session[x]
    BY <2>1 DEF TypeOK
  <2>3. /\ req[r].pc = "session" /\ UNCHANGED <<account, version, settled>>
        /\ req'[r].pc = "idle" /\ \A q \in Reqs \ {r} : req'[q] = req[q]
    BY <1>7, IdleType DEF CreateSession, Answer, hist, TypeOK
  <2>4. NoSessionFromBefore'
    BY <2>2, <2>3 DEF PasswordIsSafe, NoSessionFromBefore
  <2> QED
    BY <2>3, <2>4 DEF PasswordIsSafe, Opening
<1>8. ASSUME NEW r \in Reqs, SendLink(r) \/ ProvePassword(r) PROVE PasswordIsSafe'
  <2>1. UNCHANGED <<account, version, settled, session>>
    BY <1>8 DEF SendLink, ProvePassword, hist
  <2>2. req'[r].pc \in {"idle", "list", "password"} /\ \A q \in Reqs \ {r} : req'[q] = req[q]
    BY <1>8, IdleType DEF SendLink, ProvePassword, Goto, Answer, TypeOK, Calls
  <2>3. \A q \in Reqs : req'[q].pc \in Opening => req'[q] = req[q]
    BY <2>2 DEF Opening
  <2> QED
    BY <2>1, <2>3, SafeWhenStill
<1>9. ASSUME NEW r \in Reqs, SetPassword(r) PROVE PasswordIsSafe'
  <2>1. CASE Answer(r) /\ UNCHANGED version
    <3>1. UNCHANGED <<account, version, settled, session>>
      BY <1>9, <2>1 DEF SetPassword, hist
    <3>2. \A q \in Reqs : req'[q].pc \in Opening => req'[q] = req[q]
      BY <2>1, IdleType DEF Answer, TypeOK, Opening
    <3> QED
      BY <3>1, <3>2, SafeWhenStill
  <2>2. CASE ~(Answer(r) /\ UNCHANGED version)
    <3> DEFINE u == req[r].user
               v == IF account[u] = "live" THEN version[u] + 1 ELSE version[u]
    <3>1. /\ req[r].pc = "password" /\ UNCHANGED <<account, session, settled>>
          /\ version' = [version EXCEPT ![u] = v]
          /\ req' = [req EXCEPT ![r].pc = "signout", ![r].ver = v]
      BY <1>9, <2>2 DEF SetPassword, hist
    <3>2. u \in Users /\ version[u] \in Nat
      BY <3>1 DEF CallsKnow, TypeOK
    <3>3. v \in Nat /\ version[u] <= v /\ (account[u] = "free" => v = version[u])
      BY <3>2
    <3> HIDE DEF v
    <3>4. req'[r].pc = "signout" /\ req'[r].user = u /\ req'[r].ver = v
      BY <3>1 DEF TypeOK, Calls
    <3> HIDE DEF u
    <3>5. /\ version'[u] = v /\ \A w \in Users \ {u} : version'[w] = version[w]
          /\ \A q \in Reqs \ {r} : req'[q] = req[q]
      BY <3>1, <3>2 DEF TypeOK
    <3>6. \A w \in Users : version[w] \in Nat /\ settled[w] \in Nat
      BY DEF TypeOK
    <3>7. \A w \in Users : settled'[w] <= version'[w] /\ (account'[w] = "free" => version'[w] = 0)
      BY <3>1, <3>3, <3>5, <3>6 DEF PasswordIsSafe, Opening
    <3>8. \A q \in Reqs : req[q].pc # "idle" => req[q].user \in Users /\ req[q].ver \in Nat
      BY DEF CallsKnow, TypeOK, Calls
    <3>9. \A q \in Reqs : req'[q].pc = "signout" => req'[q].ver <= version'[req'[q].user]
      BY <3>3, <3>4, <3>5, <3>6, <3>8 DEF PasswordIsSafe, Opening
    <3>10. \A q \in Reqs : req'[q].pc \in Opening => req'[q].ver >= settled'[req'[q].user]
      <4>1. v >= settled[u] /\ settled' = settled
        BY <3>1, <3>2, <3>3, <3>6 DEF PasswordIsSafe
      <4> QED
        BY <3>4, <3>5, <4>1 DEF PasswordIsSafe, Opening
    <3> QED
      BY <3>1, <3>7, <3>9, <3>10 DEF PasswordIsSafe, NoSessionFromBefore, Opening
  <2> QED
    BY <2>1, <2>2
<1>10. ASSUME NEW r \in Reqs, SignOut(r) PROVE PasswordIsSafe'
  <2> DEFINE u == req[r].user
  <2>1. /\ req[r].pc = "signout" /\ UNCHANGED <<account, version>> /\ u \in Users
        /\ \A t \in Tokens : session'[t] = IF session[t].user = u THEN NoRow ELSE session[t]
    BY <1>10 DEF SignOut, delete_sessions_for_user, CallsKnow, TypeOK
  <2>2. req'[r].pc # "idle" => req'[r].pc = "session" /\ req'[r].user = u /\ req'[r].ver = req[r].ver
    BY <1>10, IdleType DEF SignOut, Answer, TypeOK, Calls
  <2>3. \A q \in Reqs \ {r} : req'[q] = req[q]
    BY <1>10 DEF SignOut, Answer, TypeOK
  <2>4. \A q \in Reqs : req[q].pc # "idle" => req[q].user \in Users /\ req[q].ver \in Nat
    BY DEF CallsKnow, TypeOK, Calls
  <2>5. req[r].ver <= version[u] /\ req[r].ver >= settled[u] /\ req[r].ver \in Nat
    BY <2>1, <2>4 DEF PasswordIsSafe
  <2>6. \A w \in Users : settled[w] \in Nat /\ version[w] \in Nat
    BY DEF TypeOK
  <2>7. \A w \in Users : settled'[w] = settled[w] \/ (w = u /\ settled'[w] = req[r].ver)
    BY <1>10 DEF SignOut, TypeOK
  <2>8. settled'[u] = settled[u]
        \/ \A q \in Reqs : req[q].pc \in Opening /\ req[q].user = u => ~(req[q].ver < req[r].ver)
    BY <1>10 DEF SignOut, OlderInFlight, Opening
  <2> HIDE DEF u
  <2>9. \A w \in Users : settled'[w] <= version'[w] /\ (account'[w] = "free" => version'[w] = 0)
    BY <2>1, <2>5, <2>6, <2>7 DEF PasswordIsSafe
  <2>10. \A q \in Reqs : req[q].pc \in Opening => req[q].ver >= settled'[req[q].user]
    <3>1. SUFFICES ASSUME NEW q \in Reqs, req[q].pc \in Opening PROVE req[q].ver >= settled'[req[q].user]
      OBVIOUS
    <3>2. req[q].user \in Users /\ req[q].ver \in Nat /\ req[q].ver >= settled[req[q].user]
      BY <2>4, <3>1 DEF PasswordIsSafe, Opening
    <3>3. CASE settled'[req[q].user] = settled[req[q].user]
      BY <3>2, <3>3
    <3>4. CASE settled'[req[q].user] # settled[req[q].user]
      <4>1. req[q].user = u /\ settled'[u] = req[r].ver /\ ~(req[q].ver < req[r].ver)
        BY <2>7, <2>8, <3>1, <3>2, <3>4
      <4> QED
        BY <2>5, <3>2, <4>1
    <3> QED
      BY <3>3, <3>4
  <2>11. ASSUME NEW q \in Reqs
        PROVE  /\ req'[q].pc \in Opening => req'[q].ver >= settled'[req'[q].user]
               /\ req'[q].pc = "signout" => req'[q].ver <= version'[req'[q].user]
    <3>1. CASE q = r
      <4>1. req[r].pc \in Opening /\ "idle" \notin Opening /\ req[r].user = u
        BY <2>1 DEF Opening, u
      <4> QED
        BY <2>2, <2>10, <3>1, <4>1
    <3>2. CASE q # r
      BY <2>1, <2>3, <2>10, <3>2 DEF PasswordIsSafe
    <3> QED
      BY <3>1, <3>2
  <2>12. NoSessionFromBefore'
    <3>1. SUFFICES ASSUME NEW t \in Tokens, session'[t].user \in Users
                   PROVE  session'[t].ver >= settled'[session'[t].user]
      BY DEF NoSessionFromBefore
    <3>2. session[t].user # u /\ session'[t] = session[t]
      BY <2>1, <3>1, IdleType
    <3>3. settled'[session[t].user] = settled[session[t].user]
      BY <2>7, <3>1, <3>2
    <3> QED
      BY <3>1, <3>2, <3>3 DEF PasswordIsSafe, NoSessionFromBefore
  <2> QED
    BY <2>9, <2>11, <2>12 DEF PasswordIsSafe, Opening
<1>11. ASSUME NEW t \in Tokens, Expire(t) PROVE PasswordIsSafe'
  <2>1. session' = [session EXCEPT ![t].expired = TRUE] /\ UNCHANGED <<account, version, settled, req>>
    BY <1>11 DEF Expire, hist
  <2>2. \A x \in Tokens : session'[x].user = session[x].user /\ session'[x].ver = session[x].ver
    BY <2>1 DEF TypeOK, Sessions
  <2> QED
    BY <2>1, <2>2 DEF PasswordIsSafe, NoSessionFromBefore
<1>12. ASSUME NEW t \in Tokens, DeleteSession(t) PROVE PasswordIsSafe'
  <2>1. session' = [session EXCEPT ![t] = NoRow] /\ UNCHANGED <<account, version, settled, req>>
    BY <1>12 DEF DeleteSession, hist
  <2>2. \A x \in Tokens : session'[x] = session[x] \/ session'[x].user = NoOne
    BY <2>1, IdleType DEF TypeOK
  <2> QED
    BY <2>1, <2>2 DEF PasswordIsSafe, NoSessionFromBefore
<1>13. ASSUME UNCHANGED <<account, version, settled, session, req>> PROVE PasswordIsSafe'
  BY <1>13 DEF PasswordIsSafe, NoSessionFromBefore
<1>14. ASSUME NEW k \in Links, LinkLapses(k) PROVE PasswordIsSafe'
  BY <1>13, <1>14 DEF LinkLapses, hist
<1>15. ASSUME NEW c \in Procs, NEW l \in Logins,
              SsoLogin(c, l) \/ DropLogin(c, l) \/ \E tok \in IdTokens : SsoRefused(c, l, tok)
       PROVE  PasswordIsSafe'
  BY <1>13, <1>15 DEF SsoLogin, DropLogin, SsoRefused, hist
<1>16. CASE Sharing \/ Deletion
  BY <1>16, SharingLeavesPasswords, SafeWhenStill, IdleType
<1>17. ASSUME NEW c \in Procs, Restart(c) PROVE PasswordIsSafe'
  <2>1. /\ \A q \in Reqs : req'[q] = req[q] \/ req'[q] = Idle
        /\ UNCHANGED <<account, version, settled, session>>
    BY <1>17 DEF Restart, hist
  <2>2. \A q \in Reqs : req'[q].pc \in Opening => req'[q] = req[q]
    BY <2>1, IdleType DEF Opening
  <2> QED
    BY <2>1, <2>2, SafeWhenStill
<1>18. CASE UNCHANGED vars
  BY <1>13, <1>18 DEF vars, hist
<1> QED
  BY <1>1, <1>2, <1>4, <1>5, <1>6, <1>7, <1>8, <1>9, <1>10, <1>11, <1>12, <1>14, <1>15, <1>16,
     <1>17, <1>18 DEF Next, Authentication

-----------------------------------------------------------------------------
(* Grants.                                                                    *)

\* A step that grants nothing, takes nothing back and lets no request come nearer
\* to writing a row keeps what was revoked safe.
LEMMA SafeWhenQuiet ==
  ASSUME TypeOK, CallsKnow, RevokedIsSafe, UNCHANGED revoked,
         \A c \in Procs : \A p \in Projects : \A u \in Users :
           cache[c][p][u] = "none" => cache'[c][p][u] = "none",
         \A p \in Projects : \A u \in Users : grants[p][u] = "none" => grants'[p][u] = "none",
         \A q \in Reqs : req'[q].pc = "grant_row" => req'[q] = req[q]
  PROVE  RevokedIsSafe'
<1>1. \A c \in Procs : \A g \in revoked[c] : g[1] \in Projects /\ g[2] \in Users
  BY DEF TypeOK
<1>2. \A c \in Procs : \A g \in revoked'[c] :
        cache'[c][g[1]][g[2]] = "none" /\ grants'[g[1]][g[2]] = "none"
  BY <1>1 DEF RevokedIsSafe
<1> QED
  BY <1>2 DEF RevokedIsSafe

\* Dropping a project's grants makes none.
LEMMA DropStep ==
  ASSUME TypeOK, NEW d \in Procs, NEW x \in Projects, Drop(d, x)
  PROVE  /\ \A c \in Procs : \A p \in Projects : \A u \in Users :
              cache[c][p][u] = "none" => cache'[c][p][u] = "none"
         /\ \A p \in Projects : \A u \in Users : grants[p][u] = "none" => grants'[p][u] = "none"
<1>1. \A u \in Users : NoGrants[x][u] = "none"
  BY DEF NoGrants
<1>2. \A p \in Projects : grants'[p] = IF p = x THEN NoGrants[x] ELSE grants[p]
  BY DEF Drop, TypeOK, Members
<1>3. cache' = [cache EXCEPT ![d] = [cache[d] EXCEPT ![x] = NoGrants[x]]]
  BY DEF Drop, TypeOK, Members
<1>4. \A c \in Procs : \A p \in Projects :
        cache'[c][p] = IF c = d /\ p = x THEN NoGrants[x] ELSE cache[c][p]
  BY <1>3 DEF TypeOK, Members
<1> QED
  BY <1>1, <1>2, <1>4

\* One cell of a cache, and one row of the table, is written.
WritesCell(d, x, w, role) == cache' = [cache EXCEPT ![d][x][w] = role]
WritesRow(x, w, role) == grants' = [grants EXCEPT ![x][w] = role]

\* The other cells of every cache are as before.
LEMMA CellStep ==
  ASSUME TypeOK, NEW d \in Procs, NEW x \in Projects, NEW w \in Users, NEW role,
         WritesCell(d, x, w, role)
  PROVE  \A c \in Procs : \A p \in Projects : \A v \in Users :
           cache'[c][p][v] = IF c = d /\ p = x /\ v = w THEN role ELSE cache[c][p][v]
<1>1. cache[d] \in Members /\ cache[d][x] \in [Users -> Roles]
  BY DEF TypeOK, Members
<1>2. cache' = [cache EXCEPT ![d] = [cache[d] EXCEPT ![x] = [cache[d][x] EXCEPT ![w] = role]]]
  BY DEF WritesCell
<1>3. cache'[d] = [cache[d] EXCEPT ![x] = [cache[d][x] EXCEPT ![w] = role]]
      /\ \A c \in Procs \ {d} : cache'[c] = cache[c]
  BY <1>2 DEF TypeOK
<1>4. cache'[d][x] = [cache[d][x] EXCEPT ![w] = role] /\ \A p \in Projects \ {x} : cache'[d][p] = cache[d][p]
  BY <1>1, <1>3 DEF Members
<1> QED
  BY <1>1, <1>3, <1>4

\* The other rows are as before.
LEMMA RowStep ==
  ASSUME TypeOK, NEW x \in Projects, NEW w \in Users, NEW role, WritesRow(x, w, role)
  PROVE  \A p \in Projects : \A v \in Users :
           grants'[p][v] = IF p = x /\ v = w THEN role ELSE grants[p][v]
<1>1. grants[x] \in [Users -> Roles]
  BY DEF TypeOK, Members
<1>2. grants'[x] = [grants[x] EXCEPT ![w] = role] /\ \A p \in Projects \ {x} : grants'[p] = grants[p]
  BY DEF TypeOK, Members, WritesRow
<1> QED
  BY <1>1, <1>2

\* Every step keeps what was revoked safe: a grant is no longer taken back from the
\* moment it is made anew, long before its row is written, and a process that
\* restarts reads the rows.
LEMMA RevokedStep ==
  ASSUME TypeOK, CallsKnow, RevokedIsSafe, [Next]_vars
  PROVE  RevokedIsSafe'
<1> USE AccessAssumption
<1> DEFINE Same == UNCHANGED <<revoked, cache, grants>>
           Kept == \A q \in Reqs : req'[q].pc = "grant_row" => req'[q] = req[q]
<1>1. ASSUME Same, Kept PROVE RevokedIsSafe'
  BY <1>1, SafeWhenQuiet
<1>2. CASE Authentication
  BY <1>1, <1>2, AuthenticationLeavesGrants DEF Editing
<1>3. ASSUME NEW r \in Reqs, NEW c \in Procs, NEW u \in Users, AskProject(r, c, u) PROVE RevokedIsSafe'
  <2>1. req'[r].pc = "create" /\ \A q \in Reqs \ {r} : req'[q] = req[q]
    BY <1>3, Begun DEF AskProject
  <2> QED
    BY <1>1, <1>3, <2>1 DEF AskProject, hist
<1>4. ASSUME NEW r \in Reqs, NEW c \in Procs, NEW u \in Users, NEW p \in Projects,
             NEW aim \in {"grant", "revoke", "remove"}, NEW w, NEW role, AskAdmin(r, c, u, p, aim, w, role)
      PROVE  RevokedIsSafe'
  <2>1. req'[r].pc = aim /\ \A q \in Reqs \ {r} : req'[q] = req[q]
    BY <1>4, BegunAdmin
  <2> QED
    BY <1>1, <1>4, <2>1 DEF AskAdmin, hist
<1>5. ASSUME NEW r \in Reqs, Answer(r) PROVE Kept
  BY <1>5, IdleType DEF Answer, TypeOK
<1>6. ASSUME NEW r \in Reqs, CreateProject(r) \/ EraseAccount(r) PROVE RevokedIsSafe'
  BY <1>1, <1>5, <1>6 DEF CreateProject, EraseAccount, hist
<1>7. ASSUME NEW r \in Reqs, NEW pc \in {"drop", "erase"}, Goto(r, pc) PROVE Kept
  BY <1>7 DEF Goto, TypeOK, Calls
<1>8. ASSUME NEW r \in Reqs, RemoveProject(r) PROVE RevokedIsSafe'
  BY <1>1, <1>5, <1>7, <1>8 DEF RemoveProject, hist
<1>9. ASSUME NEW r \in Reqs, ListOwned(r) \/ WipeProject(r) PROVE RevokedIsSafe'
  <2>1. req'[r].pc \in {"wipe", "wipe_grants"} /\ \A q \in Reqs \ {r} : req'[q] = req[q]
    <3>1. CASE ListOwned(r)
      BY <3>1 DEF ListOwned, TypeOK, Calls
    <3>2. CASE WipeProject(r)
      BY <3>2 DEF WipeProject, TypeOK, Calls
    <3> QED
      BY <1>9, <3>1, <3>2
  <2>2. Same /\ Kept
    BY <1>9, <2>1 DEF ListOwned, WipeProject, hist
  <2> QED
    BY <1>1, <2>2
<1>10. ASSUME NEW r \in Reqs, DropProject(r) PROVE RevokedIsSafe'
  <2>1. Kept /\ UNCHANGED revoked
    BY <1>5, <1>10 DEF DropProject, hist
  <2>2. req[r].proc \in Procs /\ req[r].proj \in Projects /\ Drop(req[r].proc, req[r].proj)
    BY <1>10 DEF DropProject, CallsKnow
  <2> QED
    BY <2>1, <2>2, DropStep, SafeWhenQuiet
<1>11. ASSUME NEW r \in Reqs, WipeGrants(r) PROVE RevokedIsSafe'
  <2>1. req'[r].pc = "wipe" /\ UNCHANGED revoked /\ \A q \in Reqs \ {r} : req'[q] = req[q]
    BY <1>11 DEF WipeGrants, TypeOK, Calls, hist
  <2>2. req[r].proc \in Procs /\ req[r].proj \in Projects /\ Drop(req[r].proc, req[r].proj)
    BY <1>11 DEF WipeGrants, CallsKnow
  <2>3. Kept
    BY <2>1
  <2> QED
    BY <2>1, <2>2, <2>3, DropStep, SafeWhenQuiet
<1>12. ASSUME NEW r \in Reqs, DropGrants(r) PROVE RevokedIsSafe'
  <2> DEFINE d == req[r].proc
             u == req[r].user
             shared == projects_for(d, u)
  <2>1. d \in Procs /\ u \in Users /\ UNCHANGED revoked /\ Kept
    BY <1>7, <1>12 DEF DropGrants, CallsKnow, hist
  <2>2. /\ cache' = [cache EXCEPT ![d] =
                       [p \in Projects |-> IF p \in shared THEN [cache[d][p] EXCEPT ![u] = "none"]
                                           ELSE cache[d][p]]]
        /\ grants' = [p \in Projects |-> IF p \in shared THEN [grants[p] EXCEPT ![u] = "none"]
                                         ELSE grants[p]]
    BY <1>12 DEF DropGrants
  <2> HIDE DEF d, u, shared
  <2>3. \A p \in Projects : grants[p] \in [Users -> Roles] /\ cache[d][p] \in [Users -> Roles]
    BY <2>1 DEF TypeOK, Members
  <2>4. \A p \in Projects : \A v \in Users : grants[p][v] = "none" => grants'[p][v] = "none"
    BY <2>2, <2>3
  <2>5. \A p \in Projects : \A v \in Users : cache[d][p][v] = "none" => cache'[d][p][v] = "none"
    BY <2>1, <2>2, <2>3 DEF TypeOK
  <2>6. \A c \in Procs \ {d} : cache'[c] = cache[c]
    BY <2>2 DEF TypeOK
  <2>7. \A c \in Procs : \A p \in Projects : \A v \in Users :
          cache[c][p][v] = "none" => cache'[c][p][v] = "none"
    BY <2>5, <2>6
  <2> QED
    BY <2>1, <2>4, <2>7, SafeWhenQuiet
<1>13. ASSUME NEW r \in Reqs, req[r].pc \in Editing
       PROVE  req[r].proc \in Procs /\ req[r].proj \in Projects /\ req[r].whom \in Users
  BY <1>13 DEF CallsKnow, Editing
<1>14. ASSUME NEW c \in Procs, NEW g \in revoked[c] PROVE g[1] \in Projects /\ g[2] \in Users /\ g = <<g[1], g[2]>>
  BY <1>14 DEF TypeOK
<1>16. ASSUME NEW r \in Reqs, GrantCache(r) PROVE RevokedIsSafe'
  <2> DEFINE d == req[r].proc
             x == req[r].proj
             w == req[r].whom
  <2>1. req[r].pc = "grant" /\ UNCHANGED grants /\ revoked' = [c \in Procs |-> revoked[c] \ {<<x, w>>}]
    BY <1>16 DEF GrantCache
  <2>2. d \in Procs /\ x \in Projects /\ w \in Users
    BY <1>13, <2>1 DEF Editing
  <2>3. /\ req'[r].pc = "grant_row" /\ req'[r].proj = x /\ req'[r].whom = w
        /\ \A q \in Reqs \ {r} : req'[q] = req[q]
    BY <1>16 DEF GrantCache, Goto, TypeOK, Calls
  <2>4. \A c \in Procs : \A p \in Projects : \A v \in Users :
          cache'[c][p][v] = IF c = d /\ p = x /\ v = w THEN req[r].role ELSE cache[c][p][v]
    <3>1. WritesCell(d, x, w, req[r].role)
      BY <1>16 DEF GrantCache, WritesCell
    <3> HIDE DEF d, x, w
    <3> QED
      BY <2>2, <3>1, CellStep
  <2> HIDE DEF d, x, w
  <2>5. \A c \in Procs : \A g \in revoked'[c] : g \in revoked[c] /\ g # <<x, w>>
    BY <2>1
  <2>6. ASSUME NEW c \in Procs, NEW g \in revoked'[c]
        PROVE  cache'[c][g[1]][g[2]] = "none" /\ grants'[g[1]][g[2]] = "none"
    <3>1. g \in revoked[c] /\ g[1] \in Projects /\ g[2] \in Users /\ ~(g[1] = x /\ g[2] = w)
      BY <1>14, <2>5
    <3> QED
      BY <2>1, <2>4, <3>1 DEF RevokedIsSafe
  <2>7. \A q \in Reqs \ {r} : req'[q].pc = "grant_row" =>
          \A c \in Procs : <<req'[q].proj, req'[q].whom>> \notin revoked'[c]
    BY <2>3, <2>5 DEF RevokedIsSafe
  <2>8. \A c \in Procs : <<req'[r].proj, req'[r].whom>> \notin revoked'[c]
    BY <2>1, <2>3
  <2> QED
    BY <2>6, <2>7, <2>8 DEF RevokedIsSafe
<1>17. ASSUME NEW r \in Reqs, GrantRow(r) PROVE RevokedIsSafe'
  <2> DEFINE x == req[r].proj
             w == req[r].whom
  <2>1. req[r].pc = "grant_row" /\ UNCHANGED <<cache, revoked>> /\ Kept
    BY <1>5, <1>17 DEF GrantRow, hist
  <2>2. x \in Projects /\ w \in Users /\ \A c \in Procs : <<x, w>> \notin revoked[c]
    BY <1>13, <2>1 DEF Editing, RevokedIsSafe
  <2>3. \A p \in Projects : \A v \in Users :
          grants'[p][v] = IF p = x /\ v = w THEN req[r].role ELSE grants[p][v]
    <3>1. WritesRow(x, w, req[r].role)
      BY <1>17 DEF GrantRow, WritesRow
    <3> HIDE DEF x, w
    <3> QED
      BY <2>2, <3>1, RowStep
  <2> HIDE DEF x, w
  <2>4. ASSUME NEW c \in Procs, NEW g \in revoked[c]
        PROVE  cache[c][g[1]][g[2]] = "none" /\ grants'[g[1]][g[2]] = "none"
    <3>1. g[1] \in Projects /\ g[2] \in Users /\ ~(g[1] = x /\ g[2] = w)
      BY <1>14, <2>2
    <3> QED
      BY <2>3, <3>1 DEF RevokedIsSafe
  <2> QED
    BY <2>1, <2>4 DEF RevokedIsSafe
<1>18. ASSUME NEW r \in Reqs, RevokeCache(r) PROVE RevokedIsSafe'
  <2> DEFINE d == req[r].proc
             x == req[r].proj
             w == req[r].whom
  <2>1. req[r].pc = "revoke" /\ UNCHANGED <<grants, revoked>>
    BY <1>18 DEF RevokeCache, hist
  <2>2. d \in Procs /\ x \in Projects /\ w \in Users
    BY <1>13, <2>1 DEF Editing
  <2>3. CASE cache[d][x][w] = "none"
    BY <1>1, <1>5, <1>18, <2>3 DEF RevokeCache, hist
  <2>4. CASE cache[d][x][w] # "none"
    <3>1. Kept
      BY <1>18, <2>4 DEF RevokeCache, Goto, TypeOK, Calls
    <3>2. \A c \in Procs : \A p \in Projects : \A v \in Users :
            cache'[c][p][v] = IF c = d /\ p = x /\ v = w THEN "none" ELSE cache[c][p][v]
      <4>1. WritesCell(d, x, w, "none")
        BY <1>18, <2>4 DEF RevokeCache, WritesCell
      <4> HIDE DEF d, x, w
      <4> QED
        BY <2>2, <4>1, CellStep
    <3> HIDE DEF d, x, w
    <3>3. \A c \in Procs : \A p \in Projects : \A v \in Users :
            cache[c][p][v] = "none" => cache'[c][p][v] = "none"
      BY <3>2
    <3> QED
      BY <2>1, <3>1, <3>3, SafeWhenQuiet
  <2> QED
    BY <2>3, <2>4
<1>19. ASSUME NEW r \in Reqs, RevokeRow(r) PROVE RevokedIsSafe'
  <2> DEFINE d == req[r].proc
             x == req[r].proj
             w == req[r].whom
  <2>1. req[r].pc = "revoke_row" /\ UNCHANGED cache /\ Kept /\ revoked' = TakenBack(r)
    BY <1>5, <1>19 DEF RevokeRow
  <2>2. d \in Procs /\ x \in Projects /\ w \in Users
    BY <1>13, <2>1 DEF Editing
  <2>3. \A p \in Projects : \A v \in Users :
          grants'[p][v] = IF p = x /\ v = w THEN "none" ELSE grants[p][v]
    <3>1. WritesRow(x, w, "none")
      BY <1>19 DEF RevokeRow, WritesRow
    <3> HIDE DEF x, w
    <3> QED
      BY <2>2, <3>1, RowStep
  <2>4. CASE revoked' = revoked
    <3> HIDE DEF d, x, w
    <3>1. \A p \in Projects : \A v \in Users : grants[p][v] = "none" => grants'[p][v] = "none"
      BY <2>3
    <3> QED
      BY <2>1, <2>4, <3>1, SafeWhenQuiet
  <2>5. CASE /\ cache[d][x][w] = "none"
             /\ \A q \in Reqs : req[q].pc = "grant_row" => <<req[q].proj, req[q].whom>> # <<x, w>>
             /\ revoked' = [revoked EXCEPT ![d] = @ \cup {<<x, w>>}]
    <3> HIDE DEF d, x, w
    <3>1. \A c \in Procs : \A g \in revoked'[c] : g \in revoked[c] \/ (c = d /\ g = <<x, w>>)
      BY <2>5 DEF TypeOK
    <3>2. ASSUME NEW c \in Procs, NEW g \in revoked'[c]
          PROVE  cache'[c][g[1]][g[2]] = "none" /\ grants'[g[1]][g[2]] = "none"
      <4>1. CASE g \in revoked[c]
        BY <1>14, <2>1, <2>3, <4>1 DEF RevokedIsSafe
      <4>2. CASE c = d /\ g = <<x, w>>
        BY <2>1, <2>2, <2>3, <2>5, <4>2
      <4> QED
        BY <3>1, <4>1, <4>2
    <3>3. ASSUME NEW q \in Reqs, req'[q].pc = "grant_row", NEW c \in Procs
          PROVE  <<req'[q].proj, req'[q].whom>> \notin revoked'[c]
      <4>1. req'[q] = req[q] /\ req[q].pc = "grant_row"
        BY <2>1, <3>3
      <4> QED
        BY <2>5, <3>1, <4>1 DEF RevokedIsSafe
    <3> QED
      BY <3>2, <3>3 DEF RevokedIsSafe
  <2> QED
    BY <2>1, <2>4, <2>5 DEF TakenBack
<1>20. ASSUME NEW c \in Procs, Restart(c) PROVE RevokedIsSafe'
  <2>1. /\ \A q \in Reqs : req'[q] = IF req[q].proc = c THEN Idle ELSE req[q]
        /\ cache'[c] = grants /\ \A d \in Procs \ {c} : cache'[d] = cache[d]
        /\ UNCHANGED <<grants, revoked>>
    BY <1>20 DEF Restart, hist, TypeOK
  <2>2. \A d \in Procs : \A g \in revoked'[d] :
          cache'[d][g[1]][g[2]] = "none" /\ grants'[g[1]][g[2]] = "none"
    BY <2>1 DEF RevokedIsSafe
  <2>3. Kept
    BY <2>1, IdleType
  <2> QED
    BY <2>1, <2>2, <2>3 DEF RevokedIsSafe
<1>21. CASE UNCHANGED vars
  BY <1>1, <1>21 DEF vars, hist
<1>22. CASE Sharing
  BY <1>3, <1>4, <1>6, <1>8, <1>10, <1>16, <1>17, <1>18, <1>19, <1>22 DEF Sharing
<1>23. CASE Deletion
  BY <1>6, <1>9, <1>11, <1>12, <1>23 DEF Deletion
<1> QED
  BY <1>2, <1>20, <1>21, <1>22, <1>23 DEF Next

-----------------------------------------------------------------------------
(* The theorems.                                                              *)

\* All that holds between any two statements.
AccessInvariant == TypeOK /\ CallsKnow /\ PasswordIsSafe /\ NamesLiveOnes /\ RevokedIsSafe

\* The conjuncts rest on each other only through the types.
LEMMA AccessIsSafe == Spec => []AccessInvariant
<1>1. Init => AccessInvariant
  <2>1. ASSUME Init PROVE RevokedIsSafe /\ NamesLiveOnes
    BY <2>1, IdleType, AccessAssumption DEF Init, RevokedIsSafe, NamesLiveOnes
  <2>2. ASSUME Init PROVE PasswordIsSafe
    BY <2>2, IdleType, AccessAssumption DEF Init, PasswordIsSafe, NoSessionFromBefore
  <2> QED
    BY <2>1, <2>2, TypeInit DEF AccessInvariant
<1>2. AccessInvariant /\ [Next]_vars => AccessInvariant'
  BY TypeStep, PasswordStep, LiveStep, RevokedStep DEF AccessInvariant
<1> QED
  BY <1>1, <1>2, PTL DEF Spec

\* After reset_password or change_password has signed an account out, no session of
\* it rests on an earlier password, however many processes answer, whenever they
\* end and however requests overlap, unless one that had proved an earlier password
\* was on its way to create_session at that moment.
THEOREM OldSessionsAreClosed == Spec => []NoSessionFromBefore
<1>1. AccessInvariant => NoSessionFromBefore
  BY DEF AccessInvariant, PasswordIsSafe
<1> QED
  BY <1>1, AccessIsSafe, PTL

\* An account that delete_account erased owns no project, and has no session and
\* no reset link, but for what another request of its own made behind the deletion:
\* it is erased after what it owns, by however many overlapping deletions.
THEOREM ErasedIsForgotten == Spec => []DeletedOwnsNothing
<1>1. AccessInvariant => DeletedOwnsNothing
  BY DEF AccessInvariant, NamesLiveOnes, DeletedOwnsNothing
<1> QED
  BY <1>1, AccessIsSafe, PTL

\* A grant that revoke_access of a process took back is not honoured by that
\* process again, across restarts and overlapping grants and revocations, until it
\* is granted anew.
THEOREM RevokedIsRefused == Spec => []RevokedStays
<1>1. AccessInvariant => RevokedStays
  BY DEF AccessInvariant, RevokedIsSafe, RevokedStays
<1> QED
  BY <1>1, AccessIsSafe, PTL
=============================================================================
