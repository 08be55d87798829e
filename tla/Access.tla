------------------------------- MODULE Access -------------------------------
(* Accounts, sessions, password resets, single sign-on and project roles.     *)
(* Every API process answers requests in threads; accounts, sessions, resets, *)
(* projects and grants are tables they share, while each process keeps its    *)
(* own cache of the grants (filled once, at start) and its own table of       *)
(* logins begun with the identity provider.  A statement or a transaction is  *)
(* one step, so that everything between two of them can be interleaved.       *)
EXTENDS Naturals, FiniteSets

CONSTANTS
    Users,          \* account ids, each given out once
    Mail,           \* the address an id registers with; addresses are unique among live accounts
    Tokens,         \* session tokens; one without a row is as good as new
    Links,          \* reset tokens, each mailed once
    Logins,         \* states of single sign-on attempts, each drawn once
    Projects,       \* project ids, each given out once
    Procs, Reqs,    \* API processes; request threads (of whichever process)
    NoOne, Unborn, Gone,
    Granted,        \* bound: the roles that are granted
    MaxVersion,     \* bound: how often a password is set
    MaxRequests     \* bound: how many requests of several statements are made

ASSUME AccessAssumption ==
    /\ MaxVersion \in Nat /\ MaxRequests \in Nat
    /\ Granted \subseteq {"viewer", "editor", "approver", "admin"}
    /\ NoOne \notin Users \cup Projects
    /\ Unborn \notin Users /\ Gone \notin Users /\ Unborn # Gone
    /\ {"new", "spent", "void", "lapsed"} \cap Users = {}
    /\ Tokens \cap Projects = {} /\ Tokens \cap Links = {} /\ Projects \cap Links = {}

Roles == {"none", "viewer", "editor", "approver", "admin"}

VARIABLES
    account,    \* "free", "live" or "gone", per id
    version,    \* of the password; 0 is the random one of an account made by single sign-on
    sso,        \* ids provisioned by single sign-on
    session,    \* the row of a token: whose, resting on which password, from where, expired
    reset,      \* "new", "spent", "void" or "lapsed", or the id whose valid row it is
    owner,      \* of a project, Unborn or Gone
    grants,     \* the table project_members
    cache,      \* each process's copy of it
    pending,    \* each process's logins in flight
    begun,      \* logins ever begun
    req,        \* what each thread is doing
    settled,    \* history: the password version of the last reset or change that no earlier
                \* login of the account was still in flight to outlast
    revoked,    \* history: grants each process took back, not granted again meanwhile or since
    late,       \* history: what was made for an account by a request its deletion had overtaken
    made        \* requests made so far, up to MaxRequests

hist == <<settled, revoked, late>>
vars == <<account, version, sso, session, reset, owner, grants, cache, pending, begun, req, hist, made>>

NoRow == [user |-> NoOne, ver |-> 0, expired |-> FALSE]
Idle == [pc |-> "idle", aim |-> "none", proc |-> NoOne, user |-> NoOne, ver |-> 0,
         proj |-> NoOne, whom |-> NoOne, role |-> "none", todo |-> {}]
NoGrants == [p \in Projects |-> [u \in Users |-> "none"]]

Sessions == [user : Users \cup {NoOne}, ver : Nat, expired : BOOLEAN]
Calls == [pc : {"idle", "session", "link", "prove", "password", "signout", "create", "grant",
                "grant_row", "revoke", "revoke_row", "remove", "drop", "list", "wipe",
                "wipe_grants", "erase"},
          aim : {"none", "password", "reset", "change", "delete", "sso"},
          proc : Procs \cup {NoOne}, user : Users \cup {NoOne}, ver : Nat,
          proj : Projects \cup {NoOne}, whom : Users \cup {NoOne}, role : Roles,
          todo : SUBSET Projects]
Members == [Projects -> [Users -> Roles]]

TypeOK ==
    /\ account \in [Users -> {"free", "live", "gone"}]
    /\ version \in [Users -> Nat] /\ settled \in [Users -> Nat] /\ made \in Nat
    /\ sso \subseteq Users /\ begun \subseteq Logins
    /\ session \in [Tokens -> Sessions]
    /\ reset \in [Links -> {"new", "spent", "void", "lapsed"} \cup Users]
    /\ owner \in [Projects -> Users \cup {Unborn, Gone}]
    /\ grants \in Members
    /\ cache \in [Procs -> Members]
    /\ pending \in [Procs -> SUBSET Logins]
    /\ req \in [Reqs -> Calls]
    /\ revoked \in [Procs -> SUBSET (Projects \X Users)]
    /\ late \subseteq Projects \cup Tokens \cup Links

Init ==
    /\ account = [u \in Users |-> "free"]
    /\ version = [u \in Users |-> 0]
    /\ sso = {}
    /\ session = [t \in Tokens |-> NoRow]
    /\ reset = [k \in Links |-> "new"]
    /\ owner = [p \in Projects |-> Unborn]
    /\ grants = NoGrants
    /\ cache = [c \in Procs |-> NoGrants]
    /\ pending = [c \in Procs |-> {}]
    /\ begun = {}
    /\ req = [r \in Reqs |-> Idle]
    /\ settled = [u \in Users |-> 0]
    /\ revoked = [c \in Procs |-> {}]
    /\ late = {}
    /\ made = 0

-----------------------------------------------------------------------------
(* Roles.                                                                     *)

Rank == [r \in Roles |-> CASE r = "none" -> 0 [] r = "viewer" -> 1 [] r = "editor" -> 2
                           [] r = "approver" -> 3 [] r = "admin" -> 4]

at_least(held, required) == Rank[held] >= Rank[required]

role_for(c, p, u) == IF u = owner[p] THEN "admin" ELSE cache[c][p][u]

(* _require_project lets u do on p what needs the role. *)
Allowed(c, p, u, role) ==
    /\ owner[p] \in Users
    /\ role_for(c, p, u) # "none"
    /\ at_least(role_for(c, p, u), role)

projects_for(c, u) == {p \in Projects : cache[c][p][u] # "none"}

(* list_members: the owner, then everyone else with a grant. *)
members(c, p) == ({owner[p]} \cap Users) \cup {u \in Users : cache[c][p][u] # "none"}

(* list_projects: the projects u owns, and those shared with u that still are. *)
Listed(c, u) == {p \in Projects : owner[p] = u}
                \cup {p \in projects_for(c, u) : owner[p] \in Users}

-----------------------------------------------------------------------------
(* Requests.  A handler starts on an idle thread of some process; ending is   *)
(* going back to Idle, also when the answer is an error.  Requests overlap as *)
(* they like, those of one account too.                                       *)

Start(r, step) ==
    /\ req[r] = Idle /\ made < MaxRequests /\ made' = made + 1
    /\ req' = [req EXCEPT ![r] = step]

Step(pc, aim, c, u) == [Idle EXCEPT !.pc = pc, !.aim = aim, !.proc = c, !.user = u]
Goto(r, pc) == req' = [req EXCEPT ![r].pc = pc]
Answer(r) == req' = [req EXCEPT ![r] = Idle]

ByMail(m) == {u \in Users : account[u] = "live" /\ Mail[u] = m}

(* user_for_session: an unexpired row of an account that still is. *)
SignedIn(u) == \E t \in Tokens : /\ session[t].user = u /\ ~session[t].expired
                                 /\ account[u] = "live"

(* History: x was made for u after the deletion of u had listed what u owns, or after it. *)
Deleting(u) == \E q \in Reqs : req[q].user = u /\ req[q].pc \in {"wipe", "wipe_grants", "erase"}
Overtaken(u, x) == IF account[u] = "live" /\ ~Deleting(u) THEN late \ {x} ELSE late \cup {x}

(* register: create_user; the address is taken or the password refused otherwise. *)
Register(r, c, u) ==
    /\ account[u] = "free" /\ ByMail(Mail[u]) = {}
    /\ Start(r, [Step("session", "password", c, u) EXCEPT !.ver = 1])
    /\ account' = [account EXCEPT ![u] = "live"]
    /\ version' = [version EXCEPT ![u] = 1]
    /\ UNCHANGED <<sso, session, reset, owner, grants, cache, pending, begun, hist>>

(* login: authenticate, with the password as it is now; nobody knows version 0. *)
Login(r, c, u) ==
    /\ account[u] = "live" /\ version[u] > 0
    /\ Start(r, [Step("session", "password", c, u) EXCEPT !.ver = version[u]])
    /\ UNCHANGED <<account, version, sso, session, reset, owner, grants, cache, pending, begun, hist>>

(* create_session, the last statement of register, login, change_password and   *)
(* sso_callback.  It does not look at the account again.                        *)
CreateSession(r) ==
    /\ req[r].pc = "session"
    /\ \E t \in Tokens :
        /\ session[t] = NoRow
        /\ session' = [session EXCEPT ![t] = [user |-> req[r].user, ver |-> req[r].ver,
                                              expired |-> FALSE]]
        /\ late' = Overtaken(req[r].user, t)
    /\ Answer(r)
    /\ UNCHANGED <<account, version, sso, reset, owner, grants, cache, pending, begun, settled,
                   revoked, made>>

(* The 14 days of a session pass.                                               *)
Expire(t) ==
    /\ session[t] # NoRow /\ ~session[t].expired
    /\ session' = [session EXCEPT ![t].expired = TRUE]
    /\ UNCHANGED <<account, version, sso, reset, owner, grants, cache, pending, begun, req, hist, made>>

(* logout; or user_for_session and purge_expired_sessions on an expired row.    *)
DeleteSession(t) ==
    /\ session[t] # NoRow
    /\ session' = [session EXCEPT ![t] = NoRow]
    /\ UNCHANGED <<account, version, sso, reset, owner, grants, cache, pending, begun, req, hist, made>>

-----------------------------------------------------------------------------
(* Passwords.                                                                 *)

(* forgot_password: the account is looked up, then its link is replaced.      *)
ForgotPassword(r, c, u) ==
    /\ account[u] = "live"
    /\ Start(r, Step("link", "none", c, u))
    /\ UNCHANGED <<account, version, sso, session, reset, owner, grants, cache, pending, begun, hist>>

create_reset_token(u, k) ==
    [l \in Links |-> IF l = k THEN u ELSE IF reset[l] = u THEN "void" ELSE reset[l]]

SendLink(r) ==
    /\ req[r].pc = "link"
    /\ \E k \in Links :
        /\ reset[k] = "new"
        /\ reset' = create_reset_token(req[r].user, k)
        /\ late' = Overtaken(req[r].user, k)
    /\ Answer(r)
    /\ UNCHANGED <<account, version, sso, session, owner, grants, cache, pending, begun, settled,
                   revoked, made>>

(* The hour of a link passes; redeeming it then finds a row, deletes it and fails. *)
LinkLapses(k) ==
    /\ reset[k] \in Users
    /\ reset' = [reset EXCEPT ![k] = "lapsed"]
    /\ UNCHANGED <<account, version, sso, session, owner, grants, cache, pending, begun, req, hist, made>>

consume_reset_token(k) == [reset EXCEPT ![k] = "spent"]

(* reset_password: consume_reset_token, read and delete in one transaction.     *)
RedeemLink(r, c, k) ==
    /\ reset[k] \in Users
    /\ Start(r, Step("password", "reset", c, reset[k]))
    /\ reset' = consume_reset_token(k)
    /\ UNCHANGED <<account, version, sso, session, owner, grants, cache, pending, begun, hist>>

(* change_password and delete_account: current_user, then authenticate.         *)
AskPassword(r, c, u, aim) ==
    /\ SignedIn(u)
    /\ Start(r, Step("prove", aim, c, u))
    /\ UNCHANGED <<account, version, sso, session, reset, owner, grants, cache, pending, begun, hist>>

(* authenticate looks the address up again, and the caller does not compare ids. *)
ProvePassword(r) ==
    /\ req[r].pc = "prove"
    /\ \/ /\ \E u \in ByMail(Mail[req[r].user]) : version[u] > 0
          /\ Goto(r, IF req[r].aim = "delete" THEN "list" ELSE "password")
       \/ Answer(r)
    /\ UNCHANGED <<account, version, sso, session, reset, owner, grants, cache, pending, begun, hist, made>>

(* set_password, or a refusal of the new one: after a reset the link is spent by then. *)
SetPassword(r) ==
    /\ req[r].pc = "password"
    /\ \/ /\ version[req[r].user] < MaxVersion
          /\ LET u == req[r].user
                 v == IF account[u] = "live" THEN version[u] + 1 ELSE version[u] IN
             /\ version' = [version EXCEPT ![u] = v]
             /\ req' = [req EXCEPT ![r].pc = "signout", ![r].ver = v]
       \/ Answer(r) /\ UNCHANGED version
    /\ UNCHANGED <<account, sso, session, reset, owner, grants, cache, pending, begun, hist, made>>

(* Faulty variant: the sessions of the account are left alone. *)
KeepsSessions(u) == session

delete_sessions_for_user(u) ==
    [t \in Tokens |-> IF session[t].user = u THEN NoRow ELSE session[t]]

(* History: a request of the account proved an older password (or set it) and is about to *)
(* open a session; delete_sessions_for_user comes too early for that one.                 *)
OlderInFlight(r) == \E q \in Reqs :
    /\ req[q].pc \in {"session", "signout"}
    /\ req[q].user = req[r].user /\ req[q].ver < req[r].ver

(* The end of reset_password, and the last step but one of change_password.     *)
SignOut(r) ==
    /\ req[r].pc = "signout"
    /\ session' = delete_sessions_for_user(req[r].user)
    /\ IF req[r].aim = "reset" THEN Answer(r)
       ELSE req' = [req EXCEPT ![r].pc = "session", ![r].aim = "password"]
    /\ settled' = IF OlderInFlight(r) THEN settled
                  ELSE [settled EXCEPT ![req[r].user] = req[r].ver]
    /\ UNCHANGED <<account, version, sso, reset, owner, grants, cache, pending, begun, revoked,
                   late, made>>

-----------------------------------------------------------------------------
(* Single sign-on.                                                            *)

(* sso_login: LoginStore.begin. *)
SsoLogin(c, l) ==
    /\ l \notin begun
    /\ begun' = begun \cup {l}
    /\ pending' = [pending EXCEPT ![c] = @ \cup {l}]
    /\ UNCHANGED <<account, version, sso, session, reset, owner, grants, cache, req, hist, made>>

(* A login is forgotten: expired, or evicted when the table is full.            *)
DropLogin(c, l) ==
    /\ l \in pending[c]
    /\ pending' = [pending EXCEPT ![c] = @ \ {l}]
    /\ UNCHANGED <<account, version, sso, session, reset, owner, grants, cache, begun, req, hist, made>>

consume(c, l) == [pending EXCEPT ![c] = @ \ {l}]

(* An ID token as the provider may hand it out: validly signed by it for this client and  *)
(* not expired, for which login, and whether it vouches for the address and the subject.  *)
IdTokens == [sound : BOOLEAN, nonce : Logins, vouched : BOOLEAN]
verify_id_token(tok, l) == tok.sound /\ tok.nonce = l
identity_from_claims(tok) == tok.vouched

SsoRefused(c, l, tok) ==
    /\ l \in pending[c]
    /\ ~verify_id_token(tok, l) \/ ~identity_from_claims(tok)
    /\ pending' = consume(c, l)
    /\ UNCHANGED <<account, version, sso, session, reset, owner, grants, cache, begun, req, hist, made>>

(* sso_callback with a token for u's address: the account of that address, or a new one   *)
(* with a password nobody knows, gets a session.  A refused token uses up the login.      *)
SsoCallback(r, c, l, u, tok) ==
    /\ l \in pending[c]
    /\ verify_id_token(tok, l) /\ identity_from_claims(tok)
    /\ \/ account[u] = "live"
       \/ account[u] = "free" /\ ByMail(Mail[u]) = {}
    /\ Start(r, [Step("session", "sso", c, u) EXCEPT !.ver = version[u]])
    /\ pending' = consume(c, l)
    /\ account' = [account EXCEPT ![u] = "live"]
    /\ sso' = IF account[u] = "free" THEN sso \cup {u} ELSE sso
    /\ UNCHANGED <<version, session, reset, owner, grants, cache, begun, hist>>

-----------------------------------------------------------------------------
(* Projects and grants.                                                       *)

(* create_project: current_user, then store.create.                           *)
AskProject(r, c, u) ==
    /\ SignedIn(u)
    /\ Start(r, Step("create", "none", c, u))
    /\ UNCHANGED <<account, version, sso, session, reset, owner, grants, cache, pending, begun, hist>>

CreateProject(r) ==
    /\ req[r].pc = "create"
    /\ \E p \in Projects :
        /\ owner[p] = Unborn
        /\ owner' = [owner EXCEPT ![p] = req[r].user]
        /\ late' = Overtaken(req[r].user, p)
    /\ Answer(r)
    /\ UNCHANGED <<account, version, sso, session, reset, grants, cache, pending, begun, settled,
                   revoked, made>>

(* grant_access, revoke_access and delete_project up to their checks: the caller      *)
(* administers the project, whom is an account (to grant) and not the owner.          *)
AskAdmin(r, c, u, p, aim, w, role) ==
    /\ SignedIn(u) /\ Allowed(c, p, u, "admin")
    /\ aim # "remove" => w # owner[p]
    /\ aim = "grant" => account[w] = "live"
    /\ Start(r, [Step(aim, "none", c, u) EXCEPT !.proj = p, !.whom = w, !.role = role])
    /\ UNCHANGED <<account, version, sso, session, reset, owner, grants, cache, pending, begun, hist>>

(* SqlMembership.grant: the cache first, then the row.                        *)
GrantCache(r) ==
    /\ req[r].pc = "grant"
    /\ cache' = [cache EXCEPT ![req[r].proc][req[r].proj][req[r].whom] = req[r].role]
    /\ Goto(r, "grant_row")
    /\ revoked' = [c \in Procs |-> revoked[c] \ {<<req[r].proj, req[r].whom>>}]
    /\ UNCHANGED <<account, version, sso, session, reset, owner, grants, pending, begun, settled,
                   late, made>>

GrantRow(r) ==
    /\ req[r].pc = "grant_row"
    /\ grants' = [grants EXCEPT ![req[r].proj][req[r].whom] = req[r].role]
    /\ Answer(r)
    /\ UNCHANGED <<account, version, sso, session, reset, owner, cache, pending, begun, hist, made>>

(* SqlMembership.revoke: a grant this process does not know of is not found, and its  *)
(* row stays.                                                                         *)
RevokeCache(r) ==
    /\ req[r].pc = "revoke"
    /\ IF cache[req[r].proc][req[r].proj][req[r].whom] = "none"
       THEN Answer(r) /\ UNCHANGED cache
       ELSE /\ cache' = [cache EXCEPT ![req[r].proc][req[r].proj][req[r].whom] = "none"]
            /\ Goto(r, "revoke_row")
    /\ UNCHANGED <<account, version, sso, session, reset, owner, grants, pending, begun, hist, made>>

(* History: taken back for good, unless somebody granted the role anew meanwhile, through  *)
(* this process or with a row still to be written.                                         *)
TakenBack(r) ==
    LET g == <<req[r].proj, req[r].whom>> IN
    IF \/ cache[req[r].proc][g[1]][g[2]] # "none"
       \/ \E q \in Reqs : req[q].pc = "grant_row" /\ <<req[q].proj, req[q].whom>> = g
    THEN revoked ELSE [revoked EXCEPT ![req[r].proc] = @ \cup {g}]

(* Faulty variant: Membership.revoke is inherited as it is, and the row stays. *)
CacheOnlyRevokeRow(r) ==
    /\ req[r].pc = "revoke_row"
    /\ revoked' = TakenBack(r)
    /\ Answer(r)
    /\ UNCHANGED <<account, version, sso, session, reset, owner, grants, cache, pending, begun,
                   settled, late, made>>

RevokeRow(r) ==
    /\ req[r].pc = "revoke_row"
    /\ grants' = [grants EXCEPT ![req[r].proj][req[r].whom] = "none"]
    /\ revoked' = TakenBack(r)
    /\ Answer(r)
    /\ UNCHANGED <<account, version, sso, session, reset, owner, cache, pending, begun, settled,
                   late, made>>

(* delete_project: store.delete, or not found; then drop_project.               *)
RemoveProject(r) ==
    /\ req[r].pc = "remove"
    /\ IF owner[req[r].proj] \in Users
       THEN /\ owner' = [owner EXCEPT ![req[r].proj] = Gone]
            /\ Goto(r, "drop")
       ELSE Answer(r) /\ UNCHANGED owner
    /\ UNCHANGED <<account, version, sso, session, reset, grants, cache, pending, begun, hist, made>>

Drop(c, p) ==
    /\ cache' = [cache EXCEPT ![c][p] = NoGrants[p]]
    /\ grants' = [grants EXCEPT ![p] = NoGrants[p]]

DropProject(r) ==
    /\ req[r].pc = "drop"
    /\ Drop(req[r].proc, req[r].proj)
    /\ Answer(r)
    /\ UNCHANGED <<account, version, sso, session, reset, owner, pending, begun, hist, made>>

-----------------------------------------------------------------------------
(* delete_account: the projects it owns, one after the other; the grants it holds as  *)
(* far as this process knows them; the account.                                       *)

ListOwned(r) ==
    /\ req[r].pc = "list"
    /\ req' = [req EXCEPT ![r].pc = "wipe", ![r].todo = {p \in Projects : owner[p] = req[r].user}]
    /\ UNCHANGED <<account, version, sso, session, reset, owner, grants, cache, pending, begun, hist, made>>

WipeProject(r) ==
    /\ req[r].pc = "wipe"
    /\ \E p \in req[r].todo :
        /\ owner' = [owner EXCEPT ![p] = Gone]
        /\ req' = [req EXCEPT ![r].pc = "wipe_grants", ![r].proj = p, ![r].todo = @ \ {p}]
    /\ UNCHANGED <<account, version, sso, session, reset, grants, cache, pending, begun, hist, made>>

WipeGrants(r) ==
    /\ req[r].pc = "wipe_grants"
    /\ Drop(req[r].proc, req[r].proj)
    /\ req' = [req EXCEPT ![r].pc = "wipe", ![r].proj = NoOne]
    /\ UNCHANGED <<account, version, sso, session, reset, owner, pending, begun, hist, made>>

DropGrants(r) ==
    /\ req[r].pc = "wipe" /\ req[r].todo = {}
    /\ LET u == req[r].user
           shared == projects_for(req[r].proc, u) IN
       /\ cache' = [cache EXCEPT ![req[r].proc] =
                        [p \in Projects |-> IF p \in shared THEN [@[p] EXCEPT ![u] = "none"]
                                            ELSE @[p]]]
       /\ grants' = [p \in Projects |-> IF p \in shared THEN [grants[p] EXCEPT ![u] = "none"]
                                        ELSE grants[p]]
    /\ Goto(r, "erase")
    /\ UNCHANGED <<account, version, sso, session, reset, owner, pending, begun, hist, made>>

(* Faulty variant: the account is erased before what it owns. *)
AccountFirst(r) ==
    /\ req[r].pc = "list"
    /\ LET u == req[r].user IN
       /\ account' = [account EXCEPT ![u] = "gone"]
       /\ session' = delete_sessions_for_user(u)
       /\ reset' = [k \in Links |-> IF reset[k] = u THEN "void" ELSE reset[k]]
    /\ Answer(r)
    /\ UNCHANGED <<version, sso, owner, grants, cache, pending, begun, hist, made>>

(* delete_user: one transaction.                                                      *)
EraseAccount(r) ==
    /\ req[r].pc = "erase"
    /\ LET u == req[r].user IN
       /\ account' = [account EXCEPT ![u] = "gone"]
       /\ session' = delete_sessions_for_user(u)
       /\ reset' = [k \in Links |-> IF reset[k] = u THEN "void" ELSE reset[k]]
    /\ Answer(r)
    /\ UNCHANGED <<version, sso, owner, grants, cache, pending, begun, hist, made>>

(* A process ends at any point and starts again: its threads and logins are lost, its *)
(* cache is what the table holds.                                                     *)
Restart(c) ==
    /\ req' = [r \in Reqs |-> IF req[r].proc = c THEN Idle ELSE req[r]]
    /\ cache' = [cache EXCEPT ![c] = grants]
    /\ pending' = [pending EXCEPT ![c] = {}]
    /\ UNCHANGED <<account, version, sso, session, reset, owner, grants, begun, hist, made>>

-----------------------------------------------------------------------------
Authentication ==
    \/ \E r \in Reqs, c \in Procs, u \in Users :
        \/ Register(r, c, u) \/ Login(r, c, u) \/ ForgotPassword(r, c, u)
        \/ \E aim \in {"change", "delete"} : AskPassword(r, c, u, aim)
        \/ \E l \in Logins, tok \in IdTokens : SsoCallback(r, c, l, u, tok)
    \/ \E r \in Reqs, c \in Procs, k \in Links : RedeemLink(r, c, k)
    \/ \E r \in Reqs :
        CreateSession(r) \/ SendLink(r) \/ ProvePassword(r) \/ SetPassword(r) \/ SignOut(r)
    \/ \E t \in Tokens : Expire(t) \/ DeleteSession(t)
    \/ \E k \in Links : LinkLapses(k)
    \/ \E c \in Procs, l \in Logins :
        SsoLogin(c, l) \/ DropLogin(c, l) \/ \E tok \in IdTokens : SsoRefused(c, l, tok)

Sharing ==
    \/ \E r \in Reqs, c \in Procs, u \in Users :
        \/ AskProject(r, c, u)
        \/ \E p \in Projects, w \in Users, role \in Granted :
            AskAdmin(r, c, u, p, "grant", w, role)
        \/ \E p \in Projects, w \in Users : AskAdmin(r, c, u, p, "revoke", w, "none")
        \/ \E p \in Projects : AskAdmin(r, c, u, p, "remove", NoOne, "none")
    \/ \E r \in Reqs :
        \/ CreateProject(r) \/ GrantCache(r) \/ GrantRow(r) \/ RevokeCache(r) \/ RevokeRow(r)
        \/ RemoveProject(r) \/ DropProject(r)

Deletion == \E r \in Reqs :
    ListOwned(r) \/ WipeProject(r) \/ WipeGrants(r) \/ DropGrants(r) \/ EraseAccount(r)

Next == Authentication \/ Sharing \/ Deletion \/ \E c \in Procs : Restart(c)

Spec == Init /\ [][Next]_vars

-----------------------------------------------------------------------------
(* Once a reset or a change of password has signed the account out, no session of it rests on *)
(* an earlier password, now or later: the code only gives this if no request that had proved  *)
(* an earlier one was still on its way to create_session.  Such a request opens a session     *)
(* that survives, although reset_password says "every existing session must die" (main.py     *)
(* 644-646).  Requests overlap otherwise, and a process may end between two statements.       *)
NoSessionFromBefore ==
    \A t \in Tokens : session[t].user \in Users => session[t].ver >= settled[session[t].user]

(* An account deleted by delete_account owns no project, and has no session and no reset      *)
(* link, but for those a request of its own made after the deletion had listed the projects:  *)
(* nothing stops that request.  Two deletions of the account may overlap, and one that was    *)
(* cut off before the end has left the account, to be repeated.                               *)
DeletedOwnsNothing ==
    \A u \in Users : account[u] = "gone" =>
        /\ \A p \in Projects : owner[p] = u => p \in late
        /\ \A t \in Tokens : session[t].user = u => t \in late
        /\ \A k \in Links : reset[k] = u => k \in late

(* A grant that revoke_access of a process took back is not honoured by that process again,   *)
(* whatever other processes do and however often it restarts, until somebody grants anew;     *)
(* grants and revocations of the same role overlap, and one that was overlapped by a grant    *)
(* in the end has taken nothing back.                                                         *)
RevokedStays ==
    \A c \in Procs : \A g \in revoked[c] : cache[c][g[1]][g[2]] = "none"
=============================================================================
