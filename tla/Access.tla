------------------------------- MODULE Access -------------------------------
(***************************************************************************)
(* Who may see what: sessions, the users' GitHub tokens, the cached list of *)
(* accessible repositories with its fallbacks, the check in front of every  *)
(* read, the links to artifacts, and the API tokens of the action.          *)
(*                                                                         *)
(* GitHub is the environment. It knows at every moment which repositories a *)
(* user has access to, and may answer any question with an error. A request *)
(* does its database reads and its calls to GitHub in steps of its own, so  *)
(* anything can change in between.                                          *)
(***************************************************************************)
EXTENDS Integers, FiniteSets

CONSTANTS Users, Repos, Sessions, Tokens, Requests,
          Artifacts, RepoOf, TypeOf,  \* the artifacts of one run of each repository
          Viewers, Needs,             \* viewer |-> the artifact types it shows
          Outcomes,                   \* the statuses that an import may store
          Installed,                  \* repositories the GitHub App is installed on
          CacheTtl, StaleMax, SyncTtl, UrlTtl, SessionTtl,
          MaxLag,                     \* how long a request may take
          MaxTime, MaxLogins,         \* bounds of the model
          None

ASSUME TimesAssumption ==
  /\ {CacheTtl, StaleMax, SyncTtl, UrlTtl, SessionTtl, MaxLag, MaxTime, MaxLogins} \subseteq Nat
ASSUME ArtifactsAssumption ==
  /\ RepoOf \in [Artifacts -> Repos]
  /\ Installed \subseteq Repos
  /\ Outcomes \subseteq [Artifacts -> {"available", "failed", "skipped", "missing"}]
ASSUME LagAssumption == MaxLag <= UrlTtl
ASSUME NoneAssumption ==
  /\ None \notin Users \cup Repos \cup Tokens \cup Nat
  /\ None \notin [user : Users, expires : Nat]
  /\ None \notin [ids : SUBSET Repos, expires : Nat]
  /\ None \notin [repo : Repos, by : Users, created : Nat, revoked : Nat \cup {None}]

VARIABLES
  now,
  access,     \* GitHub: the repositories of a user
  until,      \* history: when the user was last seen to have access, by repository
  login,      \* users.github_access_token, by number; 0: no such user yet
  sessions,
  cache,      \* github_api_cache, accessible_repo_ids
  stored,     \* history: when a list was last written to the cache
  throttle,   \* expiry of the entry installation_repos_sync
  known,      \* repositories
  statuses,   \* artifacts.status; "missing" also stands for no row
  links,      \* signed artifact URLs
  apiTokens,
  used,       \* last_used_at
  touching,   \* the updates of last_used_at under way
  requests

github == <<access, until>>
caching == <<cache, stored, throttle, known>>
tokens == <<apiTokens, used, touching>>
vars == <<now, github, login, sessions, caching, statuses, links, tokens, requests>>

Time == 0..MaxTime
Status == {"missing", "available", "failed", "skipped"}
Session == [user : Users, expires : Nat]
Entry == [ids : SUBSET Repos, expires : Nat]
ApiToken == [repo : Repos, by : Users, created : Time, revoked : Time \cup {None}]
Link == [artifact : Artifacts, user : Users, expires : Nat]
Action == {"list", "view", "create", "revoke"}
Request == [pc : {"idle", "lookup", "fetch", "stale", "store", "sync", "syncing", "shown",
                  "check", "act", "viewed", "failed"},
            action : Action \cup {None}, user : Users \cup {None},
            token : 0..MaxLogins, began : Time,
            ids : SUBSET Repos, cached : BOOLEAN,             \* of "list"
            repo : Repos \cup {None}, target : Tokens \cup {None},
            view : SUBSET Viewers]                  \* the viewers said to be available

NoRequest == [pc |-> "idle", action |-> None, user |-> None, token |-> 0, began |-> 0,
              ids |-> {}, cached |-> FALSE, repo |-> None, target |-> None, view |-> {}]

TypeOK ==
  /\ now \in Time
  /\ access \in [Users -> SUBSET Repos]
  /\ until \in [Users -> [Repos -> Time \cup {None}]]
  /\ login \in [Users -> 0..MaxLogins]
  /\ sessions \in [Sessions -> Session \cup {None}]
  /\ cache \in [Users -> Entry \cup {None}]
  /\ stored \in [Users -> Time \cup {None}]
  /\ throttle \in [Users -> Nat]
  /\ known \in SUBSET Repos
  /\ statuses \in [Artifacts -> Status]
  /\ links \in SUBSET Link
  /\ apiTokens \in [Tokens -> ApiToken \cup {None}]
  /\ used \in [Tokens -> Time \cup {None}]
  /\ touching \in SUBSET [token : Tokens, began : Time]
  /\ requests \in [Requests -> Request]

(* A user has access to r now, or had it last at until[u][r]. *)
HadAccess(u, r, since) == r \in access[u] \/ (until[u][r] # None /\ until[u][r] >= since)

Init ==
  /\ now = 0
  /\ access \in [Users -> SUBSET Repos]
  /\ until = [u \in Users |-> [r \in Repos |-> None]]
  /\ login = [u \in Users |-> 0]
  /\ sessions = [s \in Sessions |-> None]
  /\ cache = [u \in Users |-> None]
  /\ stored = [u \in Users |-> None]
  /\ throttle = [u \in Users |-> 0]
  /\ known = {}
  /\ statuses = [a \in Artifacts |-> "missing"]
  /\ links = {}
  /\ apiTokens = [t \in Tokens |-> None]
  /\ used = [t \in Tokens |-> None]
  /\ touching = {}
  /\ requests = [q \in Requests |-> NoRequest]

-----------------------------------------------------------------------------
(* The environment *)

Busy(q) == requests[q].pc # "idle"

(* Time passes, but no request takes longer than MaxLag. *)
Tick ==
  /\ now < MaxTime
  /\ \A q \in Requests : Busy(q) => requests[q].began + MaxLag > now
  /\ \A w \in touching : w.began + MaxLag > now
  /\ now' = now + 1
  /\ UNCHANGED <<github, login, sessions, caching, statuses, links, tokens, requests>>

GrantAccess(u, r) ==
  /\ r \notin access[u]
  /\ access' = [access EXCEPT ![u] = access[u] \cup {r}]
  /\ UNCHANGED <<now, until, login, sessions, caching, statuses, links, tokens, requests>>

LoseAccess(u, r) ==
  /\ r \in access[u]
  /\ access' = [access EXCEPT ![u] = access[u] \ {r}]
  /\ until' = [until EXCEPT ![u] = [until[u] EXCEPT ![r] = now]]
  /\ UNCHANGED <<now, login, sessions, caching, statuses, links, tokens, requests>>

(* An upsert of the repository, by a plan request or a webhook. *)
Register(r) ==
  /\ r \notin known
  /\ known' = known \cup {r}
  /\ UNCHANGED <<now, github, login, sessions, cache, stored, throttle, statuses, links,
                 tokens, requests>>

(* An import stores the artifacts of a run, in one transaction. *)
Import(r) ==
  /\ r \in known
  /\ \A a \in Artifacts : RepoOf[a] = r => statuses[a] = "missing"
  /\ \E f \in Outcomes :
       statuses' = [a \in Artifacts |-> IF RepoOf[a] = r THEN f[a] ELSE statuses[a]]
  /\ statuses' # statuses
  /\ UNCHANGED <<now, github, login, sessions, caching, links, tokens, requests>>

-----------------------------------------------------------------------------
(* Sessions *)

(* GET /api/v1/auth/callback: the new GitHub token replaces the last one,    *)
(* for every session of the user; the session itself may not be written.     *)
Callback(u, s) ==
  /\ sessions[s] = None
  /\ login[u] < MaxLogins
  /\ login' = [login EXCEPT ![u] = login[u] + 1]
  /\ \/ sessions' = [sessions EXCEPT ![s] = [user |-> u, expires |-> now + SessionTtl]]
     \/ UNCHANGED sessions
  /\ UNCHANGED <<now, github, caching, statuses, links, tokens, requests>>

(* The extractor AuthenticatedSession. An expired session stays in the table. *)
InForce(s) == sessions[s] # None /\ sessions[s].expires >= now

Logout(s) ==
  /\ InForce(s)
  /\ sessions' = [sessions EXCEPT ![s] = None]
  /\ UNCHANGED <<now, github, login, caching, statuses, links, tokens, requests>>

(* A request of a session: the handler goes on with the user it has read. *)
Starts(q, s, pc, action, r, t) ==
  /\ ~Busy(q)
  /\ InForce(s)
  /\ requests' = [requests EXCEPT ![q] =
       [pc |-> pc, action |-> action, user |-> sessions[s].user,
        token |-> login[sessions[s].user], began |-> now, ids |-> {},
        cached |-> FALSE, repo |-> r, target |-> t, view |-> {}]]
  /\ UNCHANGED <<now, github, login, sessions, caching, statuses, links, tokens>>

BeginList(q, s) == Starts(q, s, "lookup", "list", None, None)
BeginView(q, s, r) == Starts(q, s, "check", "view", r, None)
BeginCreate(q, s, r, t) == Starts(q, s, "check", "create", r, t)
BeginRevoke(q, s, r, t) == Starts(q, s, "check", "revoke", r, t)

(* The answer has been sent; or the client is gone and the handler dropped. *)
End(q) ==
  /\ Busy(q)
  /\ requests' = [requests EXCEPT ![q] = NoRequest]
  /\ UNCHANGED <<now, github, login, sessions, caching, statuses, links, tokens>>

-----------------------------------------------------------------------------
(* list_accessible_repo_ids *)

Goes(q, request) ==
  /\ requests' = [requests EXCEPT ![q] = request]
  /\ UNCHANGED <<now, github, login, sessions, statuses, links, tokens>>

(* get_valid_cache *)
ValidCache(u) == cache[u] # None /\ cache[u].expires > now
(* get_stale_cache *)
StaleCache(u) == cache[u] # None /\ cache[u].expires + StaleMax > now

(* The user is looked up by the token: after another login there is none, and *)
(* GitHub is asked past the cache.                                           *)
LookUp(q) ==
  LET c == requests[q]
  IN  /\ c.pc = "lookup"
      /\ Goes(q, CASE login[c.user] # c.token -> [c EXCEPT !.pc = "fetch"]
                   [] login[c.user] = c.token /\ ValidCache(c.user) ->
                        [c EXCEPT !.pc = "sync", !.ids = cache[c.user].ids, !.cached = TRUE]
                   [] OTHER -> [c EXCEPT !.pc = "fetch", !.cached = TRUE])
      /\ UNCHANGED caching

(* GET /user/repos, its pages taken as one. *)
Fetch(q) ==
  LET c == requests[q]
  IN  /\ c.pc = "fetch"
      /\ Goes(q, [c EXCEPT !.pc = IF c.cached THEN "store" ELSE "shown",
                           !.ids = access[c.user]])
      /\ UNCHANGED caching

(* 401, 403, 429, 5xx, no connection *)
FetchFails(q) ==
  LET c == requests[q]
  IN  /\ c.pc = "fetch"
      /\ Goes(q, [c EXCEPT !.pc = IF c.cached THEN "stale" ELSE "failed"])
      /\ UNCHANGED caching

(* upsert_cache: the last writer wins, whenever it asked. *)
Store(q) ==
  LET c == requests[q]
  IN  /\ c.pc = "store"
      /\ cache' = [cache EXCEPT ![c.user] = [ids |-> c.ids, expires |-> now + CacheTtl]]
      /\ stored' = [stored EXCEPT ![c.user] = now]
      /\ Goes(q, [c EXCEPT !.pc = "sync"])
      /\ UNCHANGED <<throttle, known>>

(* Mutant: the fallback has no end. *)
FallBackForever(q) ==
  LET c == requests[q]
  IN  /\ c.pc = "stale"
      /\ Goes(q, IF cache[c.user] # None
                   THEN [c EXCEPT !.pc = "shown", !.ids = cache[c.user].ids]
                   ELSE [c EXCEPT !.pc = "failed"])
      /\ UNCHANGED caching

(* After an error of GitHub, a list that is not too old is served. *)
FallBack(q) ==
  LET c == requests[q]
  IN  /\ c.pc = "stale"
      /\ Goes(q, IF StaleCache(c.user)
                   THEN [c EXCEPT !.pc = "shown", !.ids = cache[c.user].ids]
                   ELSE [c EXCEPT !.pc = "failed"])
      /\ UNCHANGED caching

Missing(c) == c.ids \ known

(* maybe_sync_installation_repos: nothing is missing, or a sync was made not *)
(* long ago; or GitHub does not list the installations.                      *)
SkipSync(q) ==
  LET c == requests[q]
  IN  /\ \/ c.pc = "sync" /\ (Missing(c) = {} \/ throttle[c.user] > now)
         \/ c.pc = "syncing"
      /\ Goes(q, [c EXCEPT !.pc = "shown"])
      /\ UNCHANGED caching

StartSync(q) ==
  LET c == requests[q]
  IN  /\ c.pc = "sync"
      /\ Missing(c) # {}
      /\ throttle[c.user] <= now
      /\ Goes(q, [c EXCEPT !.pc = "syncing"])
      /\ UNCHANGED caching

(* The repositories of the installations that answer are inserted.           *)
Sync(q) ==
  LET c == requests[q]
  IN  /\ c.pc = "syncing"
      /\ \E found \in SUBSET (Installed \cap access[c.user]) : known' = known \cup found
      /\ throttle' = [throttle EXCEPT ![c.user] = now + SyncTtl]
      /\ Goes(q, [c EXCEPT !.pc = "shown"])
      /\ UNCHANGED <<cache, stored>>

(* Mutant: what the comment of sweep_expired_cache says, an hour. *)
CleanUpEarly(u) ==
  /\ cache[u] # None
  /\ cache[u].expires < now
  /\ cache' = [cache EXCEPT ![u] = None]
  /\ UNCHANGED <<now, github, login, sessions, stored, throttle, known, statuses, links,
                 tokens, requests>>

(* cleanup_expired_cache, by the worker *)
CleanUp(u) ==
  /\ cache[u] # None
  /\ cache[u].expires + StaleMax < now
  /\ cache' = [cache EXCEPT ![u] = None]
  /\ UNCHANGED <<now, github, login, sessions, stored, throttle, known, statuses, links,
                 tokens, requests>>

(* The rows of list_with_stats. *)
Shown(c) == c.ids \cap known

-----------------------------------------------------------------------------
(* Reads and writes of one repository *)

(* Mutant: an error of GitHub counts as yes. *)
CheckAccessLenient(q) ==
  LET c == requests[q]
  IN  /\ c.pc = "check"
      /\ c.repo \in known
      /\ Goes(q, [c EXCEPT !.pc = "act"])
      /\ UNCHANGED caching

(* ensure_repository_access, ensure_board_run_access: GitHub is always asked. *)
CheckAccess(q) ==
  LET c == requests[q]
  IN  /\ c.pc = "check"
      /\ c.repo \in known
      /\ c.repo \in access[c.user]
      /\ Goes(q, [c EXCEPT !.pc = "act"])
      /\ UNCHANGED caching

(* 404 for a repository that is unknown or denied; 401, 429 or 500 for an    *)
(* error of GitHub.                                                          *)
CheckFails(q) ==
  LET c == requests[q]
  IN  /\ c.pc = "check"
      /\ Goes(q, [c EXCEPT !.pc = "failed"])
      /\ UNCHANGED caching

(* The status of a viewer, from the artifacts of the types it needs. *)
OfType(r, type) == {a \in Artifacts : RepoOf[a] = r /\ TypeOf[a] = type}
HasAvailable(r, type) == \E a \in OfType(r, type) : statuses[a] = "available"
AllSkipped(r, type) ==
  OfType(r, type) # {} /\ \A a \in OfType(r, type) : statuses[a] = "skipped"

ViewerStatus(r, v) ==
  LET ready == {type \in Needs[v] : HasAvailable(r, type)}
  IN  CASE ready = Needs[v] -> "available"
        [] ready # Needs[v] /\ ready # {} -> "partial"
        [] OTHER ->
             CASE \A type \in Needs[v] : AllSkipped(r, type) -> "skipped"
               [] OTHER -> IF \E type \in Needs[v] : \E a \in OfType(r, type) :
                                statuses[a] = "failed"
                             THEN "failed" ELSE "missing"

(* Mutant: the two ids, both a Uuid, are swapped. *)
LinkSwapped(a, u) == [artifact |-> u, user |-> a, expires |-> now + UrlTtl]

(* generate_artifact_token *)
LinkTo(a, u) == [artifact |-> a, user |-> u, expires |-> now + UrlTtl]

(* get_viewer_sources: a link for every available artifact of a viewer. *)
Linked(r) ==
  {a \in Artifacts : /\ RepoOf[a] = r /\ statuses[a] = "available"
                     /\ \E v \in Viewers : TypeOf[a] \in Needs[v]}

ViewSources(q) ==
  LET c == requests[q]
  IN  /\ c.pc = "act" /\ c.action = "view"
      /\ links' = links \cup {LinkTo(a, c.user) : a \in Linked(c.repo)}
      /\ requests' = [requests EXCEPT ![q] =
           [c EXCEPT !.pc = "viewed",
                     !.view = {v \in Viewers : ViewerStatus(c.repo, v) = "available"}]]
      /\ UNCHANGED <<now, github, login, sessions, caching, statuses, tokens>>

(* verify_artifact_token and get_artifact: no session, and no question to    *)
(* GitHub; the link is all that is needed.                                   *)
Opens(link) == link.expires >= now /\ statuses[link.artifact] = "available"

(* A link that has expired opens nothing; the model forgets it. *)
Expire(link) ==
  /\ link.expires < now
  /\ links' = links \ {link}
  /\ UNCHANGED <<now, github, login, sessions, caching, statuses, tokens, requests>>

-----------------------------------------------------------------------------
(* API tokens *)

CreateApiToken(q) ==
  LET c == requests[q]
  IN  /\ c.pc = "act" /\ c.action = "create"
      /\ apiTokens[c.target] = None
      /\ apiTokens' = [apiTokens EXCEPT ![c.target] =
           [repo |-> c.repo, by |-> c.user, created |-> now, revoked |-> None]]
      /\ requests' = [requests EXCEPT ![q] = NoRequest]
      /\ UNCHANGED <<now, github, login, sessions, caching, statuses, links, used, touching>>

(* Idempotent: the first revoked_at is kept. *)
RevokeApiToken(q) ==
  LET c == requests[q]
      token == apiTokens[c.target]
  IN  /\ c.pc = "act" /\ c.action = "revoke"
      /\ token # None /\ token.repo = c.repo
      /\ apiTokens' = [apiTokens EXCEPT ![c.target] =
           IF token.revoked = None THEN [token EXCEPT !.revoked = now] ELSE token]
      /\ requests' = [requests EXCEPT ![q] = NoRequest]
      /\ UNCHANGED <<now, github, login, sessions, caching, statuses, links, used, touching>>

(* Mutant: revoked_at is not looked at. *)
AuthenticateAny(t) ==
  /\ apiTokens[t] # None
  /\ touching' = touching \cup {[token |-> t, began |-> now]}
  /\ UNCHANGED <<now, github, login, sessions, caching, statuses, links, apiTokens, used,
                 requests>>

(* The extractor AuthenticatedToken; last_used_at is written by a task of    *)
(* its own.                                                                  *)
Authenticate(t) ==
  /\ apiTokens[t] # None
  /\ apiTokens[t].revoked = None
  /\ touching' = touching \cup {[token |-> t, began |-> now]}
  /\ UNCHANGED <<now, github, login, sessions, caching, statuses, links, apiTokens, used,
                 requests>>

UpdateLastUsedAt(w) ==
  /\ used' = [used EXCEPT ![w.token] = now]
  /\ touching' = touching \ {w}
  /\ UNCHANGED <<now, github, login, sessions, caching, statuses, links, apiTokens, requests>>

Browse(q) ==
  \/ \E s \in Sessions :
       \/ BeginList(q, s)
       \/ \E r \in Repos :
            \/ BeginView(q, s, r)
            \/ \E t \in Tokens : BeginCreate(q, s, r, t) \/ BeginRevoke(q, s, r, t)
  \/ LookUp(q) \/ Fetch(q) \/ FetchFails(q) \/ Store(q) \/ FallBack(q)
  \/ StartSync(q) \/ SkipSync(q) \/ Sync(q)
  \/ CheckAccess(q) \/ CheckFails(q)
  \/ ViewSources(q) \/ CreateApiToken(q) \/ RevokeApiToken(q)
  \/ End(q)

Next ==
  \/ Tick
  \/ \E u \in Users : \/ \E r \in Repos : GrantAccess(u, r) \/ LoseAccess(u, r)
                      \/ \E s \in Sessions : Callback(u, s)
                      \/ CleanUp(u)
  \/ \E r \in Repos : Register(r) \/ Import(r)
  \/ \E s \in Sessions : Logout(s)
  \/ \E q \in Requests : Browse(q)
  \/ \E link \in links : Expire(link)
  \/ \E t \in Tokens : Authenticate(t)
  \/ \E w \in touching : UpdateLastUsedAt(w)

Spec == Init /\ [][Next]_vars

-----------------------------------------------------------------------------
(* Properties *)

(* No list shows a repository to which the user has had no access for longer *)
(* than the lifetime of the cache, the fallback and two requests together:   *)
(* the one that asked GitHub and wrote late, and the one that read           *)
(* (list_accessible_repo_ids with several requests at once, and errors).     *)
ListIsRecent ==
  \A q \in Requests :
    requests[q].pc = "shown" =>
      \A r \in Shown(requests[q]) :
        HadAccess(requests[q].user, r, now - (CacheTtl + StaleMax + 2 * MaxLag))

(* A failure of GitHub alone costs no user the list that was fetched within  *)
(* the lifetime of the cache and the fallback (the stale-while-error rule of *)
(* list_accessible_repo_ids, with the worker's cleanup_expired_cache).       *)
OutageIsBridged ==
  [][\A q \in Requests :
       LET u == requests[q].user
       IN  requests[q].pc = "stale" /\ requests'[q].pc = "failed" /\ stored[u] # None =>
             stored[u] + CacheTtl + StaleMax <= now]_vars

(* A link that still opens leads to an artifact of a repository to which its *)
(* user had access at most an hour and a request ago, and a viewer that is   *)
(* said to be complete has a link for each type it needs (get_viewer_sources *)
(* and get_artifact, which asks neither the session nor GitHub).             *)
LinksAreGood ==
  /\ \A link \in links :
       Opens(link) => HadAccess(link.user, RepoOf[link.artifact], now - (UrlTtl + MaxLag))
  /\ \A q \in Requests :
       requests[q].pc = "viewed" =>
         \A v \in requests[q].view : \A type \in Needs[v] :
           \E a \in OfType(requests[q].repo, type) :
             \E link \in links : link.artifact = a /\ link.user = requests[q].user

(* The token of a repository was made by a user who had access to it, and    *)
(* last_used_at of a revoked token lies at most one late update after its    *)
(* revocation (execute_create_api_token, execute_revoke_api_token, and the   *)
(* extractor with its detached update).                                      *)
TokensAreGood ==
  \A t \in Tokens :
    apiTokens[t] # None =>
      /\ HadAccess(apiTokens[t].by, apiTokens[t].repo, apiTokens[t].created - MaxLag)
      /\ apiTokens[t].revoked # None /\ used[t] # None => used[t] <= apiTokens[t].revoked + MaxLag
=============================================================================
