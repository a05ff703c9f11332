---------------------------- MODULE AccessProofs ----------------------------
(***************************************************************************)
(* Theorems about Access, for any users, repositories, requests, times and  *)
(* artifacts. One invariant carries all of them: what a request knows is    *)
(* dated by the moment it began, what the cache holds by the moment it was  *)
(* stored, a link and a token by the moment they were made; and once a user *)
(* had access at some moment, no step takes that back.                      *)
(***************************************************************************)
EXTENDS Access, TLAPS

LEMMA TimesAreNat ==
  /\ CacheTtl \in Nat /\ StaleMax \in Nat /\ SyncTtl \in Nat /\ UrlTtl \in Nat
  /\ SessionTtl \in Nat /\ MaxLag \in Nat /\ MaxTime \in Nat /\ MaxLogins \in Nat
BY TimesAssumption

LEMMA NoneIsNew ==
  /\ None \notin Users /\ None \notin Repos /\ None \notin Tokens /\ None \notin Nat
  /\ None \notin Session /\ None \notin Entry /\ None \notin ApiToken
BY NoneAssumption DEF Session, Entry, ApiToken, Time

-----------------------------------------------------------------------------
(* The invariant *)

(* The viewers said to be complete have their links, which do not expire     *)
(* before the request has to be over.                                        *)
Complete(c) ==
  \A v \in c.view : \A type \in Needs[v] :
    \E a \in OfType(c.repo, type), link \in links :
      link.artifact = a /\ link.user = c.user /\ link.expires >= c.began + UrlTtl

Window == CacheTtl + StaleMax + MaxLag

(* What a request knows, from what its step says of it. *)
GoodRequest(c) ==
  c.pc # "idle" =>
    /\ c.user \in Users
    /\ c.began <= now /\ now <= c.began + MaxLag
    /\ c.action \in {"create", "revoke"} => c.target \in Tokens
    /\ c.pc = "store" => \A r \in c.ids : HadAccess(c.user, r, c.began)
    /\ c.pc \in {"sync", "syncing", "shown"} =>
         \A r \in c.ids : HadAccess(c.user, r, c.began - Window)
    /\ c.pc = "act" => c.repo \in Repos /\ HadAccess(c.user, c.repo, c.began)
    /\ c.pc = "viewed" => Complete(c)

(* An entry was asked for at most MaxLag before it was stored, and is deleted *)
(* only when the fallback does not need it any more.                         *)
GoodEntry(u) ==
  /\ stored[u] # None =>
       /\ stored[u] <= now
       /\ cache[u] # None \/ stored[u] + CacheTtl + StaleMax < now
  /\ cache[u] # None =>
       /\ stored[u] # None
       /\ cache[u].expires = stored[u] + CacheTtl
       /\ \A r \in cache[u].ids : HadAccess(u, r, stored[u] - MaxLag)

GoodLink(link) ==
  /\ link.expires <= now + UrlTtl
  /\ HadAccess(link.user, RepoOf[link.artifact], link.expires - (UrlTtl + MaxLag))

GoodToken(t) ==
  /\ used[t] # None => used[t] <= now
  /\ apiTokens[t] # None =>
       /\ apiTokens[t].created <= now
       /\ HadAccess(apiTokens[t].by, apiTokens[t].repo, apiTokens[t].created - MaxLag)
       /\ apiTokens[t].revoked # None /\ used[t] # None =>
            used[t] <= apiTokens[t].revoked + MaxLag

GoodUpdate(w) ==
  /\ w.began <= now /\ now <= w.began + MaxLag
  /\ apiTokens[w.token] # None
  /\ apiTokens[w.token].revoked # None => w.began <= apiTokens[w.token].revoked

Invariant ==
  /\ TypeOK
  /\ \A q \in Requests : GoodRequest(requests[q])
  /\ \A u \in Users : GoodEntry(u)
  /\ \A link \in links : GoodLink(link)
  /\ \A t \in Tokens : GoodToken(t)
  /\ \A w \in touching : GoodUpdate(w)

LEMMA InvariantInit == Init => Invariant
<1> SUFFICES ASSUME Init PROVE Invariant OBVIOUS
<1>1. NoRequest \in Request BY TimesAreNat DEF NoRequest, Request, Time
<1>2. TypeOK
  BY <1>1, TimesAreNat, ArtifactsAssumption DEF Init, TypeOK, Time, Status
<1>3. \A q \in Requests : GoodRequest(requests[q]) BY DEF Init, GoodRequest, NoRequest
<1>4. \A u \in Users : GoodEntry(u) BY DEF Init, GoodEntry
<1>5. \A t \in Tokens : GoodToken(t) BY DEF Init, GoodToken
<1>6. links = {} /\ touching = {} BY DEF Init
<1> QED BY <1>2, <1>3, <1>4, <1>5, <1>6 DEF Invariant

-----------------------------------------------------------------------------
(* What no step takes back *)

LEMMA BrowseLeaves ==
  ASSUME NEW q \in Requests, Browse(q)
  PROVE  UNCHANGED <<now, github, login, sessions, statuses>>
<1>1. CASE \E s \in Sessions : BeginList(q, s)
  BY <1>1 DEF BeginList, Starts
<1>2. CASE \E s \in Sessions, r \in Repos : BeginView(q, s, r)
  BY <1>2 DEF BeginView, Starts
<1>3. CASE \E s \in Sessions, r \in Repos, t \in Tokens :
             BeginCreate(q, s, r, t) \/ BeginRevoke(q, s, r, t)
  BY <1>3 DEF BeginCreate, BeginRevoke, Starts
<1>4. CASE LookUp(q) BY <1>4 DEF LookUp, Goes
<1>5. CASE Fetch(q) \/ FetchFails(q) \/ Store(q) \/ FallBack(q)
  BY <1>5 DEF Fetch, FetchFails, Store, FallBack, Goes
<1>6. CASE StartSync(q) \/ SkipSync(q) \/ Sync(q)
  BY <1>6 DEF StartSync, SkipSync, Sync, Goes
<1>7. CASE CheckAccess(q) \/ CheckFails(q) BY <1>7 DEF CheckAccess, CheckFails, Goes
<1>8. CASE ViewSources(q) BY <1>8 DEF ViewSources
<1>9. CASE CreateApiToken(q) BY <1>9 DEF CreateApiToken
<1>10. CASE RevokeApiToken(q) BY <1>10 DEF RevokeApiToken
<1>11. CASE End(q) BY <1>11 DEF End
<1> QED
  BY <1>1, <1>2, <1>3, <1>4, <1>5, <1>6, <1>7, <1>8, <1>9, <1>10, <1>11 DEF Browse

(* Time does not run backwards, and no request or update is overtaken by it. *)
LEMMA TimeMoves ==
  ASSUME Invariant, [Next]_vars
  PROVE  /\ now \in Nat /\ now' \in Nat /\ now <= now'
         /\ \A q \in Requests : Busy(q) => now' <= requests[q].began + MaxLag
         /\ \A w \in touching : now' <= w.began + MaxLag
<1>0. now \in Nat BY TimesAreNat DEF Invariant, TypeOK, Time
<1>1. \A q \in Requests : requests[q] \in Request BY DEF Invariant, TypeOK
<1>2. CASE Tick
  <2>1. now' = now + 1 BY <1>2 DEF Tick
  <2>2. \A q \in Requests : Busy(q) => now' <= requests[q].began + MaxLag
    <3> SUFFICES ASSUME NEW q \in Requests, Busy(q) PROVE now' <= requests[q].began + MaxLag
      OBVIOUS
    <3>1. requests[q].began \in Nat BY <1>1, TimesAreNat DEF Request, Time
    <3>2. requests[q].began + MaxLag > now BY <1>2 DEF Tick
    <3> QED BY <2>1, <3>1, <3>2, <1>0, TimesAreNat
  <2>3. \A w \in touching : now' <= w.began + MaxLag
    <3> SUFFICES ASSUME NEW w \in touching PROVE now' <= w.began + MaxLag OBVIOUS
    <3>1. w.began \in Nat BY TimesAreNat DEF Invariant, TypeOK, Time
    <3>2. w.began + MaxLag > now BY <1>2 DEF Tick
    <3> QED BY <2>1, <3>1, <3>2, <1>0, TimesAreNat
  <2> QED BY <2>1, <2>2, <2>3, <1>0
<1>3. CASE ~Tick
  <2>1. now' = now
    <3>1. CASE \E q \in Requests : Browse(q) BY <3>1, BrowseLeaves
    <3>2. CASE ~\E q \in Requests : Browse(q)
      BY <1>3, <3>2 DEF Next, vars, GrantAccess, LoseAccess, Callback, CleanUp, Register, Import,
         Logout, Expire, Authenticate, UpdateLastUsedAt
    <3> QED BY <3>1, <3>2
  <2>2. \A q \in Requests : Busy(q) => now <= requests[q].began + MaxLag
    BY DEF Invariant, GoodRequest, Busy
  <2>3. \A w \in touching : now <= w.began + MaxLag BY DEF Invariant, GoodUpdate
  <2> QED BY <2>1, <2>2, <2>3, <1>0
<1> QED BY <1>2, <1>3

(* Who had access at a moment had it, whatever GitHub is told afterwards. *)
LEMMA AccessStays ==
  ASSUME Invariant, [Next]_vars, NEW u \in Users, NEW r \in Repos, NEW since \in Int,
         since <= now, HadAccess(u, r, since)
  PROVE  HadAccess(u, r, since)'
<1>1. now \in Nat BY TimesAreNat DEF Invariant, TypeOK, Time
<1>2. access \in [Users -> SUBSET Repos] /\ until \in [Users -> [Repos -> Time \cup {None}]]
  BY DEF Invariant, TypeOK
<1>3. CASE \E v \in Users, s \in Repos : GrantAccess(v, s)
  <2>1. PICK v \in Users, s \in Repos : GrantAccess(v, s) BY <1>3
  <2> QED BY <2>1, <1>2 DEF GrantAccess, HadAccess
<1>4. CASE \E v \in Users, s \in Repos : LoseAccess(v, s)
  <2>1. PICK v \in Users, s \in Repos : LoseAccess(v, s) BY <1>4
  <2>2. CASE v = u /\ s = r
    <3>1. until'[u][r] = now BY <2>1, <2>2, <1>2 DEF LoseAccess
    <3> QED BY <3>1, <1>1, NoneIsNew DEF HadAccess
  <2>3. CASE ~(v = u /\ s = r)
    <3>1. until'[u][r] = until[u][r] BY <2>1, <2>3, <1>2 DEF LoseAccess
    <3>2. r \in access[u] <=> r \in access'[u] BY <2>1, <2>3, <1>2 DEF LoseAccess
    <3> QED BY <3>1, <3>2 DEF HadAccess
  <2> QED BY <2>2, <2>3
<1>5. CASE UNCHANGED github BY <1>5 DEF github, HadAccess
<1>6. CASE \E q \in Requests : Browse(q) BY <1>5, <1>6, BrowseLeaves
<1> QED
  BY <1>3, <1>4, <1>5, <1>6 DEF Next, vars, Tick, Callback, CleanUp, Register, Import,
     Logout, Expire, Authenticate, UpdateLastUsedAt

(* Links are forgotten only after they expired. *)
LEMMA LinksStay ==
  ASSUME Invariant, [Next]_vars, NEW link \in links, link.expires >= now
  PROVE  link \in links'
<1>1. CASE \E other \in links : Expire(other)
  <2>1. PICK other \in links : Expire(other) BY <1>1
  <2>2. link # other
    <3>1. link.expires \in Nat /\ now \in Nat BY TimesAreNat DEF Invariant, TypeOK, Link, Time
    <3> QED BY <3>1, <2>1 DEF Expire
  <2> QED BY <2>1, <2>2 DEF Expire
<1>2. CASE \E q \in Requests : ViewSources(q) BY <1>2 DEF ViewSources
<1>3. CASE UNCHANGED links BY <1>3
<1> QED
  BY <1>1, <1>2, <1>3 DEF Next, vars, Tick, GrantAccess, LoseAccess, Callback, CleanUp,
     Register, Import, Logout, Browse, Starts, BeginList, BeginView, BeginCreate, BeginRevoke,
     Goes, LookUp, Fetch, FetchFails, Store, FallBack, StartSync, SkipSync, Sync, CheckAccess,
     CheckFails, CreateApiToken, RevokeApiToken, End, Authenticate, UpdateLastUsedAt

-----------------------------------------------------------------------------
(* Requests *)

LEMMA RequestTyped ==
  ASSUME Invariant, NEW q \in Requests
  PROVE  requests[q] \in Request /\ GoodRequest(requests[q])
BY DEF Invariant, TypeOK

(* What a request knows stays true until it is over. *)
LEMMA GoodRequestStays ==
  ASSUME Invariant, [Next]_vars, NEW c \in Request, GoodRequest(c),
         c.pc # "idle" => now' <= c.began + MaxLag
  PROVE  GoodRequest(c)'
<1> SUFFICES ASSUME c.pc # "idle" PROVE GoodRequest(c)' BY DEF GoodRequest
<1>1. /\ c.began \in Nat /\ c.ids \in SUBSET Repos /\ Window \in Nat
      /\ CacheTtl \in Nat /\ StaleMax \in Nat /\ UrlTtl \in Nat /\ MaxLag \in Nat
      /\ now \in Nat /\ now' \in Nat /\ now <= now'
  BY TimesAreNat, TimeMoves DEF Request, Time, Window
<1>2. c.user \in Users /\ c.began <= now /\ now <= c.began + MaxLag BY DEF GoodRequest
<1>3. \A r \in Repos, since \in Int :
        since <= now /\ HadAccess(c.user, r, since) => HadAccess(c.user, r, since)'
  BY <1>2, AccessStays
<1>4. c.began \in Int /\ c.began <= now /\ c.began - Window \in Int /\ c.began - Window <= now
  BY <1>1, <1>2
<1>5. ASSUME c.pc = "store", NEW r \in c.ids PROVE HadAccess(c.user, r, c.began)'
  <2>1. r \in Repos /\ HadAccess(c.user, r, c.began) BY <1>5, <1>1 DEF GoodRequest
  <2> QED BY <2>1, <1>3, <1>4
<1>6. ASSUME c.pc \in {"sync", "syncing", "shown"}, NEW r \in c.ids
      PROVE  HadAccess(c.user, r, c.began - Window)'
  <2>1. r \in Repos /\ HadAccess(c.user, r, c.began - Window) BY <1>6, <1>1 DEF GoodRequest
  <2> QED BY <2>1, <1>3, <1>4
<1>7. ASSUME c.pc = "act" PROVE c.repo \in Repos /\ HadAccess(c.user, c.repo, c.began)'
  <2>1. c.repo \in Repos /\ HadAccess(c.user, c.repo, c.began) BY <1>7 DEF GoodRequest
  <2> QED BY <2>1, <1>3, <1>4
<1>8. ASSUME c.pc = "viewed" PROVE Complete(c)'
  <2> SUFFICES ASSUME NEW v \in c.view, NEW type \in Needs[v]
               PROVE  \E a \in OfType(c.repo, type), link \in links' :
                        /\ link.artifact = a /\ link.user = c.user
                        /\ link.expires >= c.began + UrlTtl
    BY DEF Complete, OfType
  <2>1. PICK a \in OfType(c.repo, type), link \in links :
          link.artifact = a /\ link.user = c.user /\ link.expires >= c.began + UrlTtl
    BY <1>8 DEF GoodRequest, Complete
  <2>2. link.expires \in Nat BY DEF Invariant, TypeOK, Link
  <2>3. link.expires >= now BY <2>1, <2>2, <1>1, <1>2, LagAssumption
  <2>4. link \in links' BY <2>3, LinksStay
  <2> QED BY <2>1, <2>4
<1>9. c.action \in {"create", "revoke"} => c.target \in Tokens BY DEF GoodRequest
<1>10. c.began <= now' /\ now' <= c.began + MaxLag BY <1>1, <1>2
<1> QED BY <1>2, <1>5, <1>6, <1>7, <1>8, <1>9, <1>10 DEF GoodRequest, Window

(* A step that writes one request, and leaves it as it should be. *)
LEMMA RequestKept ==
  ASSUME Invariant, [Next]_vars, NEW q \in Requests, NEW d \in Request, GoodRequest(d)',
         requests' = [requests EXCEPT ![q] = d]
  PROVE  /\ requests' \in [Requests -> Request]
         /\ \A p \in Requests : GoodRequest(requests[p])'
<1>1. requests' \in [Requests -> Request] BY DEF Invariant, TypeOK
<1>2. requests'[q] = d BY DEF Invariant, TypeOK
<1>3. ASSUME NEW p \in Requests, p # q PROVE GoodRequest(requests[p])'
  <2>1. PICK c \in Request : c = requests[p] BY RequestTyped
  <2>2. GoodRequest(c) BY <2>1, RequestTyped
  <2>3. c.pc # "idle" => now' <= c.began + MaxLag BY <2>1, TimeMoves DEF Busy
  <2>4. GoodRequest(c)' BY <2>2, <2>3, GoodRequestStays
  <2>5. requests'[p] = c BY <2>1, <1>3 DEF Invariant, TypeOK
  <2> QED BY <2>4, <2>5 DEF GoodRequest, Complete, HadAccess
<1>4. GoodRequest(requests[q])' BY <1>2 DEF GoodRequest, Complete, HadAccess
<1> QED BY <1>1, <1>3, <1>4

(* A step that writes none. *)
LEMMA RequestsLeft ==
  ASSUME Invariant, [Next]_vars, UNCHANGED requests
  PROVE  /\ requests' \in [Requests -> Request]
         /\ \A p \in Requests : GoodRequest(requests[p])'
<1>1. requests' \in [Requests -> Request] BY DEF Invariant, TypeOK
<1>2. ASSUME NEW p \in Requests PROVE GoodRequest(requests[p])'
  <2>1. PICK c \in Request : c = requests[p] BY RequestTyped
  <2>2. GoodRequest(c) BY <2>1, RequestTyped
  <2>3. c.pc # "idle" => now' <= c.began + MaxLag BY <2>1, TimeMoves DEF Busy
  <2>4. GoodRequest(c)' BY <2>2, <2>3, GoodRequestStays
  <2>5. requests'[p] = c BY <2>1
  <2> QED BY <2>4, <2>5 DEF GoodRequest, Complete, HadAccess
<1> QED BY <1>1, <1>2

(* The same while neither time nor GitHub changes, as when a request moves. *)
LEMMA RequestMoves ==
  ASSUME Invariant, [Next]_vars, NEW q \in Requests, NEW d \in Request, GoodRequest(d),
         requests' = [requests EXCEPT ![q] = d], now' = now
  PROVE  /\ requests' \in [Requests -> Request]
         /\ \A p \in Requests : GoodRequest(requests[p])'
<1>1. GoodRequest(d)' BY GoodRequestStays DEF GoodRequest
<1> QED BY <1>1, RequestKept

RequestsGood ==
  /\ requests \in [Requests -> Request]
  /\ \A p \in Requests : GoodRequest(requests[p])

(* A request that goes on keeps who asked, when, and for what. *)
GoesOn(d, c) ==
  /\ d \in Request
  /\ d.pc # "idle" /\ c.pc # "idle"
  /\ d.user = c.user /\ d.began = c.began /\ d.action = c.action
  /\ d.repo = c.repo /\ d.target = c.target

LEMMA Steps ==
  ASSUME Invariant, [Next]_vars, NEW q \in Requests, NEW c \in Request, c = requests[q],
         NEW d, GoesOn(d, c), requests' = [requests EXCEPT ![q] = d], now' = now,
         d.pc = "store" => \A r \in d.ids : HadAccess(c.user, r, c.began),
         d.pc \in {"sync", "syncing", "shown"} =>
           \A r \in d.ids : HadAccess(c.user, r, c.began - Window),
         d.pc = "act" => c.repo \in Repos /\ HadAccess(c.user, c.repo, c.began),
         d.pc # "viewed"
  PROVE  RequestsGood'
<1>1. GoodRequest(c) BY RequestTyped
<1>2. GoodRequest(d) BY <1>1 DEF GoodRequest, GoesOn
<1>3. d \in Request BY DEF GoesOn
<1> QED BY <1>2, <1>3, RequestMoves DEF RequestsGood

LEMMA StartsGood ==
  ASSUME Invariant, [Next]_vars, NEW q \in Requests, NEW s \in Sessions,
         NEW pc \in {"lookup", "check"}, NEW action \in Action,
         NEW r \in Repos \cup {None}, NEW t \in Tokens \cup {None},
         action \in {"create", "revoke"} => t \in Tokens,
         Starts(q, s, pc, action, r, t)
  PROVE  RequestsGood'
<1> DEFINE u == sessions[s].user
           d == [pc |-> pc, action |-> action, user |-> u, token |-> login[u],
                 began |-> now, ids |-> {}, cached |-> FALSE, repo |-> r, target |-> t,
                 view |-> {}]
<1>1. u \in Users
  <2>1. sessions[s] \in Session BY DEF Starts, InForce, Invariant, TypeOK
  <2> QED BY <2>1 DEF Session
<1>2. login[u] \in 0..MaxLogins /\ now \in Time BY <1>1 DEF Invariant, TypeOK
<1>3. d \in Request BY <1>1, <1>2 DEF Request
<1>4. now' = now /\ requests' = [requests EXCEPT ![q] = d] BY DEF Starts
<1>5. d.pc = pc /\ d.user = u /\ d.began = now /\ d.action = action /\ d.target = t
  OBVIOUS
<1>6. now <= now + MaxLag /\ now <= now
  <2>1. now \in Nat BY <1>2 DEF Time
  <2> QED BY <2>1, TimesAreNat
<1> HIDE DEF d
<1>7. GoodRequest(d) BY <1>1, <1>5, <1>6 DEF GoodRequest
<1> QED BY <1>3, <1>4, <1>7, RequestMoves DEF RequestsGood

LEMMA ListingGood ==
  ASSUME Invariant, [Next]_vars, NEW q \in Requests,
         \/ LookUp(q) \/ Fetch(q) \/ FetchFails(q) \/ Store(q) \/ FallBack(q)
         \/ StartSync(q) \/ SkipSync(q) \/ Sync(q)
  PROVE  RequestsGood'
<1>1. PICK c \in Request : c = requests[q] BY RequestTyped
<1>2. GoodRequest(c) BY <1>1, RequestTyped
<1>3. /\ c.began \in Nat /\ c.ids \in SUBSET Repos /\ Window \in Nat /\ now \in Nat
      /\ CacheTtl \in Nat /\ StaleMax \in Nat /\ MaxLag \in Nat
  BY TimesAreNat DEF Request, Time, Window, Invariant, TypeOK
<1>4. Window = CacheTtl + StaleMax + MaxLag BY DEF Window
<1>5. c.pc # "idle" => c.user \in Users /\ c.began <= now /\ now <= c.began + MaxLag
  BY <1>2 DEF GoodRequest
(* What the cache holds is not older than Window before the request. *)
<1>6. ASSUME c.pc # "idle", ValidCache(c.user) \/ StaleCache(c.user)
      PROVE  /\ cache[c.user].ids \in SUBSET Repos
             /\ \A r \in cache[c.user].ids : HadAccess(c.user, r, c.began - Window)
  <2>1. cache[c.user] \in Entry
    BY <1>5, <1>6 DEF Invariant, TypeOK, ValidCache, StaleCache
  <2>2. /\ stored[c.user] \in Nat
        /\ cache[c.user].expires = stored[c.user] + CacheTtl
        /\ \A r \in cache[c.user].ids : HadAccess(c.user, r, stored[c.user] - MaxLag)
    <3>1. GoodEntry(c.user) BY <1>5, <1>6 DEF Invariant
    <3>2. stored[c.user] \in Time \cup {None} BY <1>5, <1>6 DEF Invariant, TypeOK
    <3> QED BY <1>6, <3>1, <3>2 DEF GoodEntry, ValidCache, StaleCache, Time
  <2>3. stored[c.user] + CacheTtl + StaleMax > now
    BY <1>6, <2>2, <1>3 DEF ValidCache, StaleCache
  <2>4. c.began - Window <= stored[c.user] - MaxLag BY <2>2, <2>3, <1>3, <1>4, <1>5, <1>6
  <2>5. ASSUME NEW r \in cache[c.user].ids PROVE HadAccess(c.user, r, c.began - Window)
    <3>1. HadAccess(c.user, r, stored[c.user] - MaxLag) BY <2>2
    <3>2. r \in Repos BY <2>1 DEF Entry
    <3>3. until[c.user][r] = None \/ until[c.user][r] \in Nat
      BY <1>5, <1>6, <3>2 DEF Invariant, TypeOK, Time
    <3> QED BY <3>1, <3>3, <2>2, <2>4, <1>3 DEF HadAccess
  <2> QED BY <2>1, <2>5 DEF Entry
<1>7. CASE LookUp(q)
  <2>1. c.pc = "lookup" /\ now' = now BY <1>1, <1>7 DEF LookUp, Goes
  <2>2. CASE login[c.user] # c.token
    <3> DEFINE d == [c EXCEPT !.pc = "fetch"]
    <3>1. requests' = [requests EXCEPT ![q] = d] BY <1>1, <1>7, <2>2 DEF LookUp, Goes
    <3>2. GoesOn(d, c) /\ d.pc = "fetch" BY <2>1 DEF GoesOn, Request
    <3> QED BY <1>1, <2>1, <3>1, <3>2, Steps
  <2>3. CASE login[c.user] = c.token /\ ValidCache(c.user)
    <3> DEFINE d == [c EXCEPT !.pc = "sync", !.ids = cache[c.user].ids, !.cached = TRUE]
    <3>1. requests' = [requests EXCEPT ![q] = d] BY <1>1, <1>7, <2>3 DEF LookUp, Goes
    <3>2. cache[c.user].ids \in SUBSET Repos /\
          \A r \in cache[c.user].ids : HadAccess(c.user, r, c.began - Window)
      BY <1>6, <2>1, <2>3
    <3>3. GoesOn(d, c) /\ d.pc = "sync" /\ d.ids = cache[c.user].ids
      BY <2>1, <3>2 DEF GoesOn, Request
    <3> QED BY <1>1, <2>1, <3>1, <3>2, <3>3, Steps
  <2>4. CASE login[c.user] = c.token /\ ~ValidCache(c.user)
    <3> DEFINE d == [c EXCEPT !.pc = "fetch", !.cached = TRUE]
    <3>1. requests' = [requests EXCEPT ![q] = d] BY <1>1, <1>7, <2>4 DEF LookUp, Goes
    <3>2. GoesOn(d, c) /\ d.pc = "fetch" BY <2>1 DEF GoesOn, Request
    <3> QED BY <1>1, <2>1, <3>1, <3>2, Steps
  <2> QED BY <2>2, <2>3, <2>4
<1>8. CASE Fetch(q)
  <2> DEFINE d == [c EXCEPT !.pc = IF c.cached THEN "store" ELSE "shown", !.ids = access[c.user]]
  <2>1. c.pc = "fetch" /\ now' = now /\ requests' = [requests EXCEPT ![q] = d]
    BY <1>1, <1>8 DEF Fetch, Goes
  <2>2. access[c.user] \in SUBSET Repos BY <1>5, <2>1 DEF Invariant, TypeOK
  <2>3. GoesOn(d, c) /\ d.ids = access[c.user] /\ d.pc \in {"store", "shown"}
    BY <2>1, <2>2 DEF GoesOn, Request
  <2>4. \A r \in access[c.user], since \in Int : HadAccess(c.user, r, since) BY DEF HadAccess
  <2>5. c.began \in Int /\ c.began - Window \in Int BY <1>3
  <2> HIDE DEF d
  <2> QED BY <1>1, <2>1, <2>3, <2>4, <2>5, Steps
<1>9. CASE FetchFails(q)
  <2> DEFINE d == [c EXCEPT !.pc = IF c.cached THEN "stale" ELSE "failed"]
  <2>1. c.pc = "fetch" /\ now' = now /\ requests' = [requests EXCEPT ![q] = d]
    BY <1>1, <1>9 DEF FetchFails, Goes
  <2>2. GoesOn(d, c) /\ d.pc \in {"stale", "failed"} BY <2>1 DEF GoesOn, Request
  <2> HIDE DEF d
  <2> QED BY <1>1, <2>1, <2>2, Steps
<1>10. CASE Store(q)
  <2> DEFINE d == [c EXCEPT !.pc = "sync"]
  <2>1. c.pc = "store" /\ now' = now /\ requests' = [requests EXCEPT ![q] = d]
    BY <1>1, <1>10 DEF Store, Goes
  <2>2. GoesOn(d, c) /\ d.pc = "sync" /\ d.ids = c.ids BY <2>1 DEF GoesOn, Request
  <2>3. ASSUME NEW r \in c.ids PROVE HadAccess(c.user, r, c.began - Window)
    <3>1. HadAccess(c.user, r, c.began) BY <1>2, <2>1 DEF GoodRequest
    <3>2. until[c.user][r] = None \/ until[c.user][r] \in Nat
      BY <1>3, <1>5, <2>1 DEF Invariant, TypeOK, Time
    <3> QED BY <3>1, <3>2, <1>3 DEF HadAccess
  <2> QED BY <1>1, <2>1, <2>2, <2>3, Steps
<1>11. CASE FallBack(q)
  <2>1. c.pc = "stale" /\ now' = now BY <1>1, <1>11 DEF FallBack, Goes
  <2>2. CASE StaleCache(c.user)
    <3> DEFINE d == [c EXCEPT !.pc = "shown", !.ids = cache[c.user].ids]
    <3>1. requests' = [requests EXCEPT ![q] = d] BY <1>1, <1>11, <2>2 DEF FallBack, Goes
    <3>2. cache[c.user].ids \in SUBSET Repos /\
          \A r \in cache[c.user].ids : HadAccess(c.user, r, c.began - Window)
      BY <1>6, <2>1, <2>2
    <3>3. GoesOn(d, c) /\ d.pc = "shown" /\ d.ids = cache[c.user].ids
      BY <2>1, <3>2 DEF GoesOn, Request
    <3> QED BY <1>1, <2>1, <3>1, <3>2, <3>3, Steps
  <2>3. CASE ~StaleCache(c.user)
    <3> DEFINE d == [c EXCEPT !.pc = "failed"]
    <3>1. requests' = [requests EXCEPT ![q] = d] BY <1>1, <1>11, <2>3 DEF FallBack, Goes
    <3>2. GoesOn(d, c) /\ d.pc = "failed" BY <2>1 DEF GoesOn, Request
    <3> QED BY <1>1, <2>1, <3>1, <3>2, Steps
  <2> QED BY <2>2, <2>3
<1>12. CASE StartSync(q) \/ SkipSync(q) \/ Sync(q)
  <2>1. PICK pc \in {"syncing", "shown"} :
          requests' = [requests EXCEPT ![q] = [c EXCEPT !.pc = pc]]
    BY <1>1, <1>12 DEF StartSync, SkipSync, Sync, Goes
  <2>2. c.pc \in {"sync", "syncing"} /\ now' = now
    BY <1>1, <1>12 DEF StartSync, SkipSync, Sync, Goes
  <2> DEFINE d == [c EXCEPT !.pc = pc]
  <2>3. GoesOn(d, c) /\ d.pc = pc /\ d.ids = c.ids BY <2>2 DEF GoesOn, Request
  <2>4. \A r \in c.ids : HadAccess(c.user, r, c.began - Window)
    BY <1>2, <2>2 DEF GoodRequest
  <2> QED BY <1>1, <2>1, <2>2, <2>3, <2>4, Steps
<1> QED BY <1>7, <1>8, <1>9, <1>10, <1>11, <1>12

LEMMA ChecksGood ==
  ASSUME Invariant, [Next]_vars, NEW q \in Requests, CheckAccess(q) \/ CheckFails(q)
  PROVE  RequestsGood'
<1>1. PICK c \in Request : c = requests[q] BY RequestTyped
<1>2. c.pc = "check" /\ now' = now BY <1>1 DEF CheckAccess, CheckFails, Goes
<1>3. CASE CheckAccess(q)
  <2> DEFINE d == [c EXCEPT !.pc = "act"]
  <2>1. requests' = [requests EXCEPT ![q] = d] BY <1>1, <1>3 DEF CheckAccess, Goes
  <2>2. GoesOn(d, c) /\ d.pc = "act" BY <1>2 DEF GoesOn, Request
  <2>3. c.repo \in Repos BY <1>1, <1>3 DEF CheckAccess, Invariant, TypeOK
  <2>4. HadAccess(c.user, c.repo, c.began) BY <1>1, <1>3 DEF CheckAccess, HadAccess
  <2> QED BY <1>1, <1>2, <2>1, <2>2, <2>3, <2>4, Steps
<1>4. CASE CheckFails(q)
  <2> DEFINE d == [c EXCEPT !.pc = "failed"]
  <2>1. requests' = [requests EXCEPT ![q] = d] BY <1>1, <1>4 DEF CheckFails, Goes
  <2>2. GoesOn(d, c) /\ d.pc = "failed" BY <1>2 DEF GoesOn, Request
  <2> QED BY <1>1, <1>2, <2>1, <2>2, Steps
<1> QED BY <1>3, <1>4

(* A viewer is said to be complete only if each of its types has an artifact *)
(* that gets a link.                                                         *)
LEMMA CompleteViewersAreLinked ==
  ASSUME NEW r \in Repos, NEW v \in Viewers, ViewerStatus(r, v) = "available",
         NEW type \in Needs[v]
  PROVE  \E a \in OfType(r, type) : a \in Linked(r)
<1>1. {x \in Needs[v] : HasAvailable(r, x)} = Needs[v] BY DEF ViewerStatus
<1>2. HasAvailable(r, type) BY <1>1
<1>3. PICK a \in OfType(r, type) : statuses[a] = "available" BY <1>2 DEF HasAvailable
<1>4. a \in Linked(r) BY <1>3 DEF OfType, Linked
<1> QED BY <1>3, <1>4

LEMMA ViewSourcesGood ==
  ASSUME Invariant, [Next]_vars, NEW q \in Requests, ViewSources(q)
  PROVE  RequestsGood'
<1>1. PICK c \in Request : c = requests[q] BY RequestTyped
<1>2. GoodRequest(c) /\ c.pc = "act" BY <1>1, RequestTyped DEF ViewSources
<1>3. /\ c.user \in Users /\ c.repo \in Repos /\ c.began <= now /\ now <= c.began + MaxLag
      /\ c.action \in {"create", "revoke"} => c.target \in Tokens
  BY <1>2 DEF GoodRequest
<1>4. PICK complete : complete = {v \in Viewers : ViewerStatus(c.repo, v) = "available"}
  OBVIOUS
<1>5. [c EXCEPT !.pc = "viewed", !.view = complete] \in Request BY <1>4 DEF Request
<1>6. PICK d \in Request :
        /\ d = [c EXCEPT !.pc = "viewed", !.view = complete]
        /\ d.pc = "viewed" /\ d.view = complete /\ d.user = c.user /\ d.began = c.began
        /\ d.repo = c.repo /\ d.action = c.action /\ d.target = c.target
  BY <1>5 DEF Request
<1>7. /\ now' = now /\ requests' = [requests EXCEPT ![q] = d]
       /\ links' = links \cup {LinkTo(a, c.user) : a \in Linked(c.repo)}
  BY <1>1, <1>4, <1>6 DEF ViewSources
<1>8. ASSUME NEW v \in complete, NEW type \in Needs[v]
      PROVE  \E a \in OfType(c.repo, type), link \in links' :
               link.artifact = a /\ link.user = c.user /\ link.expires >= c.began + UrlTtl
  <2>1. PICK a \in OfType(c.repo, type) : a \in Linked(c.repo)
    BY <1>3, <1>4, CompleteViewersAreLinked
  <2>2. LinkTo(a, c.user) \in links' BY <1>7, <2>1
  <2>3. now + UrlTtl >= c.began + UrlTtl
    BY <1>3, TimesAreNat DEF Request, Time, Invariant, TypeOK
  <2> QED BY <2>1, <2>2, <2>3 DEF LinkTo
<1>9. Complete(d)' BY <1>6, <1>8 DEF Complete, OfType
<1>10. GoodRequest(d)' BY <1>3, <1>6, <1>9, <1>7 DEF GoodRequest
<1> QED BY <1>10, <1>7, RequestKept DEF RequestsGood

LEMMA EndsGood ==
  ASSUME Invariant, [Next]_vars, NEW q \in Requests,
         End(q) \/ CreateApiToken(q) \/ RevokeApiToken(q)
  PROVE  RequestsGood'
<1>1. requests' = [requests EXCEPT ![q] = NoRequest] /\ now' = now
  BY DEF End, CreateApiToken, RevokeApiToken
<1>2. NoRequest \in Request BY TimesAreNat DEF NoRequest, Request, Time
<1>3. GoodRequest(NoRequest) BY DEF GoodRequest, NoRequest
<1> QED BY <1>1, <1>2, <1>3, RequestMoves DEF RequestsGood

LEMMA RequestsNext == Invariant /\ [Next]_vars => RequestsGood'
<1> SUFFICES ASSUME Invariant, [Next]_vars PROVE RequestsGood' OBVIOUS
<1>1. ASSUME NEW q \in Requests, Browse(q) PROVE RequestsGood'
  <2>1. CASE \E s \in Sessions : BeginList(q, s)
    <3>1. "list" \in Action BY DEF Action
    <3> QED BY <2>1, <3>1, StartsGood DEF BeginList
  <2>2. CASE \E s \in Sessions, r \in Repos : BeginView(q, s, r)
    <3>1. "view" \in Action BY DEF Action
    <3> QED BY <2>2, <3>1, StartsGood DEF BeginView
  <2>3. CASE \E s \in Sessions, r \in Repos, t \in Tokens :
               BeginCreate(q, s, r, t) \/ BeginRevoke(q, s, r, t)
    <3>1. "create" \in Action /\ "revoke" \in Action BY DEF Action
    <3> QED BY <2>3, <3>1, StartsGood DEF BeginCreate, BeginRevoke
  <2> QED BY <1>1, <2>1, <2>2, <2>3, ListingGood, ChecksGood, ViewSourcesGood, EndsGood
          DEF Browse
<1>2. CASE UNCHANGED requests BY <1>2, RequestsLeft DEF RequestsGood
<1>3. CASE ~(\E q \in Requests : Browse(q)) /\ ~UNCHANGED requests
  BY <1>3 DEF Next, vars, Tick, GrantAccess, LoseAccess, Callback, CleanUp, Register, Import,
     Logout, Expire, Authenticate, UpdateLastUsedAt
<1> QED BY <1>1, <1>2, <1>3

-----------------------------------------------------------------------------
(* The cache *)

LEMMA OnlyStoreWrites ==
  ASSUME NEW q \in Requests, Browse(q), ~Store(q)
  PROVE  UNCHANGED <<cache, stored>>
<1>1. CASE \E s \in Sessions : BeginList(q, s)
  BY <1>1 DEF BeginList, Starts, caching
<1>2. CASE \E s \in Sessions, r \in Repos : BeginView(q, s, r)
  BY <1>2 DEF BeginView, Starts, caching
<1>3. CASE \E s \in Sessions, r \in Repos, t \in Tokens :
             BeginCreate(q, s, r, t) \/ BeginRevoke(q, s, r, t)
  BY <1>3 DEF BeginCreate, BeginRevoke, Starts, caching
<1>4. CASE LookUp(q) \/ Fetch(q) \/ FetchFails(q) \/ FallBack(q)
  BY <1>4 DEF LookUp, Fetch, FetchFails, FallBack, caching
<1>5. CASE StartSync(q) \/ SkipSync(q) \/ Sync(q)
  BY <1>5 DEF StartSync, SkipSync, Sync, caching
<1>6. CASE CheckAccess(q) \/ CheckFails(q) BY <1>6 DEF CheckAccess, CheckFails, caching
<1>7. CASE ViewSources(q) \/ CreateApiToken(q) \/ RevokeApiToken(q) \/ End(q)
  BY <1>7 DEF ViewSources, CreateApiToken, RevokeApiToken, End, caching
<1> QED BY <1>1, <1>2, <1>3, <1>4, <1>5, <1>6, <1>7 DEF Browse

LEMMA GoodEntryStays ==
  ASSUME Invariant, [Next]_vars, NEW u \in Users,
         cache'[u] = cache[u], stored'[u] = stored[u]
  PROVE  GoodEntry(u)'
<1>1. GoodEntry(u) BY DEF Invariant
<1>2. /\ stored[u] \in Nat \cup {None} /\ now \in Nat /\ now' \in Nat /\ now <= now'
      /\ CacheTtl \in Nat /\ StaleMax \in Nat /\ MaxLag \in Nat
  BY TimesAreNat, TimeMoves DEF Invariant, TypeOK, Time
<1>3. stored[u] # None =>
        stored[u] <= now' /\ (cache[u] # None \/ stored[u] + CacheTtl + StaleMax < now')
  BY <1>1, <1>2 DEF GoodEntry
<1>4. ASSUME cache[u] # None, NEW r \in cache[u].ids PROVE HadAccess(u, r, stored[u] - MaxLag)'
  <2>1. r \in Repos BY <1>4 DEF Invariant, TypeOK, Entry
  <2>2. PICK since \in Int : since = stored[u] - MaxLag BY <1>1, <1>2, <1>4 DEF GoodEntry
  <2>3. HadAccess(u, r, since) BY <1>1, <1>4, <2>2 DEF GoodEntry
  <2>4. since <= now BY <1>1, <1>2, <1>4, <2>2 DEF GoodEntry
  <2>5. HadAccess(u, r, since)' BY <2>1, <2>3, <2>4, AccessStays
  <2> QED BY <2>2, <2>5 DEF HadAccess
<1>5. cache[u] # None => stored[u] # None /\ cache[u].expires = stored[u] + CacheTtl
  BY <1>1 DEF GoodEntry
<1> QED BY <1>3, <1>4, <1>5 DEF GoodEntry, HadAccess

LEMMA EntriesNext ==
  Invariant /\ [Next]_vars =>
    /\ cache' \in [Users -> Entry \cup {None}]
    /\ stored' \in [Users -> Time \cup {None}]
    /\ \A u \in Users : GoodEntry(u)'
<1> SUFFICES ASSUME Invariant, [Next]_vars
             PROVE  /\ cache' \in [Users -> Entry \cup {None}]
                    /\ stored' \in [Users -> Time \cup {None}]
                    /\ \A u \in Users : GoodEntry(u)'
  OBVIOUS
<1>0. /\ cache \in [Users -> Entry \cup {None}]
      /\ stored \in [Users -> Time \cup {None}]
      /\ now \in Time /\ now \in Nat /\ MaxLag \in Nat /\ CacheTtl \in Nat
  BY TimesAreNat DEF Invariant, TypeOK, Time
<1>1. CASE \E q \in Requests : Store(q)
  <2>1. PICK q \in Requests : Store(q) BY <1>1
  <2>2. PICK c \in Request : c = requests[q] BY RequestTyped
  <2>3. GoodRequest(c) /\ c.pc = "store" BY <2>1, <2>2, RequestTyped DEF Store
  <2>4. /\ c.user \in Users /\ c.began <= now /\ now <= c.began + MaxLag /\ c.began \in Nat
        /\ c.ids \in SUBSET Repos
        /\ \A r \in c.ids : HadAccess(c.user, r, c.began)
    BY <2>3, TimesAreNat DEF GoodRequest, Request, Time
  <2>5. /\ cache' = [cache EXCEPT ![c.user] = [ids |-> c.ids, expires |-> now + CacheTtl]]
        /\ stored' = [stored EXCEPT ![c.user] = now]
        /\ now' = now /\ access' = access /\ until' = until
    BY <2>1, <2>2 DEF Store, Goes, github
  <2>6. [ids |-> c.ids, expires |-> now + CacheTtl] \in Entry BY <2>4, <1>0 DEF Entry
  <2>7. ASSUME NEW r \in c.ids PROVE HadAccess(c.user, r, now - MaxLag)
    <3>1. HadAccess(c.user, r, c.began) BY <2>4
    <3>2. until[c.user][r] = None \/ until[c.user][r] \in Nat
      BY <2>4, TimesAreNat DEF Invariant, TypeOK, Time
    <3> QED BY <3>1, <3>2, <2>4, <1>0 DEF HadAccess
  <2>8. GoodEntry(c.user)'
    <3>1. cache'[c.user] = [ids |-> c.ids, expires |-> now + CacheTtl] BY <1>0, <2>4, <2>5
    <3>2. stored'[c.user] = now BY <1>0, <2>4, <2>5
    <3>3. cache'[c.user] # None BY <2>6, <3>1, NoneIsNew
    <3>4. cache'[c.user].ids = c.ids /\ cache'[c.user].expires = now + CacheTtl BY <3>1
    <3>5. now # None BY <1>0, NoneIsNew
    <3>6. \A r \in c.ids : HadAccess(c.user, r, now - MaxLag)' BY <2>5, <2>7 DEF HadAccess
    <3> QED BY <2>5, <3>2, <3>3, <3>4, <3>5, <3>6, <1>0 DEF GoodEntry, HadAccess
  <2>9. ASSUME NEW u \in Users, u # c.user PROVE GoodEntry(u)'
    BY <2>4, <2>5, <2>9, <1>0, GoodEntryStays
  <2>10. \A u \in Users : GoodEntry(u)'
    <3> SUFFICES ASSUME NEW u \in Users PROVE GoodEntry(u)' OBVIOUS
    <3>1. CASE u = c.user BY <2>8, <3>1 DEF GoodEntry, HadAccess
    <3> QED BY <2>9, <3>1
  <2> QED BY <1>0, <2>5, <2>6, <2>10
<1>2. CASE \E u \in Users : CleanUp(u)
  <2>1. PICK v \in Users : CleanUp(v) BY <1>2
  <2>2. cache' = [cache EXCEPT ![v] = None] /\ stored' = stored /\ now' = now
    BY <2>1 DEF CleanUp
  <2>3. GoodEntry(v)'
    <3>1. GoodEntry(v) BY DEF Invariant
    <3>2. cache[v] # None /\ cache[v].expires + StaleMax < now BY <2>1 DEF CleanUp
    <3>3. cache'[v] = None BY <1>0, <2>2
    <3> QED BY <2>2, <3>1, <3>2, <3>3 DEF GoodEntry
  <2>4. ASSUME NEW u \in Users, u # v PROVE GoodEntry(u)'
    BY <2>2, <2>4, <1>0, GoodEntryStays
  <2>5. \A u \in Users : GoodEntry(u)'
    <3> SUFFICES ASSUME NEW u \in Users PROVE GoodEntry(u)' OBVIOUS
    <3>1. CASE u = v BY <2>3, <3>1 DEF GoodEntry, HadAccess
    <3> QED BY <2>4, <3>1
  <2> QED BY <1>0, <2>2, <2>5
<1>3. CASE UNCHANGED <<cache, stored>>
  <2>1. \A u \in Users : GoodEntry(u)' BY <1>3, GoodEntryStays
  <2> QED BY <1>0, <1>3, <2>1
<1>4. CASE \E q \in Requests : Browse(q) BY <1>1, <1>3, <1>4, OnlyStoreWrites
<1> QED
  BY <1>2, <1>3, <1>4 DEF Next, vars, caching, Tick, GrantAccess, LoseAccess, Callback,
     Register, Import, Logout, Expire, Authenticate, UpdateLastUsedAt

-----------------------------------------------------------------------------
(* Links and tokens *)

LEMMA OnlyViewSourcesLinks ==
  ASSUME NEW q \in Requests, Browse(q), ~ViewSources(q)
  PROVE  UNCHANGED links
<1>1. CASE \E s \in Sessions : BeginList(q, s)
  BY <1>1 DEF BeginList, Starts
<1>2. CASE \E s \in Sessions, r \in Repos : BeginView(q, s, r)
  BY <1>2 DEF BeginView, Starts
<1>3. CASE \E s \in Sessions, r \in Repos, t \in Tokens :
             BeginCreate(q, s, r, t) \/ BeginRevoke(q, s, r, t)
  BY <1>3 DEF BeginCreate, BeginRevoke, Starts
<1>4. CASE LookUp(q) \/ Fetch(q) \/ FetchFails(q) \/ Store(q) \/ FallBack(q)
  BY <1>4 DEF LookUp, Fetch, FetchFails, Store, FallBack, Goes
<1>5. CASE StartSync(q) \/ SkipSync(q) \/ Sync(q)
  BY <1>5 DEF StartSync, SkipSync, Sync, Goes
<1>6. CASE CheckAccess(q) \/ CheckFails(q) BY <1>6 DEF CheckAccess, CheckFails, Goes
<1>7. CASE CreateApiToken(q) \/ RevokeApiToken(q) \/ End(q)
  BY <1>7 DEF CreateApiToken, RevokeApiToken, End
<1> QED BY <1>1, <1>2, <1>3, <1>4, <1>5, <1>6, <1>7 DEF Browse

LEMMA GoodLinkStays ==
  ASSUME Invariant, [Next]_vars, NEW link \in links
  PROVE  GoodLink(link)'
<1>1. GoodLink(link) /\ link \in Link BY DEF Invariant, TypeOK
<1>2. /\ link.expires \in Nat /\ link.user \in Users /\ RepoOf[link.artifact] \in Repos
      /\ UrlTtl \in Nat /\ MaxLag \in Nat /\ now \in Nat /\ now' \in Nat /\ now <= now'
  BY <1>1, TimesAreNat, ArtifactsAssumption, TimeMoves DEF Link
<1>3. PICK since \in Int : since = link.expires - (UrlTtl + MaxLag) BY <1>2
<1>4. since <= now /\ HadAccess(link.user, RepoOf[link.artifact], since)
  BY <1>1, <1>2, <1>3 DEF GoodLink
<1>5. HadAccess(link.user, RepoOf[link.artifact], since)' BY <1>2, <1>4, AccessStays
<1>6. link.expires <= now' + UrlTtl BY <1>1, <1>2 DEF GoodLink
<1> QED BY <1>3, <1>5, <1>6 DEF GoodLink, HadAccess

LEMMA LinksNext ==
  Invariant /\ [Next]_vars => links' \in SUBSET Link /\ \A link \in links' : GoodLink(link)'
<1> SUFFICES ASSUME Invariant, [Next]_vars
             PROVE  links' \in SUBSET Link /\ \A link \in links' : GoodLink(link)'
  OBVIOUS
<1>0. links \in SUBSET Link /\ now \in Nat /\ UrlTtl \in Nat /\ MaxLag \in Nat
  BY TimesAreNat DEF Invariant, TypeOK, Time
<1>1. CASE \E q \in Requests : ViewSources(q)
  <2>1. PICK q \in Requests : ViewSources(q) BY <1>1
  <2>2. PICK c \in Request : c = requests[q] BY RequestTyped
  <2>3. GoodRequest(c) /\ c.pc = "act" BY <2>1, <2>2, RequestTyped DEF ViewSources
  <2>4. /\ c.user \in Users /\ c.began \in Nat /\ now <= c.began + MaxLag /\ c.repo \in Repos
        /\ HadAccess(c.user, c.repo, c.began)
    BY <2>3, TimesAreNat DEF GoodRequest, Request, Time
  <2>5. links' = links \cup {LinkTo(a, c.user) : a \in Linked(c.repo)} /\ now' = now
        /\ access' = access /\ until' = until
    BY <2>1, <2>2 DEF ViewSources, github
  <2>6. ASSUME NEW a \in Linked(c.repo)
        PROVE  LinkTo(a, c.user) \in Link /\ GoodLink(LinkTo(a, c.user))'
    <3>1. PICK link : link = LinkTo(a, c.user) OBVIOUS
    <3>2. /\ link \in Link /\ link.artifact = a /\ link.user = c.user
          /\ link.expires = now + UrlTtl
      BY <3>1, <2>4, <1>0 DEF LinkTo, Link, Linked
    <3>3. RepoOf[a] = c.repo BY DEF Linked
    <3>4. PICK since \in Int : since = link.expires - (UrlTtl + MaxLag) /\ since <= c.began
      BY <3>2, <2>4, <1>0
    <3>5. until[c.user][c.repo] = None \/ until[c.user][c.repo] \in Nat
      BY <2>4, TimesAreNat DEF Invariant, TypeOK, Time
    <3>6. HadAccess(c.user, c.repo, since) BY <3>4, <3>5, <2>4 DEF HadAccess
    <3>7. HadAccess(c.user, c.repo, link.expires - (UrlTtl + MaxLag)) BY <3>4, <3>6
    <3>8. GoodLink(link) BY <3>2, <3>3, <3>7, <1>0 DEF GoodLink
    <3>9. GoodLink(link)' BY <3>8, <2>5 DEF GoodLink, HadAccess
    <3>10. LinkTo(a, c.user)' = link BY <3>1, <2>5 DEF LinkTo
    <3> QED BY <3>1, <3>2, <3>9, <3>10 DEF GoodLink, HadAccess, LinkTo
  <2>7. ASSUME NEW link \in links' PROVE link \in Link /\ GoodLink(link)'
    <3>1. CASE link \in links BY <3>1, <1>0, GoodLinkStays
    <3>2. CASE link \notin links
      <4>1. PICK a \in Linked(c.repo) : link = LinkTo(a, c.user) BY <3>2, <2>5
      <4> QED BY <4>1, <2>6, <2>5 DEF GoodLink, HadAccess, LinkTo
    <3> QED BY <3>1, <3>2
  <2> QED BY <2>7
<1>2. CASE links' \subseteq links BY <1>0, <1>2, GoodLinkStays
<1>3. CASE \E q \in Requests : Browse(q) BY <1>1, <1>2, <1>3, OnlyViewSourcesLinks
<1> QED
  BY <1>2, <1>3 DEF Next, vars, Tick, GrantAccess, LoseAccess, Callback, CleanUp,
     Register, Import, Logout, Expire, Authenticate, UpdateLastUsedAt

LEMMA OnlyTokenActionsWrite ==
  ASSUME NEW q \in Requests, Browse(q), ~CreateApiToken(q), ~RevokeApiToken(q)
  PROVE  UNCHANGED tokens
<1>1. CASE \E s \in Sessions : BeginList(q, s)
  BY <1>1 DEF BeginList, Starts
<1>2. CASE \E s \in Sessions, r \in Repos : BeginView(q, s, r)
  BY <1>2 DEF BeginView, Starts
<1>3. CASE \E s \in Sessions, r \in Repos, t \in Tokens :
             BeginCreate(q, s, r, t) \/ BeginRevoke(q, s, r, t)
  BY <1>3 DEF BeginCreate, BeginRevoke, Starts
<1>4. CASE LookUp(q) \/ Fetch(q) \/ FetchFails(q) \/ Store(q) \/ FallBack(q)
  BY <1>4 DEF LookUp, Fetch, FetchFails, Store, FallBack, Goes
<1>5. CASE StartSync(q) \/ SkipSync(q) \/ Sync(q)
  BY <1>5 DEF StartSync, SkipSync, Sync, Goes
<1>6. CASE CheckAccess(q) \/ CheckFails(q) BY <1>6 DEF CheckAccess, CheckFails, Goes
<1>7. CASE ViewSources(q) \/ End(q) BY <1>7 DEF ViewSources, End
<1> QED BY <1>1, <1>2, <1>3, <1>4, <1>5, <1>6, <1>7 DEF Browse

TokenTypes ==
  /\ apiTokens \in [Tokens -> ApiToken \cup {None}]
  /\ used \in [Tokens -> Time \cup {None}]
  /\ touching \in SUBSET [token : Tokens, began : Time]

LEMMA TokensTyped ==
  ASSUME Invariant
  PROVE  /\ TokenTypes
         /\ \A t \in Tokens : apiTokens[t] # None =>
              /\ apiTokens[t].by \in Users /\ apiTokens[t].repo \in Repos
              /\ apiTokens[t].created \in Nat
              /\ apiTokens[t].revoked \in Nat \cup {None}
         /\ \A t \in Tokens : used[t] \in Nat \cup {None}
         /\ \A w \in touching : w.token \in Tokens /\ w.began \in Nat
         /\ now \in Nat /\ now \in Time /\ MaxLag \in Nat
BY TimesAreNat DEF Invariant, TypeOK, Time, ApiToken, TokenTypes

(* A token that no step touches is as good as it was. *)
LEMMA GoodTokenStays ==
  ASSUME Invariant, [Next]_vars, NEW t \in Tokens,
         apiTokens'[t] = apiTokens[t], used'[t] = used[t]
  PROVE  GoodToken(t)'
<1>1. GoodToken(t) BY DEF Invariant
<1>2. now \in Nat /\ now' \in Nat /\ now <= now' /\ MaxLag \in Nat BY TimesAreNat, TimeMoves
<1>3. used[t] # None => used[t] <= now' BY <1>1, <1>2, TokensTyped DEF GoodToken
<1>4. ASSUME apiTokens[t] # None
      PROVE  /\ apiTokens[t].created <= now'
             /\ HadAccess(apiTokens[t].by, apiTokens[t].repo, apiTokens[t].created - MaxLag)'
  <2>1. PICK u \in Users, r \in Repos, since \in Int :
          u = apiTokens[t].by /\ r = apiTokens[t].repo /\ since = apiTokens[t].created - MaxLag
    BY <1>2, <1>4, TokensTyped
  <2>2. HadAccess(u, r, since) /\ since <= now
    BY <1>1, <1>2, <1>4, <2>1, TokensTyped DEF GoodToken
  <2>3. HadAccess(u, r, since)' BY <2>2, AccessStays
  <2>4. apiTokens[t].created <= now' BY <1>1, <1>2, <1>4, TokensTyped DEF GoodToken
  <2> QED BY <2>1, <2>3, <2>4 DEF HadAccess
<1>5. apiTokens[t] # None /\ apiTokens[t].revoked # None /\ used[t] # None =>
        used[t] <= apiTokens[t].revoked + MaxLag
  BY <1>1 DEF GoodToken
<1> QED BY <1>3, <1>4, <1>5 DEF GoodToken, HadAccess

LEMMA GoodUpdateStays ==
  ASSUME Invariant, [Next]_vars, NEW w \in touching, apiTokens'[w.token] = apiTokens[w.token]
  PROVE  GoodUpdate(w)'
<1>1. GoodUpdate(w) BY DEF Invariant
<1>2. now \in Nat /\ now' \in Nat /\ now <= now' /\ now' <= w.began + MaxLag BY TimeMoves
<1>3. w.began \in Nat BY TokensTyped
<1> QED BY <1>1, <1>2, <1>3 DEF GoodUpdate

TokensGood ==
  /\ TokenTypes
  /\ \A t \in Tokens : GoodToken(t)
  /\ \A w \in touching : GoodUpdate(w)

LEMMA TokensLeft ==
  ASSUME Invariant, [Next]_vars, UNCHANGED tokens
  PROVE  TokensGood'
<1>1. apiTokens' = apiTokens /\ used' = used /\ touching' = touching BY DEF tokens
<1>2. TokenTypes' BY <1>1, TokensTyped DEF TokenTypes
<1>3. \A t \in Tokens : GoodToken(t)' BY <1>1, GoodTokenStays
<1>4. \A w \in touching : GoodUpdate(w)' BY <1>1, GoodUpdateStays
<1> QED BY <1>1, <1>2, <1>3, <1>4 DEF TokensGood

LEMMA CreateGood ==
  ASSUME Invariant, [Next]_vars, NEW q \in Requests, CreateApiToken(q)
  PROVE  TokensGood'
<1>1. PICK c \in Request : c = requests[q] BY RequestTyped
<1>2. GoodRequest(c) /\ c.pc = "act" /\ c.action = "create"
  BY <1>1, RequestTyped DEF CreateApiToken
<1>3. /\ c.user \in Users /\ c.target \in Tokens /\ c.repo \in Repos /\ c.began \in Nat
      /\ now <= c.began + MaxLag /\ HadAccess(c.user, c.repo, c.began)
  BY <1>2, TimesAreNat DEF GoodRequest, Request, Time
<1>4. PICK token \in ApiToken :
        token = [repo |-> c.repo, by |-> c.user, created |-> now, revoked |-> None]
  BY <1>3, TokensTyped DEF ApiToken
<1>5. /\ apiTokens[c.target] = None /\ apiTokens' = [apiTokens EXCEPT ![c.target] = token]
      /\ used' = used /\ touching' = touching /\ now' = now
      /\ access' = access /\ until' = until
  BY <1>1, <1>4 DEF CreateApiToken, github
<1>6. TokenTypes' BY <1>5, TokensTyped DEF TokenTypes
<1>7. apiTokens'[c.target] = token BY <1>3, <1>5, TokensTyped DEF TokenTypes
<1>8. GoodToken(c.target)'
  <2>1. until[c.user][c.repo] = None \/ until[c.user][c.repo] \in Nat
    BY <1>3, TimesAreNat DEF Invariant, TypeOK, Time
  <2>2. HadAccess(c.user, c.repo, now - MaxLag) BY <1>3, <2>1, TokensTyped DEF HadAccess
  <2>3. token.created = now /\ token.by = c.user /\ token.repo = c.repo /\ token.revoked = None
    BY <1>4
  <2>4. used[c.target] # None => used[c.target] <= now BY <1>3 DEF Invariant, GoodToken
  <2>5. now <= now BY TokensTyped
  <2> QED BY <1>5, <1>7, <2>2, <2>3, <2>4, <2>5 DEF GoodToken, HadAccess
<1>9. ASSUME NEW t \in Tokens PROVE GoodToken(t)'
  <2>1. CASE t = c.target BY <1>8, <2>1 DEF GoodToken, HadAccess
  <2>2. CASE t # c.target
    <3>1. apiTokens'[t] = apiTokens[t] /\ used'[t] = used[t]
      BY <2>2, <1>5, TokensTyped DEF TokenTypes
    <3> QED BY <3>1, GoodTokenStays
  <2> QED BY <2>1, <2>2
<1>10. ASSUME NEW w \in touching PROVE GoodUpdate(w)'
  <2>1. w.token \in Tokens /\ w.token # c.target BY <1>5, TokensTyped DEF Invariant, GoodUpdate
  <2>2. apiTokens'[w.token] = apiTokens[w.token] BY <2>1, <1>5, TokensTyped DEF TokenTypes
  <2> QED BY <2>2, GoodUpdateStays
<1> QED BY <1>5, <1>6, <1>9, <1>10 DEF TokensGood

LEMMA RevokeGood ==
  ASSUME Invariant, [Next]_vars, NEW q \in Requests, RevokeApiToken(q)
  PROVE  TokensGood'
<1>1. PICK c \in Request : c = requests[q] BY RequestTyped
<1>2. GoodRequest(c) /\ c.pc = "act" /\ c.action = "revoke"
  BY <1>1, RequestTyped DEF RevokeApiToken
<1>3. c.target \in Tokens BY <1>2 DEF GoodRequest
<1>4. PICK token \in ApiToken : token = apiTokens[c.target]
  BY <1>1, <1>3, TokensTyped DEF RevokeApiToken, TokenTypes
<1>5. CASE token.revoked # None
  <2>1. apiTokens' = [apiTokens EXCEPT ![c.target] = token] /\ used' = used
        /\ touching' = touching
    BY <1>1, <1>4, <1>5 DEF RevokeApiToken
  <2>2. apiTokens' = apiTokens BY <2>1, <1>4, <1>3, TokensTyped DEF TokenTypes
  <2> QED BY <2>1, <2>2, TokensLeft DEF tokens
<1>6. CASE token.revoked = None
  <2>1. PICK late \in ApiToken :
          /\ late.repo = token.repo /\ late.by = token.by /\ late.created = token.created
          /\ late.revoked = now
          /\ late = [token EXCEPT !.revoked = now]
    BY TokensTyped DEF ApiToken
  <2>2. /\ apiTokens' = [apiTokens EXCEPT ![c.target] = late]
        /\ used' = used /\ touching' = touching /\ now' = now
        /\ access' = access /\ until' = until
    BY <1>1, <1>4, <1>6, <2>1 DEF RevokeApiToken, github
  <2>3. TokenTypes' BY <2>2, TokensTyped DEF TokenTypes
  <2>4. apiTokens'[c.target] = late BY <1>3, <2>2, TokensTyped DEF TokenTypes
  <2>5. token # None BY NoneIsNew
  <2>6. GoodToken(c.target)'
    <3>1. GoodToken(c.target) BY <1>3 DEF Invariant
    <3>2. used[c.target] # None => used[c.target] <= now /\ used[c.target] <= now + MaxLag
      BY <1>3, <3>1, TokensTyped DEF GoodToken
    <3>3. late.created <= now /\ HadAccess(late.by, late.repo, late.created - MaxLag)
      BY <3>1, <1>4, <2>1, <2>5 DEF GoodToken
    <3> QED BY <3>2, <3>3, <2>1, <2>2, <2>4 DEF GoodToken, HadAccess
  <2>7. ASSUME NEW t \in Tokens PROVE GoodToken(t)'
    <3>1. CASE t = c.target BY <2>6, <3>1 DEF GoodToken, HadAccess
    <3>2. CASE t # c.target
      <4>1. apiTokens'[t] = apiTokens[t] /\ used'[t] = used[t]
        BY <3>2, <2>2, TokensTyped DEF TokenTypes
      <4> QED BY <4>1, GoodTokenStays
    <3> QED BY <3>1, <3>2
  <2>8. ASSUME NEW w \in touching PROVE GoodUpdate(w)'
    <3>1. w.token \in Tokens BY TokensTyped
    <3>2. CASE w.token = c.target
      <4>1. GoodUpdate(w) BY DEF Invariant
      <4>2. late # None BY NoneIsNew
      <4> QED BY <4>1, <4>2, <3>2, <2>1, <2>2, <2>4 DEF GoodUpdate
    <3>3. CASE w.token # c.target
      <4>1. apiTokens'[w.token] = apiTokens[w.token]
        BY <3>1, <3>3, <2>2, TokensTyped DEF TokenTypes
      <4> QED BY <4>1, GoodUpdateStays
    <3> QED BY <3>2, <3>3
  <2> QED BY <2>2, <2>3, <2>7, <2>8 DEF TokensGood
<1> QED BY <1>5, <1>6

LEMMA AuthenticateGood ==
  ASSUME Invariant, [Next]_vars, NEW t \in Tokens, Authenticate(t)
  PROVE  TokensGood'
<1>1. PICK w \in [token : Tokens, began : Time] : w = [token |-> t, began |-> now]
  BY TokensTyped
<1>2. /\ apiTokens[t] # None /\ apiTokens[t].revoked = None
      /\ touching' = touching \cup {w}
      /\ apiTokens' = apiTokens /\ used' = used /\ now' = now
  BY <1>1 DEF Authenticate
<1>3. TokenTypes' BY <1>2, TokensTyped DEF TokenTypes
<1>4. \A s \in Tokens : GoodToken(s)' BY <1>2, GoodTokenStays
<1>5. GoodUpdate(w)'
  <2>1. w.token = t /\ w.began = now BY <1>1
  <2> QED BY <1>2, <2>1, TokensTyped DEF GoodUpdate
<1>6. \A x \in touching : GoodUpdate(x)' BY <1>2, GoodUpdateStays
<1> QED BY <1>2, <1>3, <1>4, <1>5, <1>6 DEF TokensGood, GoodUpdate

LEMMA UpdateGood ==
  ASSUME Invariant, [Next]_vars, NEW w \in touching, UpdateLastUsedAt(w)
  PROVE  TokensGood'
<1>1. /\ used' = [used EXCEPT ![w.token] = now] /\ touching' = touching \ {w}
      /\ apiTokens' = apiTokens /\ now' = now /\ access' = access /\ until' = until
  BY DEF UpdateLastUsedAt, github
<1>2. TokenTypes' BY <1>1, TokensTyped DEF TokenTypes
<1>3. GoodUpdate(w) /\ w.token \in Tokens /\ w.began \in Nat
  BY TokensTyped DEF Invariant
<1>4. ASSUME NEW t \in Tokens PROVE GoodToken(t)'
  <2>1. CASE t = w.token
    <3>1. used'[t] = now BY <1>1, <2>1, <1>3, TokensTyped DEF TokenTypes
    <3>2. apiTokens[t] # None /\ apiTokens[t].revoked # None =>
            now <= apiTokens[t].revoked + MaxLag
      BY <1>3, <2>1, TokensTyped DEF GoodUpdate
    <3>3. GoodToken(t) /\ now <= now BY TokensTyped DEF Invariant
    <3> QED BY <1>1, <3>1, <3>2, <3>3 DEF GoodToken, HadAccess
  <2>2. CASE t # w.token
    <3>1. apiTokens'[t] = apiTokens[t] /\ used'[t] = used[t]
      BY <2>2, <1>1, TokensTyped DEF TokenTypes
    <3> QED BY <3>1, GoodTokenStays
  <2> QED BY <2>1, <2>2
<1>5. \A x \in touching' : GoodUpdate(x)' BY <1>1, GoodUpdateStays
<1> QED BY <1>2, <1>4, <1>5 DEF TokensGood

LEMMA TokensNext == Invariant /\ [Next]_vars => TokensGood'
<1> SUFFICES ASSUME Invariant, [Next]_vars PROVE TokensGood' OBVIOUS
<1>1. CASE \E q \in Requests : CreateApiToken(q) \/ RevokeApiToken(q)
  BY <1>1, CreateGood, RevokeGood
<1>2. CASE \E t \in Tokens : Authenticate(t) BY <1>2, AuthenticateGood
<1>3. CASE \E w \in touching : UpdateLastUsedAt(w) BY <1>3, UpdateGood
<1>4. CASE UNCHANGED tokens BY <1>4, TokensLeft
<1>5. CASE \E q \in Requests : Browse(q) BY <1>1, <1>4, <1>5, OnlyTokenActionsWrite
<1> QED
  BY <1>2, <1>3, <1>4, <1>5 DEF Next, vars, Tick, GrantAccess, LoseAccess, Callback, CleanUp,
     Register, Import, Logout, Expire

-----------------------------------------------------------------------------
(* The invariant, and what it says *)

OtherTypes ==
  /\ now \in Time
  /\ access \in [Users -> SUBSET Repos]
  /\ until \in [Users -> [Repos -> Time \cup {None}]]
  /\ login \in [Users -> 0..MaxLogins]
  /\ sessions \in [Sessions -> Session \cup {None}]
  /\ throttle \in [Users -> Nat]
  /\ known \in SUBSET Repos
  /\ statuses \in [Artifacts -> Status]

LEMMA OnlySyncRegisters ==
  ASSUME NEW q \in Requests, Browse(q), ~Sync(q)
  PROVE  UNCHANGED <<throttle, known>>
<1>1. CASE \E s \in Sessions : BeginList(q, s)
  BY <1>1 DEF BeginList, Starts, caching
<1>2. CASE \E s \in Sessions, r \in Repos : BeginView(q, s, r)
  BY <1>2 DEF BeginView, Starts, caching
<1>3. CASE \E s \in Sessions, r \in Repos, t \in Tokens :
             BeginCreate(q, s, r, t) \/ BeginRevoke(q, s, r, t)
  BY <1>3 DEF BeginCreate, BeginRevoke, Starts, caching
<1>4. CASE LookUp(q) \/ Fetch(q) \/ FetchFails(q) \/ Store(q) \/ FallBack(q)
  BY <1>4 DEF LookUp, Fetch, FetchFails, Store, FallBack, caching
<1>5. CASE StartSync(q) \/ SkipSync(q) BY <1>5 DEF StartSync, SkipSync, caching
<1>6. CASE CheckAccess(q) \/ CheckFails(q) BY <1>6 DEF CheckAccess, CheckFails, caching
<1>7. CASE ViewSources(q) \/ CreateApiToken(q) \/ RevokeApiToken(q) \/ End(q)
  BY <1>7 DEF ViewSources, CreateApiToken, RevokeApiToken, End, caching
<1> QED BY <1>1, <1>2, <1>3, <1>4, <1>5, <1>6, <1>7 DEF Browse

LEMMA OtherTypesNext == Invariant /\ [Next]_vars => OtherTypes'
<1> SUFFICES ASSUME Invariant, [Next]_vars PROVE OtherTypes' OBVIOUS
<1>0. OtherTypes BY DEF Invariant, TypeOK, OtherTypes
<1>1. CASE Tick
  <2>1. now' \in Time BY <1>0, <1>1, TimesAreNat DEF Tick, OtherTypes, Time
  <2> QED BY <2>1, <1>0, <1>1 DEF Tick, OtherTypes, github, caching
<1>2. CASE \E u \in Users, r \in Repos : GrantAccess(u, r)
  BY <1>0, <1>2 DEF GrantAccess, OtherTypes, caching
<1>3. CASE \E u \in Users, r \in Repos : LoseAccess(u, r)
  <2>1. PICK u \in Users, r \in Repos : LoseAccess(u, r) BY <1>3
  <2>2. [until[u] EXCEPT ![r] = now] \in [Repos -> Time \cup {None}]
    BY <1>0 DEF OtherTypes
  <2>3. until' \in [Users -> [Repos -> Time \cup {None}]]
    BY <1>0, <2>1, <2>2 DEF LoseAccess, OtherTypes
  <2>4. access' \in [Users -> SUBSET Repos] BY <1>0, <2>1 DEF LoseAccess, OtherTypes
  <2> QED BY <1>0, <2>1, <2>3, <2>4 DEF LoseAccess, OtherTypes, caching
<1>4. CASE \E u \in Users, s \in Sessions : Callback(u, s)
  <2>1. PICK u \in Users, s \in Sessions : Callback(u, s) BY <1>4
  <2>2. login[u] \in 0..MaxLogins /\ login[u] < MaxLogins
    BY <1>0, <2>1 DEF Callback, OtherTypes
  <2>3. login[u] + 1 \in 0..MaxLogins BY <2>2, TimesAreNat
  <2>4. login' \in [Users -> 0..MaxLogins] BY <1>0, <2>1, <2>3 DEF Callback, OtherTypes
  <2>5. [user |-> u, expires |-> now + SessionTtl] \in Session
    BY <1>0, TimesAreNat DEF Session, OtherTypes, Time
  <2>6. sessions' \in [Sessions -> Session \cup {None}]
    BY <1>0, <2>1, <2>5 DEF Callback, OtherTypes
  <2> QED BY <1>0, <2>1, <2>4, <2>6 DEF Callback, OtherTypes, github, caching
<1>5. CASE \E s \in Sessions : Logout(s)
  BY <1>0, <1>5 DEF Logout, OtherTypes, github, caching
<1>6. CASE \E r \in Repos : Register(r)
  BY <1>0, <1>6 DEF Register, OtherTypes, github
<1>7. CASE \E r \in Repos : Import(r)
  <2>1. PICK r \in Repos : Import(r) BY <1>7
  <2>2. PICK f \in Outcomes :
          statuses' = [a \in Artifacts |-> IF RepoOf[a] = r THEN f[a] ELSE statuses[a]]
    BY <2>1 DEF Import
  <2>3. f \in [Artifacts -> Status] BY ArtifactsAssumption DEF Status
  <2>4. statuses' \in [Artifacts -> Status] BY <1>0, <2>2, <2>3 DEF OtherTypes
  <2> QED BY <1>0, <2>1, <2>4 DEF Import, OtherTypes, github, caching
<1>8. CASE \E q \in Requests : Sync(q)
  <2>1. PICK q \in Requests : Sync(q) BY <1>8
  <2>2. known' \in SUBSET Repos BY <1>0, <2>1, ArtifactsAssumption DEF Sync, OtherTypes
  <2>3. now + SyncTtl \in Nat BY <1>0, TimesAreNat DEF OtherTypes, Time
  <2>4. throttle' \in [Users -> Nat] BY <1>0, <2>1, <2>3 DEF Sync, OtherTypes
  <2> QED BY <1>0, <2>1, <2>2, <2>4 DEF Sync, Goes, OtherTypes, github
<1>9. CASE UNCHANGED <<now, github, login, sessions, statuses, throttle, known>>
  BY <1>0, <1>9 DEF OtherTypes, github
<1>10. CASE \E q \in Requests : Browse(q)
  BY <1>8, <1>9, <1>10, BrowseLeaves, OnlySyncRegisters
<1>11. CASE \E u \in Users : CleanUp(u) BY <1>9, <1>11 DEF CleanUp
<1>12. CASE \E link \in links : Expire(link) BY <1>9, <1>12 DEF Expire, caching
<1>13. CASE \E t \in Tokens : Authenticate(t) BY <1>9, <1>13 DEF Authenticate, caching
<1>14. CASE \E w \in touching : UpdateLastUsedAt(w)
  BY <1>9, <1>14 DEF UpdateLastUsedAt, caching
<1>15. CASE UNCHANGED vars BY <1>9, <1>15 DEF vars, caching
<1> QED
  BY <1>1, <1>2, <1>3, <1>4, <1>5, <1>6, <1>7, <1>10, <1>11, <1>12, <1>13, <1>14, <1>15
     DEF Next

LEMMA InvariantNext == Invariant /\ [Next]_vars => Invariant'
<1> SUFFICES ASSUME Invariant, [Next]_vars PROVE Invariant' OBVIOUS
<1>1. RequestsGood' BY RequestsNext
<1>2. TokensGood' BY TokensNext
<1>3. OtherTypes' BY OtherTypesNext
<1>4. links' \in SUBSET Link /\ \A link \in links' : GoodLink(link)' BY LinksNext
<1>5. /\ cache' \in [Users -> Entry \cup {None}] /\ stored' \in [Users -> Time \cup {None}]
      /\ \A u \in Users : GoodEntry(u)'
  BY EntriesNext
<1>6. TypeOK'
  BY <1>1, <1>2, <1>3, <1>4, <1>5 DEF RequestsGood, TokensGood, TokenTypes, OtherTypes, TypeOK
<1> QED BY <1>1, <1>2, <1>4, <1>5, <1>6 DEF RequestsGood, TokensGood, Invariant

LEMMA InvariantHolds == Spec => []Invariant
BY InvariantInit, InvariantNext, PTL DEF Spec

(* Every variable keeps its type: no request, entry, link or token is ever   *)
(* written with a part of it missing.                                        *)
THEOREM TypeCorrect == Spec => []TypeOK
<1>1. Invariant => TypeOK BY DEF Invariant
<1> QED BY <1>1, InvariantHolds, PTL

(* However many requests fetch, store and fall back at once, and whatever    *)
(* GitHub answers in between, a list shows nothing the user lost longer ago  *)
(* than cache, fallback and two requests last (list_accessible_repo_ids).    *)
THEOREM ListsAreRecent == Spec => []ListIsRecent
<1>1. Invariant => ListIsRecent
  <2> SUFFICES ASSUME Invariant, NEW q \in Requests, requests[q].pc = "shown",
                      NEW r \in Shown(requests[q])
               PROVE  HadAccess(requests[q].user, r, now - (CacheTtl + StaleMax + 2 * MaxLag))
    BY DEF ListIsRecent
  <2>1. PICK c \in Request : c = requests[q] BY RequestTyped
  <2>2. /\ c.user \in Users /\ c.began \in Nat /\ now \in Nat /\ now <= c.began + MaxLag
        /\ r \in Repos /\ HadAccess(c.user, r, c.began - Window)
    <3>1. GoodRequest(c) /\ c.pc = "shown" /\ r \in c.ids
      BY <2>1, RequestTyped DEF Shown
    <3>2. c.began \in Nat /\ r \in Repos /\ now \in Nat
      BY <3>1, TimesAreNat DEF Request, Time, Invariant, TypeOK
    <3> QED BY <3>1, <3>2 DEF GoodRequest
  <2>3. until[c.user][r] = None \/ until[c.user][r] \in Nat
    BY <2>2, TimesAreNat DEF Invariant, TypeOK, Time
  <2> QED BY <2>1, <2>2, <2>3, TimesAreNat DEF HadAccess, Window
<1> QED BY <1>1, InvariantHolds, PTL

(* A link that still opens was made for a user who had access then or one    *)
(* request before, and a viewer is called complete only with a link for each *)
(* type it needs, which outlives the request (get_viewer_sources).           *)
THEOREM LinksHold == Spec => []LinksAreGood
<1>1. Invariant => LinksAreGood
  <2> SUFFICES ASSUME Invariant PROVE LinksAreGood OBVIOUS
  <2>1. ASSUME NEW link \in links, Opens(link)
        PROVE  HadAccess(link.user, RepoOf[link.artifact], now - (UrlTtl + MaxLag))
    <3>1. GoodLink(link) /\ link.expires >= now BY <2>1 DEF Invariant, Opens
    <3>2. /\ link.expires \in Nat /\ link.user \in Users /\ RepoOf[link.artifact] \in Repos
          /\ now \in Nat
      BY TimesAreNat, ArtifactsAssumption DEF Invariant, TypeOK, Link, Time
    <3>3. PICK until1 : until1 = until[link.user][RepoOf[link.artifact]] OBVIOUS
    <3>4. until1 = None \/ until1 \in Nat
      BY <3>2, <3>3, TimesAreNat DEF Invariant, TypeOK, Time
    <3> QED BY <3>1, <3>2, <3>3, <3>4, TimesAreNat DEF GoodLink, HadAccess
  <2>2. ASSUME NEW q \in Requests, requests[q].pc = "viewed",
               NEW v \in requests[q].view, NEW type \in Needs[v]
        PROVE  \E a \in OfType(requests[q].repo, type) :
                 \E link \in links : link.artifact = a /\ link.user = requests[q].user
    BY <2>2, RequestTyped DEF GoodRequest, Complete
  <2> QED BY <2>1, <2>2 DEF LinksAreGood
<1> QED BY <1>1, InvariantHolds, PTL

(* A token was made by a user with access, and the late update of a token    *)
(* that was revoked meanwhile is late by one request at most                 *)
(* (execute_create_api_token, execute_revoke_api_token, AuthenticatedToken). *)
THEOREM TokensHold == Spec => []TokensAreGood
<1>1. Invariant => TokensAreGood BY DEF Invariant, GoodToken, TokensAreGood
<1> QED BY <1>1, InvariantHolds, PTL

(* A request gives up after an error of GitHub only if no list was stored in *)
(* the lifetime of the cache and the fallback: neither another request nor   *)
(* the worker's cleanup takes the last list away (cleanup_expired_cache).    *)
THEOREM OutagesAreBridged == Spec => OutageIsBridged
<1> DEFINE Bridged(q) ==
      LET u == requests[q].user
      IN  requests[q].pc = "stale" /\ requests'[q].pc = "failed" /\ stored[u] # None =>
            stored[u] + CacheTtl + StaleMax <= now
<1>1. ASSUME Invariant, [Next]_vars, NEW q \in Requests,
             requests[q].pc = "stale", requests'[q].pc = "failed",
             stored[requests[q].user] # None
      PROVE  stored[requests[q].user] + CacheTtl + StaleMax <= now
  <2>1. PICK c \in Request : c = requests[q] BY <1>1, RequestTyped
  <2>2. c.user \in Users BY <2>1, <1>1, RequestTyped DEF GoodRequest
  <2>3. ~StaleCache(c.user)
    <3>1. FallBack(q)
      <4>1. PICK p \in Requests : Browse(p)
        BY <1>1 DEF Next, vars, Tick, GrantAccess, LoseAccess, Callback, CleanUp, Register,
           Import, Logout, Expire, Authenticate, UpdateLastUsedAt
      <4>2. requests \in [Requests -> Request] BY <1>1 DEF Invariant, TypeOK
      <4>3. NoRequest.pc = "idle" BY DEF NoRequest
      <4>4. ~End(p) /\ ~CreateApiToken(p) /\ ~RevokeApiToken(p)
        BY <1>1, <4>2, <4>3 DEF End, CreateApiToken, RevokeApiToken
      <4>5. ~ViewSources(p) BY <1>1, <4>2 DEF ViewSources
      <4>6. ~LookUp(p) /\ ~Fetch(p) /\ ~FetchFails(p)
        BY <1>1, <4>2 DEF LookUp, Fetch, FetchFails, Goes
      <4>7. ~Store(p) /\ ~StartSync(p) /\ ~SkipSync(p) /\ ~Sync(p)
        BY <1>1, <4>2 DEF Store, StartSync, SkipSync, Sync, Goes
      <4>8. ~CheckAccess(p) /\ ~CheckFails(p)
        BY <1>1, <4>2 DEF CheckAccess, CheckFails, Goes
      <4>9. ~\E s \in Sessions : BeginList(p, s)
        BY <1>1, <4>2 DEF BeginList, Starts
      <4>10. ~\E s \in Sessions, r \in Repos : BeginView(p, s, r)
        BY <1>1, <4>2 DEF BeginView, Starts
      <4>11. ~\E s \in Sessions, r \in Repos, t \in Tokens :
                BeginCreate(p, s, r, t) \/ BeginRevoke(p, s, r, t)
        BY <1>1, <4>2 DEF BeginCreate, BeginRevoke, Starts
      <4>12. FallBack(p)
        BY <4>1, <4>4, <4>5, <4>6, <4>7, <4>8, <4>9, <4>10, <4>11 DEF Browse
      <4>13. p = q BY <1>1, <4>2, <4>12 DEF FallBack, Goes
      <4> QED BY <4>12, <4>13
    <3>2. requests'[q] = IF StaleCache(c.user)
                           THEN [c EXCEPT !.pc = "shown", !.ids = cache[c.user].ids]
                           ELSE [c EXCEPT !.pc = "failed"]
      BY <3>1, <2>1, <1>1 DEF FallBack, Goes, Invariant, TypeOK
    <3>3. [c EXCEPT !.pc = "shown", !.ids = cache[c.user].ids].pc = "shown" BY DEF Request
    <3> QED BY <1>1, <3>2, <3>3
  <2>4. GoodEntry(c.user) BY <2>2, <1>1 DEF Invariant
  <2>5. stored[c.user] \in Nat /\ now \in Nat
    BY <2>1, <2>2, <1>1, TimesAreNat DEF Invariant, TypeOK, Time
  <2> QED BY <1>1, <2>1, <2>3, <2>4, <2>5, TimesAreNat DEF GoodEntry, StaleCache
<1>2. Invariant /\ [Next]_vars => [\A q \in Requests : Bridged(q)]_vars BY <1>1
<1> QED BY <1>2, InvariantHolds, PTL DEF Spec, OutageIsBridged
=============================================================================
