------------------------------- MODULE MCAccess -------------------------------
(* A small instance of Access for TLC. *)
EXTENDS Access, TLC

CONSTANTS r1, a1, a2, q1, q2

MCSymmetry == Permutations({q1, q2})

MCRepoOf == [a \in Artifacts |-> r1]
MCTypeOf == [a \in Artifacts |-> IF a = a1 THEN "gerber_zip" ELSE "drill_zip"]
MCNeeds == [v \in Viewers |-> {"gerber_zip", "drill_zip"}]

MCOutcomes == {f \in [Artifacts -> {"available", "failed"}] : f[a1] = "available"}

(* The requests are lists, or reads of a run, or about API tokens: the three *)
(* share nothing but sessions, time and what GitHub says. Access is granted  *)
(* and lost at most once, a user logs in again when the session is over, and *)
(* each scenario has the time it needs.                                      *)
VARIABLE scenario

Lists ==
  \/ \E q \in Requests :
       \/ \E s \in Sessions : BeginList(q, s)
       \/ LookUp(q) \/ Fetch(q) \/ FetchFails(q) \/ Store(q) \/ FallBack(q)
       \/ StartSync(q) \/ SkipSync(q) \/ Sync(q)
  \/ \E u \in Users : CleanUp(u)

Checks == \E q \in Requests : CheckAccess(q) \/ CheckFails(q)

Views ==
  \/ \E q \in Requests :
       \/ \E s \in Sessions, r \in Repos : BeginView(q, s, r)
       \/ ViewSources(q)
  \/ \E r \in Repos : Import(r)
  \/ \E link \in links : Expire(link)

ApiTokens ==
  \/ \E q \in Requests :
       \/ \E s \in Sessions, r \in Repos, t \in Tokens :
            BeginCreate(q, s, r, t) \/ BeginRevoke(q, s, r, t)
       \/ CreateApiToken(q) \/ RevokeApiToken(q)
  \/ \E t \in Tokens : Authenticate(t)
  \/ \E w \in touching : UpdateLastUsedAt(w)

Horizon == [lists |-> 6, views |-> 4, tokens |-> 3]

Shared ==
  \/ (now < Horizon[scenario] /\ Tick)
  \/ \E u \in Users : \/ \E r \in Repos : until[u][r] = None /\ (GrantAccess(u, r) \/ LoseAccess(u, r))
                      \/ (~\E s \in Sessions : InForce(s)) /\ \E s \in Sessions : Callback(u, s)
  \/ \E r \in Repos : Register(r)
  \/ \E s \in Sessions : (scenario = "views" /\ Logout(s))
  \/ \E q \in Requests : End(q)

ScenarioInit == Init /\ scenario \in {"lists", "views", "tokens"}
ScenarioNext ==
  /\ \/ scenario = "lists" /\ Lists
     \/ scenario = "views" /\ (Views \/ Checks)
     \/ scenario = "tokens" /\ (ApiTokens \/ Checks)
     \/ Shared
  /\ UNCHANGED scenario
ScenarioSpec == ScenarioInit /\ [][ScenarioNext]_<<vars, scenario>>
=============================================================================
