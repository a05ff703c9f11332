---------------------------- MODULE Installations ----------------------------
(***************************************************************************)
(* Which repository belongs to which installation of the GitHub App: what  *)
(* GitHub knows, and the installation_id in the table repositories.        *)
(*                                                                         *)
(* Three writers keep the table: the webhook handler, one statement per    *)
(* repository of a delivery; the read API, which upserts what it fetched   *)
(* for a user; and the sync of the worker, which lists the repositories of *)
(* an installation, upserts them and unlinks the others.  None of them     *)
(* holds a lock or a transaction, so that each statement is a step, and    *)
(* deliveries may be lost, repeated or handled in another order.           *)
(***************************************************************************)
EXTENDS Naturals, FiniteSets

CONSTANTS
  Repos,          \* the repositories
  Installations,  \* the installation ids; GitHub uses each once
  Workers,        \* the worker processes
  MinInterval,    \* INSTALLATION_SYNC_MIN_INTERVAL_SECS, in ticks
  StaleAfter,     \* INSTALLATION_SYNC_STALE_AFTER_SECS, in ticks
  MaxPerSweep,    \* INSTALLATION_SYNC_MAX_PER_SWEEP
  None            \* no installation

ASSUME TimesAssumption == MinInterval \in Nat /\ StaleAfter \in Nat
ASSUME SweepAssumption == MaxPerSweep \in Nat
ASSUME NoInstallationAssumption == None \notin Installations

VARIABLES
  hosts,     \* GitHub: the installation each repository is in
  life,      \* GitHub: whether an installation is to come, installed or deleted
  messages,  \* deliveries, and lists fetched for a user, that are to be written
  rows,      \* repositories.installation_id; None also where there is no row
  states,    \* the rows of github_installation_sync_state
  workers    \* the program counter and the locals of the sync of each worker

github == <<hosts, life>>
vars == <<github, messages, rows, states, workers>>

-----------------------------------------------------------------------------
\* A time is its age in ticks, up to the age at which nothing depends on it any more.
\* NULL counts as that old: needs_sync treats both alike, and so a missing row.
Old == IF StaleAfter > MinInterval THEN StaleAfter ELSE MinInterval

State == [seen : 0..Old,       \* webhook_seen_at
          started : 0..Old,    \* last_sync_started_at
          completed : 0..Old,  \* last_sync_completed_at
          failed : BOOLEAN]    \* last_sync_status = 'failed'

\* A delivery is sent, then its handler stamps the installation and writes one repository
\* after the other.  "added" is also the event that an installation was created.
Message == [kind : {"added", "removed", "deleted", "fetched"}, from : Installations,
            repos : SUBSET Repos, stamped : BOOLEAN]

Worker == [pc : {"idle", "next", "start", "list", "upsert", "prune", "failed"},
           todo : SUBSET Installations,   \* installation_ids
           synced : 0..MaxPerSweep,
           at : Installations \cup {None},
           keep : SUBSET Repos,           \* what GitHub listed
           left : SUBSET Repos]           \* the repositories of the loop that is running

Idle == [pc |-> "idle", todo |-> {}, synced |-> 0, at |-> None, keep |-> {}, left |-> {}]

TypeOK ==
  /\ hosts \in [Repos -> Installations \cup {None}]
  /\ life \in [Installations -> {"new", "installed", "deleted"}]
  /\ messages \subseteq Message
  /\ rows \in [Repos -> Installations \cup {None}]
  /\ states \in [Installations -> State]
  /\ workers \in [Workers -> Worker]
  /\ \A w \in Workers : workers[w].pc \notin {"idle", "next"} => workers[w].at # None

Init ==
  /\ hosts = [r \in Repos |-> None]
  /\ life = [i \in Installations |-> "new"]
  /\ messages = {}
  /\ rows = [r \in Repos |-> None]
  /\ states = [i \in Installations |->
                 [seen |-> Old, started |-> Old, completed |-> Old, failed |-> FALSE]]
  /\ workers = [w \in Workers |-> Idle]

-----------------------------------------------------------------------------
At(w, pc) == workers[w].pc = pc
Become(w, state) == workers' = [workers EXCEPT ![w] = state]

HostedBy(i) == {r \in Repos : hosts[r] = i}
LinkedTo(i) == {r \in Repos : rows[r] = i}

\* repository::upsert
Upsert(r, i) == rows' = [rows EXCEPT ![r] = i]

\* Mutant of Clear: whatever installation the row names.
ClearAny(i, repos) == rows' = [r \in Repos |-> IF r \in repos THEN None ELSE rows[r]]

\* clear_installation and clear_installation_for_repo: rows of that installation only.
Clear(i, repos) ==
  rows' = [r \in Repos |-> IF r \in repos /\ rows[r] = i THEN None ELSE rows[r]]

-----------------------------------------------------------------------------
(* GitHub                                                                    *)

Sent(kind, i, repos) == [kind |-> kind, from |-> i, repos |-> repos, stamped |-> FALSE]

Install(i, repos) ==
  /\ life[i] = "new"
  /\ \A r \in repos : hosts[r] = None
  /\ life' = [life EXCEPT ![i] = "installed"]
  /\ hosts' = [r \in Repos |-> IF r \in repos THEN i ELSE hosts[r]]
  /\ messages' = messages \cup {Sent("added", i, repos)}
  /\ UNCHANGED <<rows, states, workers>>

Uninstall(i) ==
  /\ life[i] = "installed"
  /\ life' = [life EXCEPT ![i] = "deleted"]
  /\ hosts' = [r \in Repos |-> IF hosts[r] = i THEN None ELSE hosts[r]]
  /\ messages' = messages \cup {Sent("deleted", i, Repos)}
  /\ UNCHANGED <<rows, states, workers>>

\* A repository is removed from its installation, added to another, or both: transferred.
MoveRepo(r, i) ==
  /\ i # hosts[r]
  /\ i # None => life[i] = "installed"
  /\ hosts' = [hosts EXCEPT ![r] = i]
  /\ messages' = messages
       \cup (IF hosts[r] = None THEN {} ELSE {Sent("removed", hosts[r], {r})})
       \cup (IF i = None THEN {} ELSE {Sent("added", i, {r})})
  /\ UNCHANGED <<life, rows, states, workers>>

-----------------------------------------------------------------------------
(* The webhook handler and the fallback sync of the read API                 *)

\* What is left of a message
Rest(m) == IF m.repos = {} THEN {} ELSE {m}
Without(m, r) == [m EXCEPT !.repos = m.repos \ {r}]

\* upsert_webhook_seen; its error is ignored.  A delivery may be repeated.
Stamp(m, repeated, ok) ==
  /\ ~ m.stamped
  /\ states' = IF ok THEN [states EXCEPT ![m.from].seen = 0] ELSE states
  /\ messages' = (IF repeated THEN messages ELSE messages \ {m})
                   \cup Rest([m EXCEPT !.stamped = TRUE])
  /\ UNCHANGED <<github, rows, workers>>

WriteAdded(m, r) ==
  /\ m.stamped /\ m.kind \in {"added", "fetched"} /\ r \in m.repos
  /\ Upsert(r, m.from)
  /\ messages' = (messages \ {m}) \cup Rest(Without(m, r))
  /\ UNCHANGED <<github, states, workers>>

WriteRemoved(m, r) ==
  /\ m.stamped /\ m.kind = "removed" /\ r \in m.repos
  /\ Clear(m.from, {r})
  /\ messages' = (messages \ {m}) \cup Rest(Without(m, r))
  /\ UNCHANGED <<github, states, workers>>

\* One statement
WriteDeleted(m) ==
  /\ m.stamped /\ m.kind = "deleted"
  /\ Clear(m.from, m.repos)
  /\ messages' = messages \ {m}
  /\ UNCHANGED <<github, states, workers>>

\* A delivery does not arrive, the request is dropped, or a statement fails and GitHub
\* is answered with an error, after which it does not repeat the delivery by itself.
Lose(m) ==
  /\ messages' = messages \ {m}
  /\ UNCHANGED <<github, rows, states, workers>>

(* fetch_installation_repos, of an installation the user sees: the read API  *)
(* upserts what it fetched.  It is called when the user has access to a      *)
(* repository without a row, which may be one that is in no installation.    *)
Fetch(i, repos) ==
  /\ life[i] = "installed"
  /\ repos \subseteq HostedBy(i)
  /\ messages' = messages
       \cup Rest([kind |-> "fetched", from |-> i, repos |-> repos, stamped |-> TRUE])
  /\ UNCHANGED <<github, rows, states, workers>>

\* Unlike the webhook handler it goes on after an upsert that failed.
SkipRepo(m, r) ==
  /\ m.kind = "fetched" /\ r \in m.repos
  /\ messages' = (messages \ {m}) \cup Rest(Without(m, r))
  /\ UNCHANGED <<github, rows, states, workers>>

-----------------------------------------------------------------------------
(* The sync of the worker                                                    *)

\* Mutant of NeedsSync: it does not look when the last sync started.
NeedsSyncUnthrottled(i) ==
  states[i].completed >= MinInterval /\ (states[i].seen >= StaleAfter \/ states[i].failed)

\* needs_sync.  A sync that failed is throttled like any other.
NeedsSync(i) ==
  /\ states[i].started >= MinInterval
  /\ states[i].completed >= MinInterval
  /\ states[i].seen >= StaleAfter \/ states[i].failed

\* list_installation_ids: those that are installed.
ListInstallations(w) ==
  /\ At(w, "idle")
  /\ MaxPerSweep > 0
  /\ Become(w, [Idle EXCEPT !.pc = "next", !.todo = {i \in Installations : life[i] = "installed"}])
  /\ UNCHANGED <<github, messages, rows, states>>

\* The list is done, or the cap of the sweep is reached.
EndSweep(w) ==
  /\ At(w, "next")
  /\ workers[w].todo = {} \/ workers[w].synced = MaxPerSweep
  /\ Become(w, Idle)
  /\ UNCHANGED <<github, messages, rows, states>>

\* Mutant of Look: it goes on with an installation that needs no sync.
LookAndStart(w, i) ==
  /\ At(w, "next")
  /\ i \in workers[w].todo /\ workers[w].synced < MaxPerSweep
  /\ Become(w, [workers[w] EXCEPT !.todo = workers[w].todo \ {i},
                                  !.at = IF NeedsSync(i) THEN i ELSE None,
                                  !.pc = "start"])
  /\ UNCHANGED <<github, messages, rows, states>>

\* The next installation of the list: its state is read.
Look(w, i) ==
  /\ At(w, "next")
  /\ i \in workers[w].todo /\ workers[w].synced < MaxPerSweep
  /\ Become(w, [workers[w] EXCEPT !.todo = workers[w].todo \ {i},
                                  !.at = IF NeedsSync(i) THEN i ELSE None,
                                  !.pc = IF NeedsSync(i) THEN "start" ELSE "next"])
  /\ UNCHANGED <<github, messages, rows, states>>

MarkSyncStarted(w) ==
  /\ At(w, "start")
  /\ states' = [states EXCEPT ![workers[w].at].started = 0]
  /\ Become(w, [workers[w] EXCEPT !.pc = "list"])
  /\ UNCHANGED <<github, messages, rows>>

\* list_installation_repositories; an installation that is not found has none.
ListRepositories(w) ==
  /\ At(w, "list")
  /\ Become(w, [workers[w] EXCEPT !.pc = "upsert", !.keep = HostedBy(workers[w].at),
                                  !.left = HostedBy(workers[w].at)])
  /\ UNCHANGED <<github, messages, rows, states>>

UpsertListed(w, r) ==
  /\ At(w, "upsert") /\ r \in workers[w].left
  /\ Upsert(r, workers[w].at)
  /\ Become(w, [workers[w] EXCEPT !.left = workers[w].left \ {r}])
  /\ UNCHANGED <<github, messages, states>>

\* Mutant of ListLinked: nothing is pruned.
ListNothing(w) ==
  /\ At(w, "upsert") /\ workers[w].left = {}
  /\ Become(w, [workers[w] EXCEPT !.pc = "prune", !.left = {}])
  /\ UNCHANGED <<github, messages, rows, states>>

\* list_github_ids_for_installation
ListLinked(w) ==
  /\ At(w, "upsert") /\ workers[w].left = {}
  /\ Become(w, [workers[w] EXCEPT !.pc = "prune",
                                  !.left = LinkedTo(workers[w].at) \ workers[w].keep])
  /\ UNCHANGED <<github, messages, rows, states>>

Prune(w, r) ==
  /\ At(w, "prune") /\ r \in workers[w].left
  /\ Clear(workers[w].at, {r})
  /\ Become(w, [workers[w] EXCEPT !.left = workers[w].left \ {r}])
  /\ UNCHANGED <<github, messages, states>>

\* On to the next installation; success or not, this one counts.
Synced(w) ==
  Become(w, [workers[w] EXCEPT !.pc = "next", !.synced = workers[w].synced + 1, !.at = None,
                               !.keep = {}, !.left = {}])

MarkSyncCompleted(w) ==
  /\ (At(w, "prune") /\ workers[w].left = {}) \/ At(w, "failed")
  /\ states' = [states EXCEPT ![workers[w].at].completed = 0,
                              ![workers[w].at].failed = At(w, "failed")]
  /\ Synced(w)
  /\ UNCHANGED <<github, messages, rows>>

\* The state cannot be read or marked: the installation is skipped.
SkipInstallation(w, i) ==
  /\ \/ At(w, "next") /\ i \in workers[w].todo /\ workers[w].synced < MaxPerSweep
     \/ At(w, "start") /\ i = workers[w].at
  /\ Become(w, [workers[w] EXCEPT !.pc = "next", !.at = None, !.todo = workers[w].todo \ {i}])
  /\ UNCHANGED <<github, messages, rows, states>>

\* reconcile_installation returns an error.
Fails(w) ==
  /\ workers[w].pc \in {"list", "upsert", "prune"}
  /\ Become(w, [workers[w] EXCEPT !.pc = "failed"])
  /\ UNCHANGED <<github, messages, rows, states>>

\* The error of mark_sync_completed is ignored.
CompletionLost(w) ==
  /\ (At(w, "prune") /\ workers[w].left = {}) \/ At(w, "failed")
  /\ Synced(w)
  /\ UNCHANGED <<github, messages, rows, states>>

\* The process stops.
Abandon(w) ==
  /\ ~ At(w, "idle")
  /\ Become(w, Idle)
  /\ UNCHANGED <<github, messages, rows, states>>

Older(age) == IF age < Old THEN age + 1 ELSE Old

Tick ==
  /\ states' = [i \in Installations |->
                  [seen |-> Older(states[i].seen), started |-> Older(states[i].started),
                   completed |-> Older(states[i].completed), failed |-> states[i].failed]]
  /\ UNCHANGED <<github, messages, rows, workers>>

-----------------------------------------------------------------------------
GitHub ==
  \/ \E i \in Installations, repos \in SUBSET Repos : Install(i, repos)
  \/ \E i \in Installations : Uninstall(i)
  \/ \E r \in Repos, i \in Installations \cup {None} : MoveRepo(r, i)

Handle ==
  \E m \in messages :
    \/ Stamp(m, FALSE, TRUE)
    \/ \E r \in Repos : WriteAdded(m, r) \/ WriteRemoved(m, r)
    \/ WriteDeleted(m)

Sync(w) ==
  \/ ListInstallations(w)
  \/ EndSweep(w)
  \/ \E i \in Installations : Look(w, i)
  \/ MarkSyncStarted(w)
  \/ ListRepositories(w)
  \/ \E r \in Repos : UpsertListed(w, r) \/ Prune(w, r)
  \/ ListLinked(w)
  \/ MarkSyncCompleted(w)

Fault ==
  \/ \E m \in messages :
       \/ \E ok \in BOOLEAN : Stamp(m, TRUE, ok)
       \/ Stamp(m, FALSE, FALSE)
       \/ Lose(m)
       \/ \E r \in Repos : SkipRepo(m, r)
  \/ \E w \in Workers :
       \/ \E i \in Installations : SkipInstallation(w, i)
       \/ Fails(w)
       \/ CompletionLost(w)
       \/ Abandon(w)

Read == \E i \in Installations : \E repos \in SUBSET HostedBy(i) : Fetch(i, repos)

Next == GitHub \/ Handle \/ Read \/ Tick \/ Fault \/ \E w \in Workers : Sync(w)

Spec == Init /\ [][Next]_vars

\* Time passes, what was received is written, and each worker goes on sweeping: the
\* interval of main.rs ticks for ever.
Fairness == WF_vars(Tick) /\ WF_vars(Handle) /\ \A w \in Workers : WF_vars(Sync(w))

FairSpec == Spec /\ Fairness

-----------------------------------------------------------------------------
(* Properties                                                                *)

\* The table agrees with GitHub about the installations there are.
RowsAreTrue ==
  \A r \in Repos :
    /\ hosts[r] # None => rows[r] = hosts[r]
    /\ rows[r] # None /\ life[rows[r]] = "installed" => hosts[r] = rows[r]

\* Whatever deliveries were lost, repeated, overtaken or mixed up with syncs that had read
\* an older list: once GitHub is left alone, the table comes to agree with it for good
\* ("the safety net for missed webhooks").
RowsConverge == <>[]RowsAreTrue

\* A link is cleared on account of its own installation only, by a removal or a sync of
\* it: a late delivery about the installation a repository was transferred from leaves
\* the link to the new one alone.
RemovalIsOwn ==
  [][\A r \in Repos :
       rows[r] # None /\ rows'[r] = None =>
         \/ \E m \in messages : m.kind \in {"removed", "deleted"} /\ m.from = rows[r]
         \/ \E w \in Workers : At(w, "prune") /\ workers[w].at = rows[r]]_vars

\* Syncs of an installation keep their distance ("don't double-sync if we just ran (or
\* just started)"), as long as there is one worker.
SyncsAreSpaced ==
  [][\A w \in Workers :
       At(w, "start") /\ At(w, "list")' => states[workers[w].at].started >= MinInterval]_vars
=============================================================================
