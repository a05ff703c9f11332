------------------------- MODULE InstallationsProofs -------------------------
(***************************************************************************)
(* Theorems about Installations, for every set of repositories,            *)
(* installations and workers and all times.                                *)
(***************************************************************************)
EXTENDS Installations, TLAPS

LEMMA OldIsNat == Old \in Nat
  BY TimesAssumption DEF Old

\* A worker that syncs an installation is still below the cap of its sweep.
Busy(v) == v.pc \notin {"idle", "next"}

Typed == TypeOK /\ \A w \in Workers : Busy(workers[w]) => workers[w].synced < MaxPerSweep

\* The worker w becomes one of the right type, which has an installation if it syncs.
Moves(w) ==
  \E v \in Worker :
    Become(w, v) /\ (Busy(v) => v.at # None /\ v.synced < MaxPerSweep)

LEMMA TypedInit == Init => Typed
  BY OldIsNat, SweepAssumption DEF Init, Typed, Busy, TypeOK, State, Worker, Idle

LEMMA MovesKeep ==
  ASSUME Typed, NEW w \in Workers, Moves(w)
  PROVE  /\ workers' \in [Workers -> Worker]
         /\ \A v \in Workers : workers'[v].pc \notin {"idle", "next"} =>
              workers'[v].at # None /\ workers'[v].synced < MaxPerSweep
  BY DEF Moves, Become, Typed, TypeOK, Busy

LEMMA Idles == ASSUME NEW w \in Workers, Become(w, Idle) PROVE Moves(w)
<1>1. Idle \in Worker /\ Idle.pc = "idle"
  BY SweepAssumption DEF Idle, Worker
<1> QED
  BY <1>1 DEF Moves, Busy

\* Messages
LEMMA Shrinks ==
  ASSUME TypeOK, NEW m \in messages, NEW r
  PROVE  /\ m \in Message
         /\ (messages \ {m}) \cup Rest(Without(m, r)) \subseteq Message
<1>1. m \in Message
  BY DEF TypeOK
<1>2. Without(m, r) \in Message
  BY <1>1 DEF Message, Without
<1> QED
  BY <1>1, <1>2 DEF Rest, TypeOK

LEMMA TypedGitHub == ASSUME TypeOK, GitHub PROVE TypeOK'
<1> DEFINE Kinds == {"added", "removed", "deleted", "fetched"}
<1>1. \A k \in Kinds, i \in Installations, s \in SUBSET Repos : Sent(k, i, s) \in Message
  BY DEF Sent, Message
<1>2. ASSUME NEW i \in Installations, NEW s \in SUBSET Repos, Install(i, s) PROVE TypeOK'
  BY <1>1, <1>2 DEF Install, TypeOK
<1>3. ASSUME NEW i \in Installations, Uninstall(i) PROVE TypeOK'
  BY <1>1, <1>3 DEF Uninstall, TypeOK
<1>4. ASSUME NEW r \in Repos, NEW i \in Installations \cup {None}, MoveRepo(r, i) PROVE TypeOK'
  <2>1. hosts[r] # None => Sent("removed", hosts[r], {r}) \in Message
    BY <1>1 DEF TypeOK
  <2>2. i # None => Sent("added", i, {r}) \in Message
    BY <1>1
  <2>3. messages' \subseteq Message
    BY <1>4, <2>1, <2>2 DEF MoveRepo, TypeOK
  <2> QED
    BY <1>4, <2>3 DEF MoveRepo, TypeOK
<1> QED
  BY <1>2, <1>3, <1>4 DEF GitHub

LEMMA TypedMessages ==
  ASSUME TypeOK, NEW m \in messages,
         \/ \E b, ok \in BOOLEAN : Stamp(m, b, ok)
         \/ \E r \in Repos : WriteAdded(m, r) \/ WriteRemoved(m, r) \/ SkipRepo(m, r)
         \/ WriteDeleted(m) \/ Lose(m)
  PROVE  TypeOK'
<1>1. m \in Message
  BY DEF TypeOK
<1>2. ASSUME NEW b \in BOOLEAN, NEW ok \in BOOLEAN, Stamp(m, b, ok) PROVE TypeOK'
  <2>1. [m EXCEPT !.stamped = TRUE] \in Message /\ m.from \in Installations
    BY <1>1 DEF Message
  <2>2. messages' \subseteq Message
    BY <1>2, <2>1 DEF Stamp, Rest, TypeOK
  <2>3. states' \in [Installations -> State]
    BY <1>2, <2>1, OldIsNat DEF Stamp, TypeOK, State
  <2> QED
    BY <1>2, <2>2, <2>3 DEF Stamp, TypeOK, github
<1>3. ASSUME NEW r \in Repos, WriteAdded(m, r) \/ WriteRemoved(m, r) \/ SkipRepo(m, r)
      PROVE  TypeOK'
  <2>1. messages' \subseteq Message
    BY <1>3, Shrinks DEF WriteAdded, WriteRemoved, SkipRepo
  <2>2. rows' \in [Repos -> Installations \cup {None}]
    BY <1>1, <1>3 DEF WriteAdded, WriteRemoved, SkipRepo, Upsert, Clear, TypeOK, Message
  <2> QED
    BY <1>3, <2>1, <2>2 DEF WriteAdded, WriteRemoved, SkipRepo, TypeOK, github
<1>4. CASE WriteDeleted(m)
  BY <1>4 DEF WriteDeleted, Clear, TypeOK, github
<1>5. CASE Lose(m)
  BY <1>5 DEF Lose, TypeOK, github
<1> QED
  BY <1>2, <1>3, <1>4, <1>5

LEMMA TypedFetch == ASSUME TypeOK, Read PROVE TypeOK'
<1>1. PICK i \in Installations : \E repos \in SUBSET HostedBy(i) : Fetch(i, repos)
  BY DEF Read
<1>2. PICK repos \in SUBSET HostedBy(i) : Fetch(i, repos)
  BY <1>1
<1>3. [kind |-> "fetched", from |-> i, repos |-> repos, stamped |-> TRUE] \in Message
  BY <1>2 DEF HostedBy, Message
<1>4. messages' \subseteq Message
  BY <1>2, <1>3 DEF Fetch, Rest, TypeOK
<1> QED
  BY <1>2, <1>4 DEF Fetch, TypeOK, github

LEMMA TypedTick == ASSUME TypeOK, Tick PROVE TypeOK'
<1>1. \A a \in 0..Old : Older(a) \in 0..Old
  BY OldIsNat DEF Older
<1>2. states' \in [Installations -> State]
  BY <1>1 DEF Tick, TypeOK, State
<1> QED
  BY <1>2 DEF Tick, TypeOK, github

(* The sync                                                                  *)
LEMMA WorkerOf ==
  ASSUME Typed, NEW w \in Workers
  PROVE  /\ workers[w] \in Worker
         /\ Busy(workers[w]) => /\ workers[w].at \in Installations
                                /\ workers[w].synced < MaxPerSweep
         /\ workers[w].left \subseteq Repos
  BY DEF Typed, TypeOK, Worker, Busy

\* The steps of a sync that write nothing
LEMMA SyncMoves ==
  ASSUME Typed, NEW w \in Workers,
         \/ ListInstallations(w) \/ EndSweep(w) \/ ListRepositories(w) \/ ListLinked(w)
         \/ \E i \in Installations : Look(w, i) \/ SkipInstallation(w, i)
         \/ Fails(w) \/ Abandon(w)
  PROVE  Moves(w)
<1> DEFINE me == workers[w]
<1>w. /\ me \in Worker /\ me.left \subseteq Repos
      /\ Busy(me) => me.at \in Installations /\ me.synced < MaxPerSweep
  BY WorkerOf
<1>1. CASE EndSweep(w) \/ Abandon(w)
  BY <1>1, Idles DEF EndSweep, Abandon
<1>2. CASE ListInstallations(w)
  <2> DEFINE there == {i \in Installations : life[i] = "installed"}
             v == [Idle EXCEPT !.pc = "next", !.todo = there]
  <2>0. there \in SUBSET Installations
    OBVIOUS
  <2>1. v \in Worker /\ v.pc = "next"
    <3> HIDE DEF there
    <3>1. Idle \in Worker
      BY SweepAssumption DEF Idle, Worker
    <3> QED
      BY <2>0, <3>1 DEF Worker
  <2>2. Become(w, v)
    BY <1>2 DEF ListInstallations
  <2> HIDE DEF v
  <2> QED
    BY <2>1, <2>2 DEF Moves, Busy
<1>3. CASE ListRepositories(w)
  <2> DEFINE v == [me EXCEPT !.pc = "upsert", !.keep = HostedBy(me.at), !.left = HostedBy(me.at)]
  <2>1. v \in Worker /\ v.at # None /\ v.synced < MaxPerSweep
    BY <1>w, <1>3, NoInstallationAssumption DEF ListRepositories, At, Worker, HostedBy, Busy
  <2>2. Become(w, v)
    BY <1>3 DEF ListRepositories
  <2> HIDE DEF v
  <2> QED
    BY <2>1, <2>2 DEF Moves, Busy
<1>4. CASE ListLinked(w)
  <2> DEFINE v == [me EXCEPT !.pc = "prune", !.left = LinkedTo(me.at) \ me.keep]
  <2>1. v \in Worker /\ v.at # None /\ v.synced < MaxPerSweep
    BY <1>w, <1>4, NoInstallationAssumption DEF ListLinked, At, Worker, LinkedTo, Busy
  <2>2. Become(w, v)
    BY <1>4 DEF ListLinked
  <2> HIDE DEF v
  <2> QED
    BY <2>1, <2>2 DEF Moves, Busy
<1>5. ASSUME NEW i \in Installations, Look(w, i) PROVE Moves(w)
  <2> DEFINE v == [me EXCEPT !.todo = me.todo \ {i}, !.at = IF NeedsSync(i) THEN i ELSE None,
                             !.pc = IF NeedsSync(i) THEN "start" ELSE "next"]
  <2>1. v \in Worker /\ (v.pc # "next" => v.at # None /\ v.synced < MaxPerSweep)
    BY <1>w, <1>5, NoInstallationAssumption DEF Worker, Look
  <2>2. Become(w, v)
    BY <1>5 DEF Look
  <2> HIDE DEF v
  <2> QED
    BY <2>1, <2>2 DEF Moves, Busy
<1>6. ASSUME NEW i \in Installations, SkipInstallation(w, i) PROVE Moves(w)
  <2> DEFINE v == [me EXCEPT !.pc = "next", !.at = None, !.todo = me.todo \ {i}]
  <2>1. v \in Worker /\ v.pc = "next"
    BY <1>w DEF Worker
  <2>2. Become(w, v)
    BY <1>6 DEF SkipInstallation
  <2> HIDE DEF v
  <2> QED
    BY <2>1, <2>2 DEF Moves, Busy
<1>7. CASE Fails(w)
  <2> DEFINE v == [me EXCEPT !.pc = "failed"]
  <2>1. v \in Worker /\ v.at # None /\ v.synced < MaxPerSweep
    BY <1>w, <1>7, NoInstallationAssumption DEF Fails, Worker, Busy
  <2>2. Become(w, v)
    BY <1>7 DEF Fails
  <2> HIDE DEF v
  <2> QED
    BY <2>1, <2>2 DEF Moves, Busy
<1> QED
  BY <1>1, <1>2, <1>3, <1>4, <1>5, <1>6, <1>7

LEMMA SyncedMoves ==
  ASSUME Typed, NEW w \in Workers, Synced(w), workers[w].synced < MaxPerSweep
  PROVE  Moves(w)
<1> DEFINE me == workers[w]
           v == [me EXCEPT !.pc = "next", !.synced = me.synced + 1, !.at = None,
                           !.keep = {}, !.left = {}]
<1>1. me \in Worker
  BY WorkerOf
<1>2. me.synced + 1 \in 0..MaxPerSweep
  BY <1>1, SweepAssumption DEF Worker
<1>3. v \in Worker /\ v.pc = "next"
  BY <1>1, <1>2 DEF Worker
<1>4. Become(w, v)
  BY DEF Synced
<1> HIDE DEF v
<1> QED
  BY <1>3, <1>4 DEF Moves, Busy

\* What a step of worker w leaves typed, if the table and the states are.
LEMMA SyncKeeps ==
  ASSUME Typed, NEW w \in Workers, Moves(w), UNCHANGED <<github, messages>>,
         rows' \in [Repos -> Installations \cup {None}], states' \in [Installations -> State]
  PROVE  Typed'
<1>1. /\ workers' \in [Workers -> Worker]
      /\ \A v \in Workers : workers'[v].pc \notin {"idle", "next"} =>
           workers'[v].at # None /\ workers'[v].synced < MaxPerSweep
  BY MovesKeep
<1>2. TypeOK'
  BY <1>1 DEF Typed, TypeOK, github
<1> QED
  BY <1>1, <1>2 DEF Typed, Busy

LEMMA TypedSync ==
  ASSUME Typed, NEW w \in Workers,
         \/ Sync(w) \/ \E i \in Installations : SkipInstallation(w, i)
         \/ Fails(w) \/ CompletionLost(w) \/ Abandon(w)
  PROVE  Typed'
<1> DEFINE me == workers[w]
<1>w. /\ me \in Worker /\ me.left \subseteq Repos
      /\ Busy(me) => me.at \in Installations /\ me.synced < MaxPerSweep
  BY WorkerOf
<1>t. /\ rows \in [Repos -> Installations \cup {None}] /\ states \in [Installations -> State]
  BY DEF Typed, TypeOK
<1>1. CASE \/ ListInstallations(w) \/ EndSweep(w) \/ ListRepositories(w) \/ ListLinked(w)
           \/ \E i \in Installations : Look(w, i) \/ SkipInstallation(w, i)
           \/ Fails(w) \/ Abandon(w)
  <2>1. Moves(w)
    BY <1>1, SyncMoves
  <2>2. UNCHANGED <<github, messages, rows, states>>
    BY <1>1 DEF ListInstallations, EndSweep, ListRepositories, ListLinked, Look,
       SkipInstallation, Fails, Abandon
  <2> QED
    BY <1>t, <2>1, <2>2, SyncKeeps
<1>2. CASE MarkSyncStarted(w)
  <2> DEFINE v == [me EXCEPT !.pc = "list"]
  <2>1. v \in Worker /\ v.at # None /\ v.synced < MaxPerSweep
    BY <1>w, <1>2, NoInstallationAssumption DEF MarkSyncStarted, At, Worker, Busy
  <2>2. Become(w, v)
    BY <1>2 DEF MarkSyncStarted
  <2> HIDE DEF v
  <2>3. Moves(w)
    BY <2>1, <2>2 DEF Moves
  <2>4. states' \in [Installations -> State]
    <3>1. me.at \in Installations
      BY <1>w, <1>2 DEF MarkSyncStarted, At, Busy
    <3> QED
      BY <1>t, <1>2, <3>1, OldIsNat DEF MarkSyncStarted, State
  <2> QED
    BY <1>t, <1>2, <2>3, <2>4, SyncKeeps DEF MarkSyncStarted
<1>3. ASSUME NEW r \in Repos, UpsertListed(w, r) \/ Prune(w, r) PROVE Typed'
  <2> DEFINE v == [me EXCEPT !.left = me.left \ {r}]
  <2>1. v \in Worker /\ v.at # None /\ v.synced < MaxPerSweep /\ me.at \in Installations
    BY <1>w, <1>3, NoInstallationAssumption DEF UpsertListed, Prune, At, Worker, Busy
  <2>2. Become(w, v)
    BY <1>3 DEF UpsertListed, Prune
  <2> HIDE DEF v
  <2>3. Moves(w)
    BY <2>1, <2>2 DEF Moves
  <2>4. rows' \in [Repos -> Installations \cup {None}]
    BY <1>t, <1>3, <2>1 DEF UpsertListed, Prune, Upsert, Clear
  <2> QED
    BY <1>t, <1>3, <2>3, <2>4, SyncKeeps DEF UpsertListed, Prune
<1>4. CASE MarkSyncCompleted(w) \/ CompletionLost(w)
  <2>1. Busy(me) /\ Synced(w)
    BY <1>4 DEF MarkSyncCompleted, CompletionLost, Busy, At
  <2>2. Moves(w)
    BY <1>w, <2>1, SyncedMoves
  <2>3. states' \in [Installations -> State]
    <3>1. At(w, "failed") \in BOOLEAN
      BY DEF At
    <3> QED
      BY <1>t, <1>4, <3>1, OldIsNat DEF MarkSyncCompleted, CompletionLost, State
  <2> QED
    BY <1>t, <1>4, <2>2, <2>3, SyncKeeps DEF MarkSyncCompleted, CompletionLost
<1> QED
  BY <1>1, <1>2, <1>3, <1>4 DEF Sync

\* The other steps move no worker.
LEMMA StillTyped == ASSUME Typed, TypeOK', UNCHANGED workers PROVE Typed'
  BY DEF Typed

LEMMA TypedStep == Typed /\ [Next]_vars => Typed'
<1> SUFFICES ASSUME Typed, [Next]_vars PROVE Typed'
  OBVIOUS
<1>t. TypeOK
  BY DEF Typed
<1>1. CASE GitHub
  <2>1. UNCHANGED workers
    BY <1>1 DEF GitHub, Install, Uninstall, MoveRepo
  <2> QED
    BY <1>t, <1>1, <2>1, TypedGitHub, StillTyped
<1>2. ASSUME NEW m \in messages,
             \/ \E b, ok \in BOOLEAN : Stamp(m, b, ok)
             \/ \E r \in Repos : WriteAdded(m, r) \/ WriteRemoved(m, r) \/ SkipRepo(m, r)
             \/ WriteDeleted(m) \/ Lose(m)
      PROVE  Typed'
  <2>1. UNCHANGED workers
    BY <1>2 DEF Stamp, WriteAdded, WriteRemoved, SkipRepo, WriteDeleted, Lose
  <2> QED
    BY <1>t, <1>2, <2>1, TypedMessages, StillTyped
<1>3. CASE Read \/ Tick
  <2>1. UNCHANGED workers
    BY <1>3 DEF Read, Fetch, Tick
  <2> QED
    BY <1>t, <1>3, <2>1, TypedFetch, TypedTick, StillTyped
<1>4. ASSUME NEW w \in Workers,
             \/ Sync(w) \/ \E i \in Installations : SkipInstallation(w, i)
             \/ Fails(w) \/ CompletionLost(w) \/ Abandon(w)
      PROVE  Typed'
  BY <1>4, TypedSync
<1>5. CASE UNCHANGED vars
  BY <1>5 DEF vars, github, Typed, TypeOK
<1> QED
  BY <1>1, <1>2, <1>3, <1>4, <1>5 DEF Next, Handle, Fault

LEMMA TypedAlways == Spec => []Typed
  BY TypedInit, TypedStep, PTL DEF Spec

(* Every variable keeps its type, and a worker that syncs has an             *)
(* installation that it syncs.                                               *)
THEOREM TypeCorrect == Spec => []TypeOK
  BY TypedAlways, PTL DEF Typed

(* Links                                                                     *)

LEMMA ClearIsOwn ==
  ASSUME NEW i, NEW s, NEW r \in Repos, Clear(i, s), rows[r] # None, rows'[r] = None
  PROVE  i = rows[r]
  BY DEF Clear

LEMMA UpsertLinks ==
  ASSUME NEW i \in Installations, NEW u, NEW r \in Repos, TypeOK, Upsert(u, i),
         rows[r] # None
  PROVE  rows'[r] # None
  BY NoInstallationAssumption DEF Upsert, TypeOK

\* The statement of RemovalIsOwn about one repository
Own(r) ==
  \/ \E m \in messages : m.kind \in {"removed", "deleted"} /\ m.from = rows[r]
  \/ \E w \in Workers : At(w, "prune") /\ workers[w].at = rows[r]

LEMMA OwnStep ==
  ASSUME Typed, Next, NEW r \in Repos, rows[r] # None, rows'[r] = None
  PROVE  Own(r)
<1>t. TypeOK
  BY DEF Typed
<1>1. ASSUME NEW m \in messages, NEW u \in Repos, WriteAdded(m, u) PROVE FALSE
  <2>1. m.from \in Installations
    BY <1>t DEF TypeOK, Message
  <2> QED
    BY <1>1, <1>t, <2>1, UpsertLinks DEF WriteAdded
<1>2. ASSUME NEW m \in messages, NEW u \in Repos, WriteRemoved(m, u) PROVE Own(r)
  <2>1. m.from = rows[r]
    BY <1>2, ClearIsOwn DEF WriteRemoved
  <2> QED
    BY <1>2, <2>1 DEF WriteRemoved, Own
<1>3. ASSUME NEW m \in messages, WriteDeleted(m) PROVE Own(r)
  <2>1. m.from = rows[r]
    BY <1>3, ClearIsOwn DEF WriteDeleted
  <2> QED
    BY <1>3, <2>1 DEF WriteDeleted, Own
<1>4. ASSUME NEW w \in Workers, NEW u \in Repos, UpsertListed(w, u) PROVE FALSE
  <2>1. workers[w].at \in Installations
    BY <1>4, WorkerOf DEF UpsertListed, At, Busy
  <2> QED
    BY <1>4, <1>t, <2>1, UpsertLinks DEF UpsertListed
<1>5. ASSUME NEW w \in Workers, NEW u \in Repos, Prune(w, u) PROVE Own(r)
  <2>1. workers[w].at = rows[r]
    BY <1>5, ClearIsOwn DEF Prune
  <2> QED
    BY <1>5, <2>1 DEF Prune, Own
<1>6. CASE UNCHANGED rows
  BY <1>6
<1>7. CASE GitHub
  BY <1>6, <1>7 DEF GitHub, Install, Uninstall, MoveRepo
<1>8. CASE Handle
  <2>1. PICK m \in messages :
          Stamp(m, FALSE, TRUE) \/ (\E u \in Repos : WriteAdded(m, u) \/ WriteRemoved(m, u))
            \/ WriteDeleted(m)
    BY <1>8 DEF Handle
  <2> QED
    BY <1>1, <1>2, <1>3, <1>6, <2>1 DEF Stamp
<1>9. CASE Read \/ Tick
  BY <1>6, <1>9 DEF Read, Fetch, Tick
<1>10. CASE Fault
  BY <1>6, <1>10 DEF Fault, Stamp, Lose, SkipRepo, SkipInstallation, Fails, CompletionLost,
     Abandon
<1>11. ASSUME NEW w \in Workers, Sync(w) PROVE Own(r)
  <2>1. CASE \E u \in Repos : UpsertListed(w, u) \/ Prune(w, u)
    BY <1>4, <1>5, <2>1
  <2>2. CASE \/ ListInstallations(w) \/ EndSweep(w) \/ MarkSyncStarted(w)
             \/ ListRepositories(w) \/ ListLinked(w) \/ MarkSyncCompleted(w)
             \/ \E i \in Installations : Look(w, i)
    BY <1>6, <2>2 DEF ListInstallations, EndSweep, MarkSyncStarted, ListRepositories,
       ListLinked, MarkSyncCompleted, Look
  <2> QED
    BY <1>11, <2>1, <2>2 DEF Sync
<1> QED
  BY <1>7, <1>8, <1>9, <1>10, <1>11 DEF Next

(* A link is cleared only by a removal of the installation that it names, or *)
(* by a sync of that installation.                                           *)
THEOREM ClearedByItsOwn == Spec => RemovalIsOwn
<1>1. Typed /\ [Next]_vars =>
        [\A r \in Repos : rows[r] # None /\ rows'[r] = None => Own(r)]_vars
  BY OwnStep
<1>2. [\A r \in Repos : rows[r] # None /\ rows'[r] = None => Own(r)]_vars =>
        [\A r \in Repos : rows[r] # None /\ rows'[r] = None =>
          \/ \E m \in messages : m.kind \in {"removed", "deleted"} /\ m.from = rows[r]
          \/ \E w \in Workers : At(w, "prune") /\ workers[w].at = rows[r]]_vars
  BY DEF Own
<1> QED
  BY <1>1, <1>2, TypedAlways, PTL DEF Spec, RemovalIsOwn

LEMMA BecomesIt ==
  ASSUME workers \in [Workers -> Worker], NEW w \in Workers, NEW v, Become(w, v)
  PROVE  workers'[w] = v
  BY DEF Become

(* The distance of syncs                                                     *)

\* A worker on its way to start a sync has found the last start long enough ago.
Spaced ==
  \A w \in Workers : At(w, "start") => states[workers[w].at].started >= MinInterval

LEMMA SpacedStep ==
  ASSUME Typed, Typed', Spaced, [Next]_vars, \A v, w \in Workers : v = w
  PROVE  Spaced'
<1> SUFFICES ASSUME NEW w \in Workers, At(w, "start")'
             PROVE  states'[workers'[w].at].started >= MinInterval
  BY DEF Spaced
<1>t. /\ \A i \in Installations : states[i] \in State
      /\ states \in [Installations -> State] /\ workers \in [Workers -> Worker]
      /\ \A i \in Installations : states[i].started \in 0..Old
  BY DEF Typed, TypeOK, State
<1>a. /\ At(w, "start") => workers[w].at \in Installations
      /\ workers'[w].at \in Installations /\ workers'[w].pc = "start"
  BY WorkerOf DEF Typed, TypeOK, Busy, At, Worker
\* It stays where it is, and the start of its installation is as long ago or longer.
<1>1. ASSUME UNCHANGED workers,
             \A i \in Installations : states'[i].started >= states[i].started
      PROVE  states'[workers'[w].at].started >= MinInterval
  <2>1. At(w, "start") /\ workers'[w].at = workers[w].at
    BY <1>1, <1>a DEF At
  <2>2. states[workers[w].at].started >= MinInterval
    BY <2>1 DEF Spaced
  <2>3. states'[workers[w].at].started \in Nat /\ states[workers[w].at].started \in Nat
    BY <1>a, <2>1, OldIsNat DEF Typed, TypeOK, State
  <2> QED
    BY <1>1, <1>a, <2>1, <2>2, <2>3, TimesAssumption
<1>same. ASSUME UNCHANGED <<workers, states>>
         PROVE  states'[workers'[w].at].started >= MinInterval
  BY <1>same, <1>a DEF At, Spaced
<1>2. ASSUME NEW m \in messages, NEW b, NEW ok \in BOOLEAN, Stamp(m, b, ok)
      PROVE  states'[workers'[w].at].started >= MinInterval
  <2>1. \A i \in Installations : states'[i].started = states[i].started
    BY <1>2, <1>t DEF Stamp, State
  <2> QED
    BY <1>2, <1>same, <1>a, <2>1 DEF Stamp, Spaced, At
<1>3. CASE Tick
  <2>1. \A i \in Installations : states'[i].started >= states[i].started
    BY <1>3, <1>t, OldIsNat DEF Tick, Older
  <2> QED
    BY <1>1, <1>3, <2>1 DEF Tick
<1>4. ASSUME NEW i \in Installations, Look(w, i)
      PROVE  states'[workers'[w].at].started >= MinInterval
  <2>1. workers'[w].pc = (IF NeedsSync(i) THEN "start" ELSE "next")
        /\ workers'[w].at = (IF NeedsSync(i) THEN i ELSE None)
    BY <1>4, <1>t DEF Look, Become, Worker
  <2> QED
    BY <1>4, <1>a, <2>1 DEF Look, NeedsSync
<1>5. ASSUME At(w, "start")', NEW v \in Workers,
             \/ Sync(v) /\ ~ \E i \in Installations : Look(v, i)
             \/ \E i \in Installations : SkipInstallation(v, i)
             \/ Fails(v) \/ CompletionLost(v) \/ Abandon(v)
      PROVE  FALSE
  <2>1. v = w
    OBVIOUS
  <2>2. workers'[w].pc \in {"idle", "next", "list", "upsert", "prune", "failed"}
    <3>0. workers[w] \in Worker
      BY <1>t
    <3>1. CASE \E r \in Repos : UpsertListed(w, r) \/ Prune(w, r)
      BY <1>t, <3>1 DEF UpsertListed, Prune, At, Become, Worker
    <3>2. CASE EndSweep(w) \/ Abandon(w)
      <4>1. workers'[w] = Idle
        BY <1>t, <3>2, BecomesIt DEF EndSweep, Abandon
      <4> QED
        BY <4>1 DEF Idle
    <3>3. CASE ListInstallations(w)
      <4>1. \A x : [Idle EXCEPT !.pc = "next", !.todo = x].pc = "next"
        BY DEF Idle
      <4> QED
        BY <1>t, <3>3, <4>1, BecomesIt DEF ListInstallations
    <3>4. CASE MarkSyncStarted(w)
      <4>1. workers'[w] = [workers[w] EXCEPT !.pc = "list"]
        BY <1>t, <3>4, BecomesIt DEF MarkSyncStarted
      <4> QED
        BY <3>0, <4>1 DEF Worker
    <3>5. CASE ListRepositories(w)
      <4>1. workers'[w] = [workers[w] EXCEPT !.pc = "upsert", !.keep = HostedBy(workers[w].at),
                                             !.left = HostedBy(workers[w].at)]
        BY <1>t, <3>5, BecomesIt DEF ListRepositories
      <4> QED
        BY <3>0, <4>1 DEF Worker
    <3>6. CASE ListLinked(w)
      <4>1. workers'[w] = [workers[w] EXCEPT !.pc = "prune",
                                             !.left = LinkedTo(workers[w].at) \ workers[w].keep]
        BY <1>t, <3>6, BecomesIt DEF ListLinked
      <4> QED
        BY <3>0, <4>1 DEF Worker
    <3>7. CASE Fails(w)
      <4>1. workers'[w] = [workers[w] EXCEPT !.pc = "failed"]
        BY <1>t, <3>7, BecomesIt DEF Fails
      <4> QED
        BY <3>0, <4>1 DEF Worker
    <3>8. CASE MarkSyncCompleted(w) \/ CompletionLost(w)
      <4>1. Synced(w)
        BY <3>8 DEF MarkSyncCompleted, CompletionLost
      <4>2. workers'[w] = [workers[w] EXCEPT !.pc = "next", !.synced = workers[w].synced + 1,
                                             !.at = None, !.keep = {}, !.left = {}]
        BY <1>t, <4>1, BecomesIt DEF Synced
      <4> QED
        BY <3>0, <4>2 DEF Worker
    <3>9. CASE \E i \in Installations : SkipInstallation(w, i)
      BY <1>t, <3>9 DEF SkipInstallation, Become, Worker
    <3> QED
      BY <1>5, <2>1, <3>1, <3>2, <3>3, <3>4, <3>5, <3>6, <3>7, <3>8, <3>9 DEF Sync
  <2> QED
    BY <1>a, <2>2
<1>6. CASE GitHub
  BY <1>6, <1>same DEF GitHub, Install, Uninstall, MoveRepo
<1>7. CASE Handle
  <2>1. PICK m \in messages :
          Stamp(m, FALSE, TRUE) \/ (\E u \in Repos : WriteAdded(m, u) \/ WriteRemoved(m, u))
            \/ WriteDeleted(m)
    BY <1>7 DEF Handle
  <2>2. CASE Stamp(m, FALSE, TRUE)
    BY <1>2, <2>2
  <2>3. CASE (\E u \in Repos : WriteAdded(m, u) \/ WriteRemoved(m, u)) \/ WriteDeleted(m)
    BY <1>same, <2>3 DEF WriteAdded, WriteRemoved, WriteDeleted
  <2> QED
    BY <2>1, <2>2, <2>3
<1>8. CASE Read
  BY <1>8, <1>same DEF Read, Fetch
<1>9. ASSUME NEW m \in messages, Lose(m) \/ \E r \in Repos : SkipRepo(m, r)
      PROVE  states'[workers'[w].at].started >= MinInterval
  BY <1>9, <1>same DEF Lose, SkipRepo
<1>10. CASE Fault
  BY <1>2, <1>5, <1>9, <1>10 DEF Fault
<1>11. ASSUME NEW v \in Workers, Sync(v)
       PROVE  states'[workers'[w].at].started >= MinInterval
  BY <1>4, <1>5, <1>11
<1>12. CASE UNCHANGED vars
  BY <1>12, <1>same DEF vars
<1> QED
  BY <1>3, <1>6, <1>7, <1>8, <1>10, <1>11, <1>12 DEF Next

(* Where one worker runs, a sync of an installation starts only when the     *)
(* last one started at least the minimal interval ago.                       *)
THEOREM SyncsKeepTheirDistance ==
  ASSUME \A v, w \in Workers : v = w
  PROVE  Spec => SyncsAreSpaced
<1>1. Init => Spaced
  BY DEF Init, Spaced, At, Idle
<1>2. Typed /\ Typed' /\ Spaced /\ [Next]_vars => Spaced'
  BY SpacedStep
<1>3. Spaced /\ [Next]_vars =>
        [\A w \in Workers :
           At(w, "start") /\ At(w, "list")' => states[workers[w].at].started >= MinInterval]_vars
  BY DEF Spaced
<1> QED
  BY <1>1, <1>2, <1>3, TypedAlways, PTL DEF Spec, SyncsAreSpaced

-----------------------------------------------------------------------------
(* The sync as a repair: what it tells of GitHub, and what it leaves         *)

\* What a message says, if what it says is still so.
Fresh(m) ==
  \A r \in m.repos :
    IF m.kind \in {"added", "fetched"} THEN hosts[r] = m.from ELSE hosts[r] # m.from

\* The list that a sync works from is what GitHub would answer now.
FreshList(w) ==
  /\ workers[w].pc \in {"upsert", "prune"} => workers[w].keep = HostedBy(workers[w].at)
  /\ workers[w].pc = "upsert" => workers[w].left \subseteq workers[w].keep
  /\ workers[w].pc = "prune" => workers[w].left \cap workers[w].keep = {}

\* Nothing under way is older than the last change on GitHub.
UpToDate == (\A m \in messages : Fresh(m)) /\ (\A w \in Workers : FreshList(w))

TrueOf(i) == LinkedTo(i) = HostedBy(i)

\* How far a sync has come: what it has upserted is linked, and what it has still to
\* prune is all that is linked and was not listed.
Repairs(w) ==
  LET me == workers[w]
  IN  \/ me.pc = "upsert" /\ me.keep \ me.left \subseteq LinkedTo(me.at)
      \/ /\ me.pc = "prune"
         /\ me.keep \subseteq LinkedTo(me.at) /\ LinkedTo(me.at) \subseteq me.keep \cup me.left

\* A row that names its installation keeps it, and a row that comes to name an
\* installation names its own.
Heals ==
  \A r \in Repos :
    /\ hosts[r] # None /\ rows[r] = hosts[r] => rows'[r] = hosts[r]
    /\ \A i \in Installations : rows'[r] = i => rows[r] = i \/ hosts[r] = i

LEMMA UpsertHeals ==
  ASSUME TypeOK, NEW r \in Repos, NEW i \in Installations, hosts[r] = i, Upsert(r, i)
  PROVE  Heals
  BY DEF TypeOK, Upsert, Heals

LEMMA ClearHeals ==
  ASSUME TypeOK, NEW i \in Installations, NEW repos,
         \A r \in repos \cap Repos : hosts[r] # i, Clear(i, repos)
  PROVE  Heals
  BY NoInstallationAssumption DEF TypeOK, Clear, Heals

LEMMA SameHeals == ASSUME UNCHANGED rows PROVE Heals
  BY DEF Heals

\* Where a step of worker w leaves it.
Listed(w) ==
  /\ workers'[w].pc = "upsert" /\ UNCHANGED rows
  /\ workers'[w].keep = HostedBy(workers'[w].at)
  /\ workers'[w].left = HostedBy(workers'[w].at)

SameSync(w) ==
  /\ workers'[w].at = workers[w].at /\ workers'[w].keep = workers[w].keep

Upserted(w) ==
  /\ workers[w].pc = "upsert" /\ workers'[w].pc = "upsert" /\ SameSync(w)
  /\ \E r \in workers[w].left : /\ workers'[w].left = workers[w].left \ {r}
                                /\ Upsert(r, workers[w].at)

Compared(w) ==
  /\ workers[w].pc = "upsert" /\ workers'[w].pc = "prune" /\ SameSync(w)
  /\ workers[w].left = {} /\ UNCHANGED rows
  /\ workers'[w].left = LinkedTo(workers[w].at) \ workers[w].keep

Pruned(w) ==
  /\ workers[w].pc = "prune" /\ workers'[w].pc = "prune" /\ SameSync(w)
  /\ \E r \in workers[w].left : /\ workers'[w].left = workers[w].left \ {r}
                                /\ Clear(workers[w].at, {r})

LetsGo(w) == workers'[w].pc \notin {"upsert", "prune"} /\ UNCHANGED rows

LEMMA SyncSteps ==
  ASSUME Typed, NEW w \in Workers,
         \/ Sync(w) \/ \E i \in Installations : SkipInstallation(w, i)
         \/ Fails(w) \/ CompletionLost(w) \/ Abandon(w)
  PROVE  /\ \A v \in Workers : v # w => workers'[v] = workers[v]
         /\ UNCHANGED messages
         /\ LetsGo(w) \/ Listed(w) \/ Upserted(w) \/ Compared(w) \/ Pruned(w)
<1> DEFINE me == workers[w]
<1>t. workers \in [Workers -> Worker] /\ me \in Worker /\ me.left \subseteq Repos
  BY WorkerOf DEF Typed, TypeOK
<1>o. ASSUME NEW v, Become(w, v)
      PROVE  workers'[w] = v /\ \A u \in Workers : u # w => workers'[u] = workers[u]
  BY <1>t, <1>o DEF Become
<1>l. ASSUME NEW v, Become(w, v), v.pc \notin {"upsert", "prune"}, UNCHANGED <<messages, rows>>
      PROVE  /\ \A u \in Workers : u # w => workers'[u] = workers[u]
             /\ UNCHANGED messages
             /\ LetsGo(w)
  BY <1>l, <1>o DEF LetsGo
<1>1. CASE ListInstallations(w) \/ EndSweep(w) \/ Abandon(w)
  <2>1. PICK v : Become(w, v) /\ v.pc \notin {"upsert", "prune"}
    <3>1. CASE EndSweep(w) \/ Abandon(w)
      <4>1. Become(w, Idle) /\ Idle.pc = "idle" BY <3>1 DEF EndSweep, Abandon, Idle
      <4> QED BY <4>1
    <3>2. CASE ListInstallations(w)
      <4> DEFINE there == {i \in Installations : life[i] = "installed"}
                 v == [Idle EXCEPT !.pc = "next", !.todo = there]
      <4>1. Become(w, v) BY <3>2 DEF ListInstallations
      <4> HIDE DEF there
      <4>2. v.pc = "next" BY DEF Idle
      <4> HIDE DEF v
      <4> QED BY <4>1, <4>2
    <3> QED BY <1>1, <3>1, <3>2
  <2> QED BY <1>l, <1>1, <2>1 DEF ListInstallations, EndSweep, Abandon
<1>2. ASSUME NEW i \in Installations, Look(w, i) \/ SkipInstallation(w, i)
      PROVE  /\ \A u \in Workers : u # w => workers'[u] = workers[u]
             /\ UNCHANGED messages
             /\ LetsGo(w)
  <2>1. PICK v : Become(w, v) /\ v.pc \notin {"upsert", "prune"}
    <3>1. CASE Look(w, i)
      <4> DEFINE v == [me EXCEPT !.todo = me.todo \ {i}, !.at = IF NeedsSync(i) THEN i ELSE None,
                                 !.pc = IF NeedsSync(i) THEN "start" ELSE "next"]
      <4>1. Become(w, v) BY <3>1 DEF Look
      <4>2. v.pc \in {"start", "next"} BY <1>t DEF Worker
      <4> HIDE DEF v
      <4> QED BY <4>1, <4>2
    <3>2. CASE SkipInstallation(w, i)
      <4> DEFINE v == [me EXCEPT !.pc = "next", !.at = None, !.todo = me.todo \ {i}]
      <4>1. Become(w, v) BY <3>2 DEF SkipInstallation
      <4>2. v.pc = "next" BY <1>t DEF Worker
      <4> HIDE DEF v
      <4> QED BY <4>1, <4>2
    <3> QED BY <1>2, <3>1, <3>2
  <2> QED BY <1>l, <1>2, <2>1 DEF Look, SkipInstallation
<1>3. ASSUME NEW pc \in {"list", "failed"}, Become(w, [me EXCEPT !.pc = pc]),
             UNCHANGED <<messages, rows>>
      PROVE  /\ \A u \in Workers : u # w => workers'[u] = workers[u]
             /\ UNCHANGED messages
             /\ LetsGo(w)
  <2> DEFINE v == [me EXCEPT !.pc = pc]
  <2>1. v.pc \notin {"upsert", "prune"} BY <1>t DEF Worker
  <2>2. Become(w, v) BY <1>3
  <2> HIDE DEF v
  <2> QED BY <1>l, <1>3, <2>1, <2>2
<1>4. CASE MarkSyncCompleted(w) \/ CompletionLost(w)
  <2> DEFINE v == [me EXCEPT !.pc = "next", !.synced = me.synced + 1, !.at = None,
                             !.keep = {}, !.left = {}]
  <2>1. Become(w, v) BY <1>4 DEF MarkSyncCompleted, CompletionLost, Synced
  <2>2. v.pc = "next" BY <1>t DEF Worker
  <2> HIDE DEF v
  <2>3. UNCHANGED <<messages, rows>> BY <1>4 DEF MarkSyncCompleted, CompletionLost
  <2> QED BY <1>l, <2>1, <2>2, <2>3
<1>6. CASE ListRepositories(w)
  <2> DEFINE v == [me EXCEPT !.pc = "upsert", !.keep = HostedBy(me.at), !.left = HostedBy(me.at)]
  <2>1. Become(w, v) BY <1>6 DEF ListRepositories
  <2>2. v.pc = "upsert" /\ v.at = me.at /\ v.keep = HostedBy(me.at) /\ v.left = HostedBy(me.at)
    BY <1>t DEF Worker
  <2> HIDE DEF v
  <2> QED BY <1>o, <1>6, <2>1, <2>2 DEF ListRepositories, Listed
<1>8. CASE ListLinked(w)
  <2> DEFINE v == [me EXCEPT !.pc = "prune", !.left = LinkedTo(me.at) \ me.keep]
  <2>1. Become(w, v) BY <1>8 DEF ListLinked
  <2>2. v.pc = "prune" /\ v.at = me.at /\ v.keep = me.keep
        /\ v.left = LinkedTo(me.at) \ me.keep
    BY <1>t DEF Worker
  <2> HIDE DEF v
  <2> QED BY <1>o, <1>8, <2>1, <2>2 DEF ListLinked, At, Compared, SameSync
<1>9. ASSUME NEW r \in Repos, UpsertListed(w, r) \/ Prune(w, r)
      PROVE  /\ \A u \in Workers : u # w => workers'[u] = workers[u]
             /\ UNCHANGED messages
             /\ Upserted(w) \/ Pruned(w)
  <2> DEFINE v == [me EXCEPT !.left = me.left \ {r}]
  <2>1. Become(w, v) /\ r \in me.left BY <1>9 DEF UpsertListed, Prune
  <2>2. v.pc = me.pc /\ v.at = me.at /\ v.keep = me.keep /\ v.left = me.left \ {r}
    BY <1>t DEF Worker
  <2> HIDE DEF v
  <2>3. workers'[w] = v BY <1>o, <2>1
  <2>4. CASE UpsertListed(w, r)
    BY <1>o, <2>1, <2>2, <2>3, <2>4 DEF UpsertListed, At, Upserted, SameSync
  <2>5. CASE Prune(w, r)
    BY <1>o, <2>1, <2>2, <2>3, <2>5 DEF Prune, At, Pruned, SameSync
  <2> QED BY <1>9, <2>4, <2>5
<1>10. CASE MarkSyncStarted(w) BY <1>3, <1>10 DEF MarkSyncStarted
<1>11. CASE Fails(w) BY <1>3, <1>11 DEF Fails
<1> QED
  BY <1>1, <1>2, <1>4, <1>6, <1>8, <1>9, <1>10, <1>11 DEF Sync

\* Without a change on GitHub, what is under way stays fresh and heals what it writes.
LEMMA StaysFresh ==
  ASSUME Typed, UpToDate, [Next]_vars, UNCHANGED github
  PROVE  Heals /\ UpToDate'
<1>t. TypeOK BY DEF Typed
<1>h. /\ hosts' = hosts /\ \A i : HostedBy(i)' = HostedBy(i)
      /\ \A m : Fresh(m) => Fresh(m)'
  BY DEF github, HostedBy, Fresh
<1>w. UNCHANGED workers => \A w \in Workers : FreshList(w)'
  BY <1>h DEF UpToDate, FreshList
<1>1. ASSUME NEW w \in Workers,
             \/ Sync(w) \/ \E i \in Installations : SkipInstallation(w, i)
             \/ Fails(w) \/ CompletionLost(w) \/ Abandon(w)
      PROVE  Heals /\ UpToDate'
  <2>1. /\ \A v \in Workers : v # w => workers'[v] = workers[v]
        /\ UNCHANGED messages
        /\ LetsGo(w) \/ Listed(w) \/ Upserted(w) \/ Compared(w) \/ Pruned(w)
    BY <1>1, SyncSteps
  <2>2. workers[w].pc \in {"upsert", "prune"} => workers[w].at \in Installations
    BY WorkerOf DEF Busy
  <2>3. FreshList(w) /\ workers[w].left \subseteq Repos BY WorkerOf DEF UpToDate
  <2>4. Heals
    <3>1. CASE LetsGo(w) \/ Listed(w) \/ Compared(w)
      BY <3>1, SameHeals DEF LetsGo, Listed, Compared
    <3>2. CASE Upserted(w)
      <4>1. PICK r \in workers[w].left : Upsert(r, workers[w].at) BY <3>2 DEF Upserted
      <4>2. hosts[r] = workers[w].at BY <2>3, <3>2 DEF Upserted, FreshList, HostedBy
      <4> QED BY <1>t, <2>2, <2>3, <3>2, <4>1, <4>2, UpsertHeals DEF Upserted
    <3>3. CASE Pruned(w)
      <4>1. PICK r \in workers[w].left : Clear(workers[w].at, {r}) BY <3>3 DEF Pruned
      <4>2. hosts[r] # workers[w].at BY <2>3, <3>3 DEF Pruned, FreshList, HostedBy
      <4> QED BY <1>t, <2>2, <2>3, <3>3, <4>1, <4>2, ClearHeals DEF Pruned
    <3> QED BY <2>1, <3>1, <3>2, <3>3
  <2>5. FreshList(w)'
    <3>1. CASE LetsGo(w) BY <3>1 DEF LetsGo, FreshList
    <3>2. CASE Listed(w) BY <1>h, <3>2 DEF Listed, FreshList, HostedBy
    <3>3. CASE Upserted(w)
      BY <1>h, <2>3, <3>3 DEF Upserted, SameSync, FreshList, HostedBy
    <3>4. CASE Compared(w)
      BY <1>h, <2>3, <3>4 DEF Compared, SameSync, FreshList, HostedBy
    <3>5. CASE Pruned(w)
      BY <1>h, <2>3, <3>5 DEF Pruned, SameSync, FreshList, HostedBy
    <3> QED BY <2>1, <3>1, <3>2, <3>3, <3>4, <3>5
  <2>6. ASSUME NEW v \in Workers, v # w PROVE FreshList(v)'
    <3>1. workers'[v] = workers[v] /\ FreshList(v) BY <2>1, <2>6 DEF UpToDate
    <3> QED BY <1>h, <3>1 DEF FreshList, HostedBy
  <2>7. \A m \in messages' : Fresh(m)' BY <1>h, <2>1 DEF UpToDate
  <2> QED BY <2>4, <2>5, <2>6, <2>7 DEF UpToDate
<1>2. ASSUME NEW m \in messages,
             \/ \E b, ok \in BOOLEAN : Stamp(m, b, ok)
             \/ \E r \in Repos : WriteAdded(m, r) \/ WriteRemoved(m, r) \/ SkipRepo(m, r)
             \/ WriteDeleted(m) \/ Lose(m)
      PROVE  Heals /\ UpToDate'
  <2>1. m \in Message /\ m.from \in Installations /\ Fresh(m)
    BY <1>t DEF TypeOK, Message, UpToDate
  <2>2. Fresh([m EXCEPT !.stamped = TRUE]) /\ \A r : Fresh(Without(m, r))
    <3>1. /\ [m EXCEPT !.stamped = TRUE].kind = m.kind
          /\ [m EXCEPT !.stamped = TRUE].from = m.from
          /\ [m EXCEPT !.stamped = TRUE].repos = m.repos
      BY <2>1 DEF Message
    <3>2. \A r : /\ Without(m, r).kind = m.kind /\ Without(m, r).from = m.from
                 /\ Without(m, r).repos \subseteq m.repos
      BY <2>1 DEF Message, Without
    <3> QED BY <2>1, <3>1, <3>2 DEF Fresh
  <2>3. UNCHANGED workers
    BY <1>2 DEF Stamp, WriteAdded, WriteRemoved, SkipRepo, WriteDeleted, Lose
  <2>4. \A l \in messages' : Fresh(l)
    <3>1. CASE \E b, ok \in BOOLEAN : Stamp(m, b, ok)
      BY <2>2, <3>1 DEF Stamp, Rest, UpToDate
    <3>2. CASE \E r \in Repos : WriteAdded(m, r) \/ WriteRemoved(m, r) \/ SkipRepo(m, r)
      BY <2>2, <3>2 DEF WriteAdded, WriteRemoved, SkipRepo, Rest, UpToDate
    <3>3. CASE WriteDeleted(m) \/ Lose(m) BY <3>3 DEF WriteDeleted, Lose, UpToDate
    <3> QED BY <1>2, <3>1, <3>2, <3>3
  <2>5. Heals
    <3>1. CASE \E r \in Repos : WriteAdded(m, r)
      <4>1. PICK r \in Repos : WriteAdded(m, r) BY <3>1
      <4>2. hosts[r] = m.from BY <2>1, <4>1 DEF WriteAdded, Fresh
      <4> QED BY <1>t, <2>1, <4>1, <4>2, UpsertHeals DEF WriteAdded
    <3>2. CASE \E r \in Repos : WriteRemoved(m, r)
      <4>1. PICK r \in Repos : WriteRemoved(m, r) BY <3>2
      <4>2. hosts[r] # m.from BY <2>1, <4>1 DEF WriteRemoved, Fresh
      <4> QED BY <1>t, <2>1, <4>1, <4>2, ClearHeals DEF WriteRemoved
    <3>3. CASE WriteDeleted(m)
      <4>1. \A r \in m.repos : hosts[r] # m.from BY <2>1, <3>3 DEF WriteDeleted, Fresh
      <4> QED BY <1>t, <2>1, <3>3, <4>1, ClearHeals DEF WriteDeleted
    <3>4. CASE UNCHANGED rows BY <3>4, SameHeals
    <3> QED BY <1>2, <3>1, <3>2, <3>3, <3>4 DEF Stamp, SkipRepo, Lose
  <2> QED BY <1>h, <1>w, <2>3, <2>4, <2>5 DEF UpToDate
<1>3. CASE Read
  <2>1. PICK i \in Installations : \E repos \in SUBSET HostedBy(i) : Fetch(i, repos)
    BY <1>3 DEF Read
  <2>2. PICK repos \in SUBSET HostedBy(i) : Fetch(i, repos) BY <2>1
  <2>3. Fresh([kind |-> "fetched", from |-> i, repos |-> repos, stamped |-> TRUE])
    BY DEF Fresh, HostedBy
  <2>4. \A l \in messages' : Fresh(l) BY <2>2, <2>3 DEF Fetch, Rest, UpToDate
  <2> QED BY <1>h, <1>w, <2>2, <2>4, SameHeals DEF Fetch, UpToDate
<1>4. CASE Tick \/ UNCHANGED vars
  <2>1. UNCHANGED <<messages, rows, workers>> BY <1>4 DEF Tick, vars
  <2> QED BY <1>h, <1>w, <2>1, SameHeals DEF UpToDate
<1>5. CASE GitHub
  <2>1. hosts \in [Repos -> Installations \cup {None}]
        /\ life \in [Installations -> {"new", "installed", "deleted"}]
        /\ hosts' = hosts /\ life' = life
    BY <1>t DEF TypeOK, github
  <2>2. ASSUME NEW i \in Installations, NEW s \in SUBSET Repos, Install(i, s) PROVE FALSE
    BY <2>1, <2>2 DEF Install
  <2>3. ASSUME NEW i \in Installations, Uninstall(i) PROVE FALSE
    BY <2>1, <2>3 DEF Uninstall
  <2>4. ASSUME NEW r \in Repos, NEW i, MoveRepo(r, i) PROVE FALSE
    BY <2>1, <2>4 DEF MoveRepo
  <2> QED BY <1>5, <2>2, <2>3, <2>4 DEF GitHub
<1> QED
  BY <1>1, <1>2, <1>3, <1>4, <1>5 DEF Next, Handle, Fault

\* A repair goes on where it is until the worker lets go of it.
LEMMA RepairGoesOn ==
  ASSUME Typed, UpToDate, [Next]_vars, UNCHANGED github, NEW w \in Workers,
         ListRepositories(w) \/ Repairs(w)
  PROVE  Repairs(w)' \/ workers'[w].pc \notin {"upsert", "prune"}
<1>h. \A i : HostedBy(i)' = HostedBy(i) BY DEF github, HostedBy
<1>f. FreshList(w) /\ Heals BY StaysFresh DEF UpToDate
<1>t. /\ workers[w].pc \in {"upsert", "prune"} => workers[w].at \in Installations
      /\ workers[w].left \subseteq Repos
      /\ rows \in [Repos -> Installations \cup {None}]
  BY WorkerOf DEF Busy, Typed, TypeOK
<1>b. ASSUME ListRepositories(w) PROVE Listed(w) /\ workers[w].pc = "list"
  <2> DEFINE u == [workers[w] EXCEPT !.pc = "upsert", !.keep = HostedBy(workers[w].at),
                                     !.left = HostedBy(workers[w].at)]
  <2>1. workers \in [Workers -> Worker] BY DEF Typed, TypeOK
  <2>2. workers'[w] = u BY <1>b, <2>1 DEF ListRepositories, Become
  <2>3. /\ u.pc = "upsert" /\ u.at = workers[w].at
        /\ u.keep = HostedBy(workers[w].at) /\ u.left = HostedBy(workers[w].at)
    BY <2>1 DEF Worker
  <2> HIDE DEF u
  <2> QED BY <1>b, <2>2, <2>3 DEF Listed, ListRepositories, At
<1>1. CASE Listed(w)
  BY <1>1 DEF Listed, Repairs
<1>2. ASSUME Repairs(w), workers'[w] = workers[w] PROVE Repairs(w)'
  <2>1. CASE workers[w].pc = "upsert"
    <3>1. workers[w].keep \ workers[w].left \subseteq LinkedTo(workers[w].at)
      BY <1>2, <2>1 DEF Repairs
    <3>2. workers[w].keep = HostedBy(workers[w].at) BY <1>f, <2>1 DEF FreshList
    <3>3. \A r \in workers[w].keep \ workers[w].left :
            r \in Repos /\ rows'[r] = workers[w].at
      BY <1>f, <1>t, <2>1, <3>1, <3>2, NoInstallationAssumption DEF Heals, LinkedTo, HostedBy
    <3> QED BY <1>2, <2>1, <3>3 DEF Repairs, LinkedTo
  <2>2. CASE workers[w].pc = "prune"
    <3>1. /\ workers[w].keep \subseteq LinkedTo(workers[w].at)
          /\ LinkedTo(workers[w].at) \subseteq workers[w].keep \cup workers[w].left
      BY <1>2, <2>2 DEF Repairs
    <3>2. workers[w].keep = HostedBy(workers[w].at) BY <1>f, <2>2 DEF FreshList
    <3>3. \A r \in workers[w].keep : r \in Repos /\ rows'[r] = workers[w].at
      BY <1>f, <1>t, <2>2, <3>1, <3>2, NoInstallationAssumption DEF Heals, LinkedTo, HostedBy
    <3>4. \A r \in Repos : rows'[r] = workers[w].at =>
            r \in workers[w].keep \cup workers[w].left
      BY <1>f, <1>t, <2>2, <3>1, <3>2 DEF Heals, LinkedTo, HostedBy
    <3> QED BY <1>2, <2>2, <3>3, <3>4 DEF Repairs, LinkedTo
  <2> QED BY <1>2, <2>1, <2>2 DEF Repairs
<1>3. ASSUME Repairs(w), Upserted(w) PROVE Repairs(w)'
  <2>1. PICK r \in workers[w].left : /\ workers'[w].left = workers[w].left \ {r}
                                     /\ Upsert(r, workers[w].at)
    BY <1>3 DEF Upserted
  <2>2. \A s \in Repos : rows'[s] = IF s = r THEN workers[w].at ELSE rows[s]
    BY <1>t, <2>1 DEF Upsert
  <2>3. workers[w].keep \ workers[w].left \subseteq LinkedTo(workers[w].at)
    BY <1>3 DEF Repairs, Upserted
  <2>4. \A s \in workers[w].keep \ (workers[w].left \ {r}) :
          s \in Repos /\ rows'[s] = workers[w].at
    BY <1>t, <2>1, <2>2, <2>3 DEF LinkedTo
  <2> QED BY <1>3, <2>1, <2>4 DEF Repairs, Upserted, SameSync, LinkedTo
<1>4. ASSUME Repairs(w), Compared(w) PROVE Repairs(w)'
  <2>1. workers[w].keep \subseteq LinkedTo(workers[w].at)
    BY <1>4 DEF Repairs, Compared
  <2> QED BY <1>4, <2>1 DEF Repairs, Compared, SameSync, LinkedTo
<1>5. ASSUME Repairs(w), Pruned(w) PROVE Repairs(w)'
  <2>1. PICK r \in workers[w].left : /\ workers'[w].left = workers[w].left \ {r}
                                     /\ Clear(workers[w].at, {r})
    BY <1>5 DEF Pruned
  <2>2. \A s \in Repos :
          rows'[s] = IF s = r /\ rows[s] = workers[w].at THEN None ELSE rows[s]
    BY <1>t, <2>1 DEF Clear
  <2>3. /\ workers[w].keep \subseteq LinkedTo(workers[w].at)
        /\ LinkedTo(workers[w].at) \subseteq workers[w].keep \cup workers[w].left
        /\ workers[w].at # None
    BY <1>5, <1>t, NoInstallationAssumption DEF Repairs, Pruned
  <2>4. r \notin workers[w].keep BY <1>5, <1>f, <2>1 DEF Pruned, FreshList
  <2>5. \A s \in workers[w].keep : s \in Repos /\ rows'[s] = workers[w].at
    BY <2>2, <2>3, <2>4 DEF LinkedTo
  <2>6. \A s \in Repos : rows'[s] = workers[w].at =>
          s \in workers[w].keep \cup (workers[w].left \ {r})
    BY <2>2, <2>3 DEF LinkedTo
  <2> QED BY <1>5, <2>1, <2>5, <2>6 DEF Repairs, Pruned, SameSync, LinkedTo
<1>6. ASSUME NEW v \in Workers,
             \/ Sync(v) \/ \E i \in Installations : SkipInstallation(v, i)
             \/ Fails(v) \/ CompletionLost(v) \/ Abandon(v)
      PROVE  Repairs(w)' \/ workers'[w].pc \notin {"upsert", "prune"}
  <2>1. /\ v # w => workers'[w] = workers[w]
        /\ LetsGo(v) \/ Listed(v) \/ Upserted(v) \/ Compared(v) \/ Pruned(v)
    BY <1>6, SyncSteps
  <2> QED BY <1>1, <1>2, <1>3, <1>4, <1>5, <1>b, <2>1 DEF LetsGo
<1>7. CASE UNCHANGED workers
  <2>1. ~ListRepositories(w)
    BY <1>7, <1>b DEF Listed
  <2> QED BY <1>2, <1>7, <2>1
<1> QED
  BY <1>6, <1>7
  DEF Next, GitHub, Install, Uninstall, MoveRepo, Handle, Stamp, WriteAdded, WriteRemoved,
      WriteDeleted, Read, Fetch, Tick, Fault, Lose, SkipRepo, vars

\* The installation of a repository is installed.
Hosted == \A r \in Repos : hosts[r] # None => life[hosts[r]] = "installed"

LEMMA HostedStep == Typed /\ Hosted /\ [Next]_vars => Hosted'
<1> SUFFICES ASSUME Typed, Hosted, [Next]_vars PROVE Hosted'
  OBVIOUS
<1>t. /\ hosts \in [Repos -> Installations \cup {None}]
      /\ life \in [Installations -> {"new", "installed", "deleted"}]
  BY DEF Typed, TypeOK
<1>1. ASSUME NEW i \in Installations, NEW s \in SUBSET Repos, Install(i, s) PROVE Hosted'
  BY <1>t, <1>1 DEF Install, Hosted
<1>2. ASSUME NEW i \in Installations, Uninstall(i) PROVE Hosted'
  BY <1>t, <1>2 DEF Uninstall, Hosted
<1>3. ASSUME NEW r \in Repos, NEW i \in Installations \cup {None}, MoveRepo(r, i) PROVE Hosted'
  BY <1>t, <1>3 DEF MoveRepo, Hosted
<1>4. CASE UNCHANGED github BY <1>4 DEF github, Hosted
<1> QED
  BY <1>1, <1>2, <1>3, <1>4
  DEF Next, GitHub, Handle, Stamp, WriteAdded, WriteRemoved, WriteDeleted, Read, Fetch, Tick,
      Fault, Lose, SkipRepo, SkipInstallation, Fails, CompletionLost, Abandon, Sync,
      ListInstallations, EndSweep, Look, MarkSyncStarted, ListRepositories, UpsertListed, Prune,
      ListLinked, MarkSyncCompleted, vars

LEMMA HostedAlways == Spec => [](Typed /\ Hosted)
<1>1. Init => Hosted BY DEF Init, Hosted
<1> QED BY <1>1, HostedStep, TypedAlways, PTL DEF Spec

\* The table agrees with GitHub when the rows of each installation do.
LEMMA TrueByInstallation ==
  ASSUME Typed, Hosted
  PROVE  RowsAreTrue <=> \A i \in Installations : life[i] = "installed" => TrueOf(i)
<1>t. /\ hosts \in [Repos -> Installations \cup {None}]
      /\ rows \in [Repos -> Installations \cup {None}]
  BY DEF Typed, TypeOK
<1> QED
  BY <1>t, NoInstallationAssumption DEF Hosted, RowsAreTrue, TrueOf, LinkedTo, HostedBy

LEMMA HealsKeepsTrue ==
  ASSUME Typed, Heals, UNCHANGED github, NEW i \in Installations, TrueOf(i)
  PROVE  TrueOf(i)'
<1>h. HostedBy(i)' = HostedBy(i) BY DEF github, HostedBy
<1>1. \A r \in Repos : rows[r] = i <=> hosts[r] = i BY DEF TrueOf, LinkedTo, HostedBy
<1>2. \A r \in Repos : rows'[r] = i <=> hosts[r] = i
  BY <1>1, NoInstallationAssumption DEF Heals
<1> QED BY <1>h, <1>2 DEF TrueOf, LinkedTo, HostedBy

\* What a step does while GitHub is left alone.
TruthSpreads ==
  UNCHANGED github /\ UpToDate =>
    /\ UpToDate'
    /\ \A i \in Installations : TrueOf(i) => TrueOf(i)'
    /\ \A w \in Workers :
         /\ ListRepositories(w) \/ Repairs(w) =>
              Repairs(w)' \/ workers'[w].pc \notin {"upsert", "prune"}
         /\ Repairs(w) /\ At(w, "prune") /\ workers[w].left = {} => TrueOf(workers[w].at)

(* The safety net for missed webhooks, in any number of workers: when GitHub  *)
(* is left alone and what is under way is no older than its last change, this *)
(* stays so, and whatever is lost, repeated or in a changed order,            *)
(* installations whose rows are true stay true, and a sync that comes to its  *)
(* end leaves the rows of its installation true (reconcile_installation       *)
(* beside the webhook handlers, the read API and the other workers).          *)
THEOREM SyncsRepair == Spec => [][TruthSpreads]_vars
<1>1. Typed /\ [Next]_vars => [TruthSpreads]_vars
  <2> SUFFICES ASSUME Typed, [Next]_vars, UNCHANGED github, UpToDate
               PROVE  /\ UpToDate'
                      /\ \A i \in Installations : TrueOf(i) => TrueOf(i)'
                      /\ \A w \in Workers :
                           /\ ListRepositories(w) \/ Repairs(w) =>
                                Repairs(w)' \/ workers'[w].pc \notin {"upsert", "prune"}
                           /\ Repairs(w) /\ At(w, "prune") /\ workers[w].left = {} =>
                                TrueOf(workers[w].at)
    BY DEF TruthSpreads
  <2>1. Heals /\ UpToDate' BY StaysFresh
  <2>2. \A i \in Installations : TrueOf(i) => TrueOf(i)' BY <2>1, HealsKeepsTrue
  <2>3. \A w \in Workers : ListRepositories(w) \/ Repairs(w) =>
          Repairs(w)' \/ workers'[w].pc \notin {"upsert", "prune"}
    BY RepairGoesOn
  <2>4. ASSUME NEW w \in Workers, Repairs(w), At(w, "prune"), workers[w].left = {}
        PROVE  TrueOf(workers[w].at)
    BY <2>4 DEF Repairs, At, UpToDate, FreshList, TrueOf
  <2> QED BY <2>1, <2>2, <2>3, <2>4
<1> QED BY <1>1, TypedAlways, PTL DEF Spec

(* And so the table as a whole, once it agrees with GitHub, goes on to agree: *)
(* no late delivery, retried sync or stopped worker takes it back.            *)
THEOREM TruthLasts ==
  Spec => [][UNCHANGED github /\ UpToDate /\ RowsAreTrue => UpToDate' /\ RowsAreTrue']_vars
<1>1. ASSUME Typed, Hosted, Typed', Hosted', [Next]_vars, UNCHANGED github, UpToDate, RowsAreTrue
      PROVE  UpToDate' /\ RowsAreTrue'
  <2>1. Heals /\ UpToDate' BY <1>1, StaysFresh
  <2>2. life' = life BY <1>1 DEF github
  <2>3. \A i \in Installations : life[i] = "installed" => TrueOf(i)
    BY <1>1, TrueByInstallation
  <2>4. \A i \in Installations : life'[i] = "installed" => TrueOf(i)'
    BY <1>1, <2>1, <2>2, <2>3, HealsKeepsTrue
  <2>5. RowsAreTrue' <=> \A i \in Installations : life'[i] = "installed" => TrueOf(i)'
    <3>1. (Typed /\ Hosted =>
             (RowsAreTrue <=> \A i \in Installations : life[i] = "installed" => TrueOf(i)))'
      BY TrueByInstallation, PTL
    <3> QED BY <1>1, <3>1
  <2> QED BY <2>1, <2>4, <2>5
<1>2. Typed /\ Hosted /\ Typed' /\ Hosted' /\ [Next]_vars =>
        [UNCHANGED github /\ UpToDate /\ RowsAreTrue => UpToDate' /\ RowsAreTrue']_vars
  BY <1>1
<1> QED BY <1>2, HostedAlways, PTL DEF Spec
=============================================================================
