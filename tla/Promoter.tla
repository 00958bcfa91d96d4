------------------------------ MODULE Promoter ------------------------------
(***************************************************************************)
(* The promotion engine (internal/promoter) for ONE application, with the  *)
(* parts of the store it shares between replicas: ring state, history, the *)
(* write-ahead journal and the application lock.  Applications have        *)
(* disjoint rows and disjoint locks, so one of them is the whole story.    *)
(*                                                                         *)
(* An operation (seed, promote, rollback, restart, or the recovery of one  *)
(* that a dead process left behind) is a goroutine of some replica.  It is *)
(* a step machine: one action for every store call, deploy call or health  *)
(* check, so that a crash, an expired context, a late deploy or another    *)
(* replica can fall between any two of them.                               *)
(***************************************************************************)
EXTENDS Rings, Sequences, FiniteSets

CONSTANTS
  Versions,      \* concrete builds
  Ref,           \* the name a ref-pinned ring deploys ("release")
  NoVersion,     \* the empty version string
  Replicas,      \* processes of the service
  Procs,         \* slots for operation goroutines, over all replicas
  NoProc,        \* the application lock is free
  Configured,    \* rings the application configures
  HasURL,        \* rings with a health_url
  Verifies,      \* rings whose endpoint reports the version it runs
  Pinned,        \* rings with a ref
  Removable,     \* rings a new configuration may drop at a restart
  Toggled,       \* rings whose auto-promote switch the API is asked to flip
  Declared,      \* rings whose auto-promote switch the configuration owns
  DeclaredOn,    \* ... and declares on
  DeployFaults,  \* which of "partial" and "late" a failing deploy may be
  LateLanding,   \* may a deploy outlive the process that asked for it?
  Timeouts,      \* may an operation's context expire?
  Requested,     \* kinds of operation the API is asked for
  MaxRequests,   \* bound: operations requested
  MaxCrashes     \* bound: processes killed

VersionX == Versions \cup {Ref, NoVersion}
ApiKind == {"seed", "promote", "rollback", "restart"}
Kind == ApiKind \cup {"recover"}

ASSUME RingConfigAssumption ==
  /\ Configured \subseteq Ring
  /\ Removable \subseteq Configured
  /\ Toggled \subseteq Configured
  /\ DeclaredOn \subseteq Declared
  /\ \A r \in DeclaredOn : HasNext(r) /\ NextRing(r) \in Configured
  /\ Pinned \subseteq Ring
  /\ HasURL \subseteq Ring
  /\ Verifies \subseteq HasURL
ASSUME VersionAssumption ==
  /\ Ref \notin Versions
  /\ NoVersion \notin Versions
  /\ NoVersion # Ref
ASSUME ProcAssumption == NoProc \notin Procs /\ Replicas # {}
ASSUME FaultAssumption ==
  /\ DeployFaults \subseteq {"partial", "late"}
  /\ LateLanding \in BOOLEAN
  /\ Timeouts \in BOOLEAN
  /\ Requested \subseteq ApiKind
ASSUME BoundAssumption == MaxRequests \in Nat /\ MaxCrashes \in Nat

VARIABLES
  \* the store
  state,     \* ring_state rows: current and previous version, health flag
  auto,      \* ring_state.auto_promote
  history,   \* history rows, oldest first
  journal,   \* pending_op rows
  nextId,    \* the journal's next serial id
  holder,    \* who holds the advisory lock "app:<name>"
  \* the outside world
  live,      \* the version each ring's cluster runs
  orphans,   \* deploys still executing with nobody waiting for them
  \* the service
  up,        \* replicas that are running
  cfg,       \* the rings in the configuration each replica loaded
  op,        \* the operation goroutines
  \* bounds
  requests, crashes

storeVars == <<state, auto, history, journal, nextId>>
worldVars == <<live, orphans>>
serviceVars == <<up, cfg>>
boundVars == <<requests, crashes>>
vars == <<storeVars, holder, worldVars, serviceVars, op, boundVars>>

-----------------------------------------------------------------------------
(* Records. *)

Row == [cur : VersionX, prev : VersionX, healthy : BOOLEAN]

\* A pending_op row (store.PendingOp).
JournalRec ==
  [id : Nat, act : ApiKind, ring : Ring, from : Ring \cup {0},
   version : VersionX, prev : VersionX]

\* A history row.  `id' is the journal id of the attempt it reports (0: the
\* attempt never got as far as the journal), which the code only logs.
Entry ==
  [id : Nat, act : ApiKind, ring : Ring, to : VersionX,
   result : {"success", "failure"}]

PC == {"idle", "lock", "recheck", "begin", "deploy", "restart", "persist",
       "check", "save", "record", "unhealthy", "resave", "rbdeploy",
       "rbcheck", "rbsave", "rbrecord", "await", "clear", "chain", "finish"}

\* The locals of an operation: act, ring, from, version and prev describe
\* the hop in progress; att is its journal id, rec the id of the row a
\* recovery resolves, ok is Result.Success.
OpRec ==
  [kind : Kind, pc : PC, home : Replicas, act : ApiKind,
   ring : Ring, from : Ring \cup {0}, version : VersionX, prev : VersionX,
   att : Nat, rec : Nat, ok : BOOLEAN, expired : BOOLEAN]

Idle == [kind |-> "seed", pc |-> "idle", home |-> CHOOSE p \in Replicas : TRUE,
         act |-> "seed", ring |-> 1, from |-> 0, version |-> NoVersion,
         prev |-> NoVersion, att |-> 0, rec |-> 0,
         ok |-> FALSE, expired |-> FALSE]

Ids == {j.id : j \in journal}
Logged == {history[k].id : k \in DOMAIN history}
IdleSlots == {o \in Procs : op[o].pc = "idle"}

-----------------------------------------------------------------------------
(* What deploying and probing do to, and see of, the outside world. *)

\* deployVersion: a pinned ring ships its ref whatever it is asked for.
DeployVersion(r, v) == IF r \in Pinned THEN Ref ELSE v

\* The builds a ring may run once v is deployed to it: the pipeline behind a
\* ref decides which build the ref is.
Shipped(r, v) == IF r \in Pinned /\ v = Ref THEN Versions ELSE {v}

\* Whether a health check of r wanting version `want' can pass.
CanPass(o, r, want) ==
  r \in HasURL => /\ ~op[o].expired
                  /\ r \in Verifies /\ want # NoVersion => live[r] = want

\* Post-deploy checks of a pinned ring demand no version.
Want(r, v) == IF r \in Pinned THEN NoVersion ELSE v

\* The version recorded after a healthy deploy of v to r (runningVersion):
\* a pinned ring is asked what it runs and may fail to say.
Recorded(r, v) ==
  IF r \notin Pinned THEN {v}
  ELSE IF r \in Verifies THEN {live[r], v} ELSE {v}

-----------------------------------------------------------------------------
(* Store calls.  They run under the operation's context: once it has       *)
(* expired they fail, and saveState and record only log that.              *)

SaveState(o, r, prev, cur, healthy) ==
  state' = IF op[o].expired THEN state
           ELSE [state EXCEPT ![r] =
                   [cur |-> cur, prev |-> prev, healthy |-> healthy]]

Record(o, act, to, ok) ==
  history' = IF op[o].expired THEN history
             ELSE Append(history,
                    [id |-> op[o].att, act |-> act, ring |-> op[o].ring,
                     to |-> to, result |-> IF ok THEN "success" ELSE "failure"])

\* currentVersion: an unreadable row reads as the empty version.
CurrentVersion(o, r) == IF op[o].expired THEN NoVersion ELSE state[r].cur

JournalStartAtSource(o, act, r, from, v, prev) ==   \* fault: names the ring asked for
  LET asked == IF from = 0 THEN r ELSE from
  IN IF op[o].expired THEN UNCHANGED <<journal, nextId>>
     ELSE /\ journal' = journal \cup
               {[id |-> nextId, act |-> act, ring |-> asked, from |-> from,
                 version |-> v, prev |-> prev]}
          /\ nextId' = nextId + 1
\* journalStart: the write-ahead row of the deploy about to happen.  When
\* the insert fails the operation goes on unjournaled, with id 0.
JournalStart(o, act, r, from, v, prev) ==
  IF op[o].expired THEN UNCHANGED <<journal, nextId>>
  ELSE /\ journal' = journal \cup
            {[id |-> nextId, act |-> act, ring |-> r, from |-> from,
              version |-> v, prev |-> prev]}
       /\ nextId' = nextId + 1
NewAttempt(o) == IF op[o].expired THEN 0 ELSE nextId

\* journalEnd: runs under a fresh context, so it always reaches the store.
JournalEnd(id) == journal' = {j \in journal : j.id # id}

\* Advance operation o to the locals l.
Become(o, l) == op' = [op EXCEPT ![o] = l]
Goto(o, pc) == Become(o, [op[o] EXCEPT !.pc = pc])
-----------------------------------------------------------------------------
(* Requests.  A request refused before the lock (unknown ring, version not *)
(* found, closed gate on a seed) leaves no trace and is no step here.      *)

Request(o, p, kind, r, v) ==
  /\ kind \in Requested
  /\ requests < MaxRequests
  /\ p \in up
  /\ r \in cfg[p]
  /\ op[o].pc = "idle"
  /\ Become(o, [Idle EXCEPT !.kind = kind, !.pc = "lock", !.home = p,
                            !.act = kind, !.ring = r, !.version = v])
  /\ requests' = requests + 1
  /\ UNCHANGED <<storeVars, holder, worldVars, serviceVars, crashes>>

RequestSeed(o, p, r) ==
  \E v \in Versions : Request(o, p, "seed", r, DeployVersion(r, v))
RequestPromote(o, p, r) == Request(o, p, "promote", r, NoVersion)
RequestRollback(o, p, r) == Request(o, p, "rollback", r, NoVersion)

\* Restart checks its preconditions once before it queues for the lock.
RequestRestart(o, p, r) ==
  /\ state[r].cur # NoVersion
  /\ Request(o, p, "restart", r, NoVersion)

\* SetAutoPromote: takes no application lock; enabling needs a next ring, and
\* a switch that the configuration owns is refused.
SetAutoPromote(p, r, enabled) ==
  /\ p \in up
  /\ r \in (Toggled \cap cfg[p]) \ Declared
  /\ auto[r] # enabled
  /\ enabled => HasNext(r) /\ NextRing(r) \in cfg[p]
  /\ auto' = [auto EXCEPT ![r] = enabled]
  /\ UNCHANGED <<state, history, journal, nextId, holder, worldVars,
                 serviceVars, op, boundVars>>

-----------------------------------------------------------------------------
(* The application lock. *)

\* A recovery whose ring is not in its replica's configuration.
Dropped(o) == op[o].kind = "recover" /\ op[o].ring \notin cfg[op[o].home]

FreeAlways == TRUE   \* fault: a key per operation, so nothing is excluded
Free == holder = NoProc

AcquireLock(o) ==
  /\ op[o].pc = "lock"
  /\ ~op[o].expired
  /\ ~Dropped(o)
  /\ Free
  /\ holder' = o
  /\ Goto(o, IF op[o].kind = "recover" THEN "recheck" ELSE "begin")
  /\ UNCHANGED <<storeVars, worldVars, serviceVars, boundVars>>

\* The context expired while queueing: nothing was read, nothing is recorded.
LockRefused(o) ==
  /\ op[o].pc = "lock"
  /\ op[o].expired
  /\ ~Dropped(o)
  /\ Become(o, Idle)
  /\ UNCHANGED <<storeVars, holder, worldVars, serviceVars, boundVars>>

-----------------------------------------------------------------------------
(* The start of each operation (or hop), under the lock: read the state,   *)
(* check the preconditions, write the journal row.                         *)

BeginSeed(o) ==
  LET me == op[o]
      prev == CurrentVersion(o, me.ring)
  IN /\ me.pc = "begin"
     /\ me.act = "seed"
     /\ JournalStart(o, "seed", me.ring, 0, me.version, prev)
     /\ Become(o, [me EXCEPT !.pc = "deploy", !.prev = prev,
                             !.att = NewAttempt(o)])
     /\ UNCHANGED <<state, auto, history, holder, worldVars, serviceVars,
                    boundVars>>

\* promoteHop's preconditions; the hop's source is the operation's ring.
Promotable(o) ==
  LET me == op[o]
  IN /\ me.pc = "begin"
     /\ me.act = "promote"
     /\ ~me.expired
     /\ HasNext(me.ring)
     /\ {me.ring, NextRing(me.ring)} \subseteq cfg[me.home]
     /\ state[me.ring].cur # NoVersion

BeginPromote(o) ==
  LET me == op[o]
      dst == NextRing(me.ring)
      source == state[me.ring].cur
      v == DeployVersion(dst, source)
      prev == state[dst].cur
  IN /\ Promotable(o)
     /\ CanPass(o, me.ring, source)
     /\ JournalStart(o, "promote", dst, me.ring, v, prev)
     /\ Become(o, [me EXCEPT !.pc = "deploy", !.ring = dst, !.from = me.ring,
                             !.version = v, !.prev = prev, !.ok = FALSE,
                             !.att = NewAttempt(o)])
     /\ UNCHANGED <<state, auto, history, holder, worldVars, serviceVars,
                    boundVars>>

\* The source ring fails its live check: its health flag is cleared and the
\* promotion is recorded as failed, without journal or deploy.
SourceUnhealthy(o) ==
  LET me == op[o]
  IN /\ Promotable(o)
     /\ me.ring \in HasURL
     /\ state' = [state EXCEPT ![me.ring].healthy = FALSE]
     /\ Become(o, [me EXCEPT !.pc = "record", !.ring = NextRing(me.ring),
                             !.from = me.ring, !.version = state[me.ring].cur,
                             !.prev = NoVersion, !.ok = FALSE, !.att = 0])
     /\ UNCHANGED <<auto, history, journal, nextId, holder, worldVars,
                    serviceVars, boundVars>>

\* Rollback deploys the previous version; from here on `prev' is the version
\* to restore and `version' the one being left, as in an auto-rollback.
BeginRollback(o) ==
  LET me == op[o]
      row == state[me.ring]
  IN /\ me.pc = "begin"
     /\ me.act = "rollback"
     /\ ~me.expired
     /\ row.prev # NoVersion
     /\ JournalStart(o, "rollback", me.ring, 0, row.prev, row.cur)
     /\ Become(o, [me EXCEPT !.pc = "rbdeploy", !.version = row.cur,
                             !.prev = row.prev, !.att = NewAttempt(o)])
     /\ UNCHANGED <<state, auto, history, holder, worldVars, serviceVars,
                    boundVars>>

\* Restart re-reads the row under the lock; it writes no journal row.
BeginRestart(o) ==
  LET me == op[o]
      row == state[me.ring]
  IN /\ me.pc = "begin"
     /\ me.act = "restart"
     /\ ~me.expired
     /\ row.cur # NoVersion
     /\ Become(o, [me EXCEPT !.pc = "restart", !.version = row.cur,
                             !.prev = row.prev])
     /\ UNCHANGED <<storeVars, holder, worldVars, serviceVars, boundVars>>

\* A precondition fails (or, for a promotion, a policy gate is closed): the
\* operation ends there.  What a chain already did stands.
Refuse(o) ==
  LET me == op[o]
  IN /\ me.pc = "begin"
     /\ \/ me.act = "promote"
        \/ me.act = "rollback" /\ (me.expired \/ state[me.ring].prev = NoVersion)
        \/ me.act = "restart" /\ (me.expired \/ state[me.ring].cur = NoVersion)
     /\ Goto(o, "finish")
     /\ UNCHANGED <<storeVars, holder, worldVars, serviceVars, boundVars>>

-----------------------------------------------------------------------------
(* Deploys.  A deploy that returns nil has changed the cluster.  One that  *)
(* returns an error may have been refused, may have changed the cluster    *)
(* all the same ("partial": kubectl set the image, the rollout status call *)
(* failed), or may still be executing somewhere ("late": a workflow whose  *)
(* status could not be read).                                              *)

Lands(r, v) ==
  /\ \E build \in Shipped(r, v) : live' = [live EXCEPT ![r] = build]
  /\ UNCHANGED orphans

DeployError(r, v) ==
  \/ UNCHANGED worldVars
  \/ "partial" \in DeployFaults /\ Lands(r, v)
  \/ /\ "late" \in DeployFaults
     /\ orphans' = orphans \cup {[ring |-> r, version |-> v]}
     /\ UNCHANGED live

AfterDeployUnsaved(act) == "check"   \* fault: promoteHop saves as late as Seed
\* Only promoteHop persists the new version before it checks its health.
AfterDeploy(act) == IF act = "promote" THEN "persist" ELSE "check"

DeployOk(o) ==
  /\ op[o].pc = "deploy"
  /\ ~op[o].expired
  /\ Lands(op[o].ring, op[o].version)
  /\ Goto(o, AfterDeploy(op[o].act))
  /\ UNCHANGED <<storeVars, holder, serviceVars, boundVars>>

FailedUnrecorded(me) ==   \* fault: the failure is not recorded
  [me EXCEPT !.pc = "clear", !.ok = FALSE]
FailedDeploy(me) == [me EXCEPT !.pc = "record", !.ok = FALSE]

DeployFails(o) ==
  /\ op[o].pc = "deploy"
  /\ DeployError(op[o].ring, op[o].version)
  /\ Become(o, FailedDeploy(op[o]))
  /\ UNCHANGED <<storeVars, holder, serviceVars, boundVars>>

\* deployer.Restart: new pods on the same version.
RestartPods(o) ==
  /\ op[o].pc = "restart"
  /\ \/ ~op[o].expired /\ Goto(o, "check")
     \/ Become(o, [op[o] EXCEPT !.pc = "record", !.ok = FALSE])
  /\ UNCHANGED <<storeVars, holder, worldVars, serviceVars, boundVars>>

Persist(o) ==
  /\ op[o].pc = "persist"
  /\ SaveState(o, op[o].ring, op[o].prev, op[o].version, FALSE)
  /\ Goto(o, "check")
  /\ UNCHANGED <<auto, history, journal, nextId, holder, worldVars,
                 serviceVars, boundVars>>

-----------------------------------------------------------------------------
(* The health check (all its retries are one step) and what follows it.    *)

CheckPasses(o) ==
  LET me == op[o]
  IN /\ me.pc = "check"
     /\ CanPass(o, me.ring, Want(me.ring, me.version))
     /\ \E v \in IF me.act = "restart" THEN {me.version}
                 ELSE Recorded(me.ring, me.version) :
          Become(o, [me EXCEPT !.pc = "save", !.version = v, !.ok = TRUE])
     /\ UNCHANGED <<storeVars, holder, worldVars, serviceVars, boundVars>>

CheckFails(o) ==
  LET me == op[o]
  IN /\ me.pc = "check"
     /\ me.ring \in HasURL
     /\ Become(o, [me EXCEPT !.ok = FALSE, !.pc =
                     IF me.act = "promote" THEN "unhealthy" ELSE "save"])
     /\ UNCHANGED <<storeVars, holder, worldVars, serviceVars, boundVars>>

Save(o) ==
  /\ op[o].pc = "save"
  /\ SaveState(o, op[o].ring, op[o].prev, op[o].version, op[o].ok)
  /\ Goto(o, "record")
  /\ UNCHANGED <<auto, history, journal, nextId, holder, worldVars,
                 serviceVars, boundVars>>

RecordOutcome(o) ==
  /\ op[o].pc = "record"
  /\ Record(o, op[o].act, op[o].version, op[o].ok)
  /\ Goto(o, "clear")
  /\ UNCHANGED <<state, auto, journal, nextId, holder, worldVars,
                 serviceVars, boundVars>>

\* A promoted version failed its health check: the failure is recorded and
\* the ring rolled back, unless it had no version before.
RecordUnhealthy(o) ==
  /\ op[o].pc = "unhealthy"
  /\ Record(o, "promote", op[o].version, FALSE)
  /\ Goto(o, IF op[o].prev = NoVersion THEN "resave" ELSE "rbdeploy")
  /\ UNCHANGED <<state, auto, journal, nextId, holder, worldVars,
                 serviceVars, boundVars>>

NothingToRestore(o) ==
  /\ op[o].pc = "resave"
  /\ SaveState(o, op[o].ring, op[o].prev, op[o].version, FALSE)
  /\ Goto(o, "clear")
  /\ UNCHANGED <<auto, history, journal, nextId, holder, worldVars,
                 serviceVars, boundVars>>

-----------------------------------------------------------------------------
(* rollbackTo, shared by Rollback and the auto-rollback of a promotion.    *)

RollbackDeployOk(o) ==
  /\ op[o].pc = "rbdeploy"
  /\ ~op[o].expired
  /\ Lands(op[o].ring, op[o].prev)
  /\ Goto(o, "rbcheck")
  /\ UNCHANGED <<storeVars, holder, serviceVars, boundVars>>

RollbackDeployFails(o) ==
  /\ op[o].pc = "rbdeploy"
  /\ DeployError(op[o].ring, op[o].prev)
  /\ Become(o, [op[o] EXCEPT !.pc = "rbrecord", !.ok = FALSE])
  /\ UNCHANGED <<storeVars, holder, serviceVars, boundVars>>

RollbackCheckPasses(o) ==
  LET me == op[o]
  IN /\ me.pc = "rbcheck"
     /\ CanPass(o, me.ring, Want(me.ring, me.prev))
     /\ \E v \in Recorded(me.ring, me.prev) :
          Become(o, [me EXCEPT !.pc = "rbsave", !.prev = v, !.ok = TRUE])
     /\ UNCHANGED <<storeVars, holder, worldVars, serviceVars, boundVars>>

RollbackCheckFails(o) ==
  /\ op[o].pc = "rbcheck"
  /\ op[o].ring \in HasURL
  /\ Become(o, [op[o] EXCEPT !.pc = "rbsave", !.ok = FALSE])
  /\ UNCHANGED <<storeVars, holder, worldVars, serviceVars, boundVars>>

LeftUnnoted(o) ==   \* fault: only the current version moves
  state[op[o].ring].prev
\* What a rolled-back ring's previous version becomes: the version it leaves.
Left(o) == op[o].version

RollbackSave(o) ==
  /\ op[o].pc = "rbsave"
  /\ SaveState(o, op[o].ring, Left(o), op[o].prev, op[o].ok)
  /\ Goto(o, "rbrecord")
  /\ UNCHANGED <<auto, history, journal, nextId, holder, worldVars,
                 serviceVars, boundVars>>

\* A promotion that was rolled back has failed, however healthy the ring is.
RollbackRecord(o) ==
  /\ op[o].pc = "rbrecord"
  /\ Record(o, "rollback", op[o].prev, op[o].ok)
  /\ Become(o, [op[o] EXCEPT !.pc = "clear", !.act = "rollback"])
  /\ UNCHANGED <<state, auto, journal, nextId, holder, worldVars,
                 serviceVars, boundVars>>

-----------------------------------------------------------------------------
(* The end of a hop and of an operation. *)

ClearsIfOk(me) == me.ok /\ me.att # me.rec   \* fault: failures keep their row
\* The attempt's journal row is cleared.  A recovery keeps the row it resolves
\* until it has finished its chain (journalEnd is deferred there).
Clears(me) == me.att # me.rec

ChainsAnyway(me) == me.act \in {"seed", "promote"}   \* fault: after failures too
ChainsOn(me) == me.ok /\ me.act \in {"seed", "promote"}

ClearAttempt(o) ==
  /\ op[o].pc = "clear"
  /\ IF Clears(op[o]) THEN JournalEnd(op[o].att) ELSE UNCHANGED journal
  /\ Goto(o, IF ChainsOn(op[o]) THEN "chain" ELSE "finish")
  /\ UNCHANGED <<state, auto, history, nextId, holder, worldVars,
                 serviceVars, boundVars>>

\* autoChain: promote onward from the ring just reached, in the same operation.
Chain(o) ==
  LET me == op[o]
      onward == /\ ~me.expired
                /\ auto[me.ring]
                /\ HasNext(me.ring)
                /\ NextRing(me.ring) \in cfg[me.home]
  IN /\ me.pc = "chain"
     /\ Become(o, IF onward THEN [me EXCEPT !.pc = "begin", !.act = "promote"]
                  ELSE [me EXCEPT !.pc = "finish"])
     /\ UNCHANGED <<storeVars, holder, worldVars, serviceVars, boundVars>>

Finish(o) ==
  /\ op[o].pc = "finish"
  /\ JournalEnd(op[o].rec)
  /\ holder' = NoProc
  /\ Become(o, Idle)
  /\ UNCHANGED <<state, auto, history, nextId, worldVars, serviceVars,
                 boundVars>>

-----------------------------------------------------------------------------
(* Recovery of journaled operations (recovery.go). *)

RecoverOp(p, j) ==
  [Idle EXCEPT !.kind = "recover", !.pc = "lock", !.home = p, !.act = j.act,
               !.ring = j.ring, !.from = j.from, !.version = j.version,
               !.prev = j.prev, !.att = j.id, !.rec = j.id]

\* The ring is no longer configured: the row is dropped, outside the lock,
\* and nothing is written to history.
RecoverDropped(o) ==
  /\ op[o].pc = "lock"
  /\ Dropped(o)
  /\ JournalEnd(op[o].rec)
  /\ Become(o, Idle)
  /\ UNCHANGED <<state, auto, history, nextId, holder, worldVars,
                 serviceVars, boundVars>>

JournaledUnasked(o) == TRUE   \* fault: the row is not looked up again
StillJournaled(o) == op[o].rec \in Ids

\* Under the lock: is the row still there?  If not, its owner finished.  An
\* unreadable row is left for the next start.  A ring that cannot report its
\* version is recorded as a failure.
Recheck(o) ==
  LET me == op[o]
  IN /\ me.pc = "recheck"
     /\ Become(o,
          IF me.expired THEN [me EXCEPT !.pc = "finish", !.rec = 0]
          ELSE IF ~StillJournaled(o) THEN [me EXCEPT !.pc = "finish"]
          ELSE IF me.ring \in Verifies \ Pinned
               THEN [me EXCEPT !.pc = "await"]
          ELSE [me EXCEPT !.pc = "record"])
     /\ UNCHANGED <<storeVars, holder, worldVars, serviceVars, boundVars>>

AwaitedAny(o) == NoVersion   \* fault: any healthy answer will do
Awaited(o) == op[o].version

\* awaitVersion: the ring reports the journaled version, healthy.
Landed(o) ==
  /\ op[o].pc = "await"
  /\ CanPass(o, op[o].ring, Awaited(o))
  /\ Become(o, [op[o] EXCEPT !.pc = "save", !.ok = TRUE])
  /\ UNCHANGED <<storeVars, holder, worldVars, serviceVars, boundVars>>

GivenUpExpired(me) ==   \* fault: recorded under the context that expired
  [me EXCEPT !.pc = "record", !.expired = TRUE]
\* The failure is recorded under a context detached from the expired one.
GivenUp(me) == [me EXCEPT !.pc = "record", !.expired = FALSE]

\* The operation budget runs out first.
GiveUp(o) ==
  /\ op[o].pc = "await"
  /\ Become(o, GivenUp(op[o]))
  /\ UNCHANGED <<storeVars, holder, worldVars, serviceVars, boundVars>>

-----------------------------------------------------------------------------
(* Crashes, restarts, expiry and the world outside. *)

OpsOf(p) == {o \in Procs : op[o].pc # "idle" /\ op[o].home = p}

\* The deploys in flight in replica p, which may go on without it.
InFlight(p) ==
  {[ring |-> op[o].ring,
    version |-> IF op[o].pc = "deploy" THEN op[o].version ELSE op[o].prev] :
     o \in {x \in OpsOf(p) : op[x].pc \in {"deploy", "rbdeploy"}}}

LockKept(p) == holder   \* fault: a lock that survives the session that took it
\* The database session of a dead replica ends, which frees its advisory lock.
LockAfterCrash(p) == IF holder \in OpsOf(p) THEN NoProc ELSE holder

Crash(p) ==
  /\ crashes < MaxCrashes
  /\ p \in up
  /\ up' = up \ {p}
  /\ op' = [o \in Procs |-> IF o \in OpsOf(p) THEN Idle ELSE op[o]]
  /\ holder' = LockAfterCrash(p)
  /\ \/ UNCHANGED orphans
     \/ LateLanding /\ orphans' = orphans \cup InFlight(p)
  /\ crashes' = crashes + 1
  /\ UNCHANGED <<storeVars, live, cfg, requests>>

LoadsAll(gone) == Ring   \* fault: every ring counts as configured
Loads(gone) == Configured \ gone

LeftoverUnread == {}   \* fault: the journal is not read at start-up
Leftover == journal

\* ReconcileAutoPromote: the switches the configuration owns, as it owns them.
Reconciled(rings) ==
  [r \in Ring |-> IF r \in Declared \cap rings THEN r \in DeclaredOn ELSE auto[r]]

\* Start-up: load the configuration, reconcile the auto-promote switches and
\* start a job for every journal row, those of operations another replica is
\* still running included.
Boot(p) ==
  /\ p \notin up
  /\ up' = up \cup {p}
  /\ \E gone \in SUBSET Removable :
       /\ cfg' = [cfg EXCEPT ![p] = Loads(gone)]
       /\ auto' = Reconciled(Loads(gone))
  /\ \E slot \in [Leftover -> IdleSlots] :
       /\ \A j, k \in Leftover : j # k => slot[j] # slot[k]
       /\ op' = [o \in Procs |->
                   IF \E j \in Leftover : slot[j] = o
                   THEN RecoverOp(p, CHOOSE j \in Leftover : slot[j] = o)
                   ELSE op[o]]
  /\ UNCHANGED <<state, history, journal, nextId, holder, worldVars, boundVars>>

\* An abandoned deploy lands after all.
Land(d) ==
  /\ d \in orphans
  /\ \E build \in Shipped(d.ring, d.version) :
       live' = [live EXCEPT ![d.ring] = build]
  /\ orphans' = orphans \ {d}
  /\ UNCHANGED <<storeVars, holder, serviceVars, op, boundVars>>

\* operation_timeout: the context of an operation expires.
Expire(o) ==
  /\ Timeouts
  /\ op[o].pc # "idle"
  /\ ~op[o].expired
  /\ Become(o, [op[o] EXCEPT !.expired = TRUE])
  /\ UNCHANGED <<storeVars, holder, worldVars, serviceVars, boundVars>>

-----------------------------------------------------------------------------
(* The specification. *)

Init ==
  /\ state \in [Ring -> {row \in Row :
                  /\ Ref \notin {row.cur, row.prev}
                  /\ row.cur = NoVersion => row.prev = NoVersion
                  /\ row.healthy = (row.cur # NoVersion)}]
  /\ \A r \in Ring \ Configured : state[r].cur = NoVersion
  /\ auto \in [Ring -> BOOLEAN]
  /\ \A r \in Ring : auto[r] => HasNext(r) /\ {r, NextRing(r)} \subseteq Configured
  /\ \A r \in Declared : auto[r] = (r \in DeclaredOn)
  /\ history = <<>>
  /\ journal = {}
  /\ nextId = 1
  /\ holder = NoProc
  /\ live = [r \in Ring |-> state[r].cur]
  /\ orphans = {}
  /\ up \in {{p} : p \in Replicas}
  /\ cfg = [p \in Replicas |-> Configured]
  /\ op = [o \in Procs |-> Idle]
  /\ requests = 0
  /\ crashes = 0

\* A step of operation o.
Step(o) ==
  \/ AcquireLock(o) \/ LockRefused(o)
  \/ BeginSeed(o) \/ BeginPromote(o) \/ SourceUnhealthy(o)
  \/ BeginRollback(o) \/ BeginRestart(o) \/ Refuse(o)
  \/ DeployOk(o) \/ DeployFails(o) \/ RestartPods(o) \/ Persist(o)
  \/ CheckPasses(o) \/ CheckFails(o)
  \/ Save(o) \/ RecordOutcome(o) \/ RecordUnhealthy(o) \/ NothingToRestore(o)
  \/ RollbackDeployOk(o) \/ RollbackDeployFails(o)
  \/ RollbackCheckPasses(o) \/ RollbackCheckFails(o)
  \/ RollbackSave(o) \/ RollbackRecord(o)
  \/ ClearAttempt(o) \/ Chain(o) \/ Finish(o)
  \/ RecoverDropped(o) \/ Recheck(o) \/ Landed(o) \/ GiveUp(o)

Api(o, p, r) ==
  \/ RequestSeed(o, p, r) \/ RequestPromote(o, p, r)
  \/ RequestRollback(o, p, r) \/ RequestRestart(o, p, r)

Next ==
  \/ \E o \in Procs : Step(o) \/ Expire(o)
  \/ \E o \in Procs, p \in Replicas, r \in Ring : Api(o, p, r)
  \/ \E p \in Replicas, r \in Ring, b \in BOOLEAN : SetAutoPromote(p, r, b)
  \/ \E p \in Replicas : Crash(p) \/ Boot(p)
  \/ \E d \in orphans : Land(d)

Spec == Init /\ [][Next]_vars

\* Operations run to their end: every store call, deploy, health check and
\* wait is bounded by a timeout.  A dead replica is restarted (Kubernetes).
Fairness ==
  /\ \A o \in Procs : WF_vars(Step(o))
  /\ \A p \in Replicas : WF_vars(Boot(p))

FairSpec == Spec /\ Fairness

=============================================================================
