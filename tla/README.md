# Ring Promoter: models, checks and proofs

Ring Promoter is a Go control plane that moves application versions through an
ordered list of deployment rings (int, test, acc, prod), with a web console to
drive it. This directory holds TLA+ models of both, the TLC configurations that check it on small
instances, and theorems about it that TLAPS proves for every instance. Paths
below are relative to the repository.

## 1. Inventory

| Component | State it keeps | Operations | Interacts through | Makes it correct |
|---|---|---|---|---|
| Promotion engine (`internal/promoter/promoter.go`) | none of its own: locals of an operation | Seed, Promote (+ auto-promote chain, auto-rollback), Rollback, Restart, SetAutoPromote, ReconcileAutoPromote | store, deployer, health checker, gates | operations on an application are serialised; a hop ships what its source was recorded to run; the row names what the cluster runs; a rollback returns to the version left |
| Journal and recovery (`promoter/recovery.go`) | `pending_op` rows | journalStart, journalEnd, ResumePendingOp | store lock, health checker | an attempt is never lost, never recorded twice, never recorded as a success it was not |
| Store (`internal/store`) | ring state, history, pending ops, logs, test kits, scans, locks | CRUD, `Lock` (Postgres advisory lock, or an in-process one) | used by all | rows commit one by one; the lock dies with its session |
| Deployers (`internal/deployer`, `internal/executor`) | the cluster; external workflow runs and jobs | Deploy, Restart | called by the engine | what an error says about the cluster |
| Health checker (`internal/health`) | none | Check with a wanted version | called by the engine, by recovery | a pass of a verifying ring means the version |
| Pipeline runs (`internal/pipeline`) | runs, stages, items, approvals waiting | Start, Decide, Cancel, the scheduler and one goroutine per stage | engine (through jobs), gates, approvers | no stage before its needs; every run finishes; an accepted decision counts; cancelling starts nothing new |
| Gates (`promoter/gate*.go`, `grafana`, `changerequest`) | 60 s verdict cache | evaluate before a seed or a hop | external services | the gate is judged for what is deployed |
| Jobs (`internal/api/jobs.go`, `diagnose.go`) | newest 200 jobs | create, run detached, report, evict | API and engine | one job per operation; bounded by a timeout |
| Maintenance windows, security policy and waivers, test kits, scores, topology | rows and derived views | CRUD and evaluation | gates, API | mostly pure functions of their inputs |
| Configuration, process (`internal/config`, `cmd/ringpromoter`) | loaded rings and apps | load, reconcile, resume, serve, shut down | everything | the loaded rings are those in force |
| Web console (`src/web`): session, dialogs, board, answers, groups, stage, runs, gates, lights | the browser's store and the query cache | sign in, switch cluster, act, poll, edit | the HTTP API only | what is shown belongs to the cluster, application, ring or run it is shown for; what is sent was meant for it; what ends is noticed |
| HTTP API, progress, metrics, diagnosis text, iOS, manifests | views | decode, render | the above | none that a model checker reaches |

What makes this code hard:

* *Concurrency*: several replicas and many goroutines share rows; one advisory
  lock per application is all that orders them, and `SetAutoPromote` and the
  drop of an unconfigured ring do not take it.
* *Crashes*: the process may die between the journal write, the deploy, the
  state save, the history append and the journal clear, and again in recovery.
  A rolling update starts a recovery of operations that are still running.
* *Unreliable deploys*: an error may come back from a deploy that changed the
  cluster, or that will change it later.
* *Timeouts*: the context of an operation expires anywhere; its store writes
  then fail and are only logged.
* *Pipeline goroutines* race with approvals, cancellation and deadlines, and
  share one wake-up channel of capacity one.
* *A console that polls*: every answer may be old, belong to the page, cluster or run
  shown before, or arrive after a click that assumed it.

`PROJECT.json` lists the individual hazards with their lines.

## 2. Modules

| Module | Models |
|---|---|
| `Rings` | the ordered list of rings |
| `Promoter` | the engine, journal, recovery, the part of the store they use, crashes, restarts, expiry, failing deploys |
| `Ledger` | the abstract contract of the engine: turns, rows, clusters, open attempts |
| `PromoterProperties` | its type invariant, safety and liveness properties, the refinement of `Ledger`, and the inductive strengthening `Accountable` |
| `MCPromoter` | small instances for TLC |
| `PromoterProofs` | `TypeCorrect`, `Serialized`, `AttemptsNeverLost` |
| `StoreProofs` | `ShipsRecordedSource`, `LeftoversMeanCrashes`, `AttemptsRecordedOnce`, `BaselineAlwaysKept`, `StoreIsTrue`, `HistoryIsTrue` |
| `LedgerProofs` | `EngineKeepsTheLedger` |
| `Workflow` | the abstract contract of a pipeline run |
| `Pipeline` | the pipeline manager: runs, schedulers, workers, approvals, cancellation |
| `PipelineProperties` | its properties, the refinement of `Workflow`, and the strengthening `Coherent` |
| `MCPipeline` | small pipelines for TLC |
| `PipelineProofs` | `TypeCorrect`, `RunsCoherent`, `RunsAreWorkflows`, `NoneForgotten`, `VerdictsStand`, `ReusesBacked`, `NoDeciderBlocks`, `SuccessesEarned` |

### Promoter

One application is modelled: applications have disjoint rows and disjoint locks.
An operation is a slot of `op`, a record of the locals of the goroutine with a
program counter; there is one action per store call, deploy call or health
check, so a crash, an expired context, another replica or a late deploy can
fall between any two.

| Code | Model |
|---|---|
| `ring_state` rows | `state`, `auto` |
| `history` rows | `history` (with the id of the attempt each reports, which the code logs only) |
| `pending_op` rows and their serial | `journal`, `nextId` |
| advisory lock `app:<name>` | `holder` |
| the cluster; deploys nobody waits for | `live`, `orphans` |
| replicas and the configuration each loaded | `up`, `cfg` |
| Seed | `RequestSeed AcquireLock BeginSeed DeployOk/DeployFails CheckPasses/CheckFails Save RecordOutcome ClearAttempt Chain Finish` |
| promoteHop | `BeginPromote`, `SourceUnhealthy` or `Refuse`, then `DeployOk Persist CheckPasses ...` or `RecordUnhealthy` and the rollback |
| rollbackTo | `RollbackDeploy* RollbackCheck* RollbackSave RollbackRecord` |
| Restart | `RequestRestart BeginRestart RestartPods CheckPasses/CheckFails ...` |
| ResumePendingOp | `Boot RecoverDropped AcquireLock Recheck Landed/GiveUp Save RecordOutcome ... Finish` |
| operation timeout | `Expire`: later store writes do nothing, `journalEnd` still works (fresh context) |
| shutdown, crash | `Crash`; `main.go` does not drain jobs, so a shutdown is a crash |

Abstractions. All retries of a health check are one step. A pinned ring deploys
its ref; the build behind it is any version. A gate is the refusal it may cause
(`Refuse`). Log tails, progress and metrics are left out. The store is the
Postgres store; its errors are those of an expired context, not of an outage.
A version check that a ring cannot answer (`Verifies`) passes on health alone,
and a ring without `HasURL` always passes. `Removable` rings may be missing from
the configuration of the next start. `DeployFaults` says whether a failing
deploy may have changed the cluster ("partial") or may change it later ("late").

`Ledger` says the same engine's promise without its program: actors take turns; an
attempt is written down with the version to bring and the version to go back to;
only those come to its ring, or into its row, and only in somebody's turn (an
abandoned deploy comes when it likes, but it too was of an attempt written down);
and an attempt is closed only when it is reported, whoever dies in between.
`PromoterProperties!ImplementsLedger` is the refinement, under the mapping

| `Ledger` | `Promoter` |
|---|---|
| `turn` | `holder` |
| `row`, `cluster` | the versions in `state`; `live` |
| `open` | the `journal` rows: id, ring and the two versions |
| `reported` | the ids in `history`, but for 0 (attempts without a deploy) |
| `issued`, `adrift` | `nextId - 1`; `orphans` |
| `Take`, `Write`, `Close` | `AcquireLock`; `Begin*`; `ClearAttempt`, `Finish` |
| `Ship`, `Abandon`, `Land` | `DeployOk`, `RollbackDeployOk` and the deploys that fail after they took effect; those whose end nobody saw; `Land` |
| `Record`, `Report` | `Persist`, `Save`, `NothingToRestore`, `RollbackSave`; `Record*`, `RollbackRecord` |
| `Die` | `Crash` of the replica whose operation holds the lock |

The other steps (checks, requests, chaining, a restart of pods, start-up, switches)
are not visible in it. What a ring with a ref runs is its pipeline's choice (`Loose`).

### Workflow and Pipeline

`Workflow` is the abstract contract of one pipeline run: a status for each stage,
a cancelled flag and a phase. It says when a stage may start, be skipped, end or
be cancelled, and that the run ends when every stage has. `Pipeline` models what
`internal/pipeline/pipeline.go` does about it: the runs of one configured
pipeline, each with a scheduler goroutine, a worker goroutine per started stage,
and whoever starts, decides or cancels over the API. A step is one critical
section under the run's mutex, or one operation on a channel, timer or context.
`PipelineProperties!ImplementsWorkflow` is the refinement: every run, under the
mapping `status <- stage[r]`, `cancelled <- cancelled[r]`, `phase <- PhaseOf(r)`.

| Code | Model |
|---|---|
| `Manager.Start` up to the publication of the run; storing `cancel` and `go schedule` | `Start(src)`; `Launch` |
| one pass of `schedule` under the lock, `<-r.wake`, `wg.Wait` and the deferred cancel | `Scan` (`Pass`, `Skips`), `Awake`, `Drained` |
| `nudge` and its channel of one token | `Nudge`, `wake` |
| `runDeploy`: start a job, a job ends, the verdict | `DeployApp`, `DeployEnds`, `DeployDone` |
| `runGate`: one application's verdict, the end of a poll, the poll timer | `PollApp`, `GateNoGo` / `GateGo` / `GateWaits`, `PollAgain` |
| `runApproval`: offer the channel; its `select`; `forget` | `Offer`; `DecisionTaken`, `Stopping`, `Expiring`; `Withdraw` |
| deadline timers | `Deadline`, `due` |
| `finish`, then the nudge of `update` | `Finish`, `Report` |
| `Decide` under the lock; its audit entry and send | `Decide`, `audit`, `deciders`; `Deliver`, `box` |
| `Cancel` under the lock; `r.cancel()`; the nudge | `Cancel`; `CancelContext`; `CancelNudge` |
| the newest 100 runs the manager keeps, live or not | `Listed`, `Retain` |
| `statusLocked` | `RunStatus` |

Abstractions. A deploy is its job reduced to an outcome (the engine is modelled
on its own); a gate's verdict is any verdict, at every poll. Every `update` nudges;
where the update is followed by another step of the same worker, both are one
step, and only the nudge after a worker's last update stands alone (`Report`).
Request validation, messages, progress and timestamps are left out. `Decide` and
`Cancel` may be called at any moment, by any number of people; a decider is
identified by its run, stage and decision, so at most one of each kind is on its
way at once for a stage.

Behaviour of the code that is kept, and worth knowing: a deploy
stage goes on starting its applications after `Cancel`; a gate in the middle of
a poll may still end in success after it; the items of a cancelled stage stay
`queued`; a `Cancel` that arrives between the publication of a run and the
storing of its cancel function panics in the handler after the flag is set, and
the scheduler then cancels the run on its first pass.

### The web console

The console (`src/web`) is a single page over the API. Nothing pushes to it: it
polls, keeps what it read, and sends what the operator clicks. Each of its modules
models one behaviour together with the part of the server it talks to. A call is
a step when it is sent, one when the server serves it (where its moment matters)
and one when the answer is used, so that answers overtake each other and find a
page, a dialog, a token or a cluster that is not the one that asked.

| Module | Models | Its state in the code |
|---|---|---|
| `Fleet` | constants: sites, applications, "no page" | |
| `Session` | clusters, tokens, the gate, the 401, cached answers | `useAuthStore`, the query cache, `requests` in flight |
| `Desk` | pending actions and their dialogs | `useUiStore`, dialog fields, mutation callbacks |
| `Answers` | diagnoses and test plans | the server's trackers, the panel's query |
| `Board` | rings, jobs, cards and the auto-promote switch | job list, `seenRunning`, `handledJobs`, the rings' queries |
| `Groups` | groups, the migration of old ones, their place on the stage | stored groups, group queries, the dialog's draft |
| `Spoke` | what an application's spoke shows | rings, as read one by one |
| `Stage` | dependencies between applications | declared, added and suppressed edges; what is drawn and held |
| `RunDesk` | pipeline runs on screen | run list, run queries, the run picked |
| `Gates` | the gates of a seed or promotion, in the dialog, on the server and on the ring an auto-promotion goes on into | policy, window, sign-offs, verdict, metrics, findings; three polls; the operation and its inputs |
| `Flow` | the graphs of pipelines, as the server tells them, and of CI jobs, inferred from stamps | stages and jobs with their statuses and stamps |
| `Strip` | the QA agent's reports and strips | `qa_report` rows, `useQAStatus` |
| `Lights` | the lights, dots, badges and counts of the pages | the rings' and jobs' queries |
| `Console` | the parts side by side | |
| `MCConsole` | small instances for TLC | |
| `SessionProofs`, `DeskProofs`, `StageProofs`, `ConsoleProofs` | theorems (section 4) | |

`Console` has a variable `scene` that is chosen at first and never changes: in a
scene one part moves and the others rest in their initial states. The parts share
no variable, so an interleaving of two of them is, for the properties of each,
one of each alone; a product would multiply the states and show nothing more.
`Lights` extends `Strip`, since the same pages show both.

History variables (`strayed`, `misled`, `slips`, `strays`, `moved`, `restarts`)
say which of the code's known weaknesses a behaviour met; a property that does
not hold after one of them says so in its hypothesis, and the comment above it
names the weakness. Faults that the mutations of `PROJECT.json` put in are the
definitions marked `fault`.

Abstractions. A version, a token and an address are model values; times are
small numbers in `Flow` and an order elsewhere. React renders as soon as state
changes, so an effect is part of the step that triggers it. Requests of one query
are never doubled, which is what the query library does. Toasts, wording, layout,
geometry and animation are left out.

`Gates`: a code that is given is a valid one, for the ring and for the next; whether a
code exists is what its gate asks here. Which metric and replica gates would refuse is
`failing`, and those have no row in the dialog. Of the ring an auto-promotion goes on
into only the gates are followed that read what the request carries, its window,
sign-off, scan, metrics and replicas being free to refuse (`EnterNextRing`). A chain goes
on for one ring, one operation runs at a time, and one confirmation and one write are
in flight. `Flow`: a pipeline's stages move as the `Pipeline` module's do, reduced to what
they become, those of a rerun starting as reused; a job's release goes through its gates
one after the other. A run has at least one job.

What the console's properties do not cover, with the code's behaviour:

* `TokensProven`: when the operator switches cluster, signs out or saves another while
  a token is being checked, the gate saves the token for the cluster that is active
  by then (`token-gate.tsx`), which may never have accepted it; then the property
  says only that some server did. `SessionIsOfOneCluster` exempts the cached answers of a
  dialog that was overtaken likewise.
* `CodesFitThePromotion` is about what is sent. A call's callback closes whichever
  dialog is open by then, which is in the model; the address of the active cluster
  edited under an open dialog (`clusters.tsx:244-251`) is not.
* `WatchedToTheEnd` names what makes a panel stop without an answer (`Excuses`), and that
  the server's two reads of one status may come apart, after which the answer is
  stored but not shown until the panel is opened again.
* `MigratedOnce`: a switch of cluster in the middle of the migration sends the rest
  of the groups to the other cluster, against `app-shell.tsx:138`.
* `SpokeTellsTheTruth`: after a rollback, or a seed into a later ring, the outermost
  version is taken for the newest (`descent-layout.ts`) and the trail may have rings
  that hold another; the drawing, the card and the count still agree with each other.
* `EndedRunsAreFinal` is about one life of the server; across lives see `runids`.
* `LastWordCounts` exempts an edge whose own declaration changed: a removal then only
  takes back the operator's own edge and leaves the declared one, and an addition does
  not lift a suppression from before (`topology.go:78-125`).
* `GreenRowsHold`: a metric or replica gate may refuse a green dialog, and a ring that
  pins a ref is judged by the ref (`promoter.go:409-416`) while the rows are about the
  version picked.
* `NoSilentOverrides` says that a no-go was on screen, not that it was the one
  overruled: the reason given for one ring goes along to the next (run `hops`).

## 3. Runs

All runs use two versions. `InServiceInit` starts with ring 1 on `v1` (before it
`v2`) and ring 2 on `v2`, so that a promotion replaces something and a rollback
has somewhere to go. Slots are symmetric where only safety is checked.
`CHECK_DEADLOCK FALSE` everywhere: requests are bounded, the system then rests.

| Run | Bounds | Shows |
|---|---|---|
| engine | 3 rings, ring 3 pinned, chaining on rings 1 and 2, 2 requests, 1 replica | the stored version is the live one between operations, chains ship recorded healthy versions, rollback baselines |
| recovery | 2 verifying rings, 2 requests, 2 replicas, 1 crash | no attempt is lost or recorded twice, a row without an operation means a crash, no false success, operations are serialised and the lock dies with its holder; the engine is a `Ledger` |
| liveness | 1 request, 2 crashes, 2 replicas; partial and late deploys, deploys outliving a crash | the engine is a `Ledger`, and every journaled attempt reaches history and its row is cleared |
| ending | expiry, a crash, a removable ring, a ring with a declared switch | types, and every operation ends |
| expiry, partial | 1 request | disagreements with the documentation (section 5) |
| pipeline | a diamond of 4 stages listed against its needs (two deploys, a gate, an approval), 2 applications, 1 run, 1 cancel | the run is a `Workflow`, loses no wake-up, finishes; decisions and successes are sound |
| rerun | 2 deploys in a row, 2 runs of which 1 is kept, 1 cancel each | a rerun of a live run reuses only what succeeded; a verdict stands |
| lateness | a deploy and an approval, 1 run, 2 cancels | a disagreement with a comment (section 5) |
| console | every part: 2 applications, 2 sites or clusters, 2 tokens, 2 requests in flight, 3 to 6 clicks or events (a constant for each part) | the nineteen properties of the console |
| hops | the gates alone, with the bounds of run console | a disagreement with README.md (section 5) |
| runids | 2 runs, 2 lives of the server, 3 clicks | a disagreement with a comment (section 5) |

The bounds are enough for the questions: the engine's control depends on a ring,
its neighbour and its rows only; two requests give every pair of interleaved
operations and every operation on the state another left (failed, rolled back,
interrupted); one crash reaches every point of an operation and, with the
liveness run's second one, of a recovery. Verified and unverified rings, a
pinned ring, an unconfigured ring and one with a declared switch all occur.

For pipelines, `MaxRuns`, `MaxCancels` and `Retain` are the bounds. Runs share
nothing but reuse and eviction, which two runs with room for one show; one cancel
reaches every state of a run, and a second finds the flag set and the context
done. The diamond is listed from
its last stage to its first because a pass looks at stages in the order of the
configuration: a skip then takes several passes, each of which must be woken.

For the console, `MaxRequests` and `MaxPosts` are two, so that answers can come in
either order; `MaxActs`, `MaxGestures`, `MaxEdits`, `MaxStrokes`, `MaxClicks`, `MaxMoves`,
`MaxSteps`, `MaxTurns`, `MaxEvents`, `MaxNews` bound what operators and servers do:
three to six moves are enough to ask, leave, come back and have the answer
arrive. `MaxJobs` is a job and the one that supersedes it, before and after a restart.
`MaxLives` is the one restart that makes ids start again. `Depth` is three
rings: a first, a last and one between. Applications start with no light or with every
light, and the cluster, application or version a part starts on is one fixed value
where it treats all alike. `Shapes` are runs of up to three jobs, in a row, fanned out
and fanned in, over a clock of three ticks, which is what an inferred graph can get
wrong. Every mutation listed in `PROJECT.json` is caught inside these bounds.

Fairness. Every step of an operation is weakly fair: each store call, deploy,
health check and wait in the code is bounded by a timeout and returns. A dead
replica is started again (`Boot`), which the Kubernetes deployment does. Nothing
is assumed of requests, crashes, expiry or late deploys. The lock is granted
fairly enough because the number of competing operations is finite.

In a pipeline, goroutines run and timers fire (`Fairness`): a deploy's job ends by
its timeout, every deadline timer fires. Nothing is assumed of `Start`, `Decide`,
`Deliver` or `Cancel`: `RunsFinish` holds though nobody ever approves.

In the console on screen, polls fire, calls end, and calls that are refused again and
again are not all lost on their way back (`SessionFairness`): `useApps` polls whatever
the preferences say, and a browser gives up a call nobody answers. Nothing is assumed
of the operator. The acts are bounded, hence a token the server does not accept is
refused at last (`RefusedTokenReachesGate`).

## 4. Proofs

`PromoterProofs` proves, from the named assumptions on the constants only,
`TypeCorrect` (`Spec => []TypeOK`) and `Serialized` (`Spec =>
[]OperationsSerialized`). The second needs the first and one idea: the steps are
split (`Moves`, `StepInside`) into those that take the lock, those that stay
inside and those that leave, and a crash frees the lock exactly when its holder
dies.

It also proves `AttemptsNeverLost`: `Spec => []NoSilentLoss` when
contexts do not expire and no ring leaves the configuration. `NoSilentLoss` is
not inductive: whoever clears a row must have recorded it. `Answerable(o)` says
so for each operation (`resave` and `clear` come after a record; a recovery is
still resolving, about to record, or has recorded), `RowsKnown` that a row's id
was handed out and its ring is configured (so that no recovery is dropped), and
`Accountable` is their conjunction. TLC checked it as an invariant before it was
proved. The two hypotheses are needed: the run `expiry` violates `NoSilentLoss`
without the first, and a recovery whose ring has left the configuration deletes its
row without reporting it (`RecoverDropped`, `recovery.go:84-90`), which violates it
without the second.

`StoreProofs` proves the engine's other safety properties. Only the operation
inside the lock writes the store, so `Acts` reduces a step, for an operation that is
inside after it, to three: it took the lock, it made a step, or it stood aside
while others did. The invariants then speak of one operation at a time, point by
point of its program:

* `Shaped` (which kinds reach which point) and `Numbered` (ids were handed out)
  serve all of them. `Proven` gives `ShipsRecordedSource`, with no assumption.
* `Owned` (until a crash a row is the lock holder's attempt), hence `Redundant` (a
  recovery then finds its row gone), and `Unrecorded` give `LeftoversMeanCrashes`
  and `AttemptsRecordedOnce`, without an assumption besides the one in the properties.
* `Informed` (the operation's locals still describe the row it will write) gives
  `BaselineAlwaysKept` when nothing crashes. The assumption is needed: a recovery
  writes the baseline its attempt began with, although another replica may have
  changed the ring since (`recovery.go:143`); TLC finds that with one crash.
* `InStep` gives `StoreIsTrue` under `NoFaults`. A partial deploy breaks it (the run
  `partial`), and so do a late one, an expired save and a crash.
* `Truthful` gives `HistoryIsTrue` through any number of crashes: a ring is
  `Settled` (a recorded success agrees with cluster and store), or some journal
  row that nobody is about to clear has it open, or the operation inside has it
  in hand with its row in the journal. Partial deploys are covered, since they
  are recorded as failures. It assumes that contexts do not expire, no ring
  leaves the configuration and no deploy lands late, behind the service's back:
  each of these lets a row go before the cluster has settled. `MaxExists`, which
  the last entry of a ring needs, comes from the well-foundedness of `<`.

`LedgerProofs` proves `EngineKeepsTheLedger` (`Spec => ImplementsLedger`) with any
number of crashes, partial deploys and deploys that land late, in an operation's life
or after it, under the two hypotheses of `AttemptsNeverLost`. Each step is matched
with the ledger's (`Ships`, `SavesVersions`, `Closes` and so on); what that needs to
know is `LedgerInv`: from its beginning until it is cleared the attempt an operation
works on has its row, which names the ring and the two versions the operation will
ever bring there (`Noted`), a recovery's included, and ids tell rows apart
(`RowsApart`). A restart has no row, and must be shown to write the versions it read.
The hypotheses are needed: an expired operation deploys and saves without a row
(`journalStart` then fails and is only logged), and a dropped ring's row is
closed without a report.

`PipelineProofs` proves, for every acyclic pipeline, number of runs and retention,
`TypeCorrect` and `RunsAreWorkflows` (`Spec => ImplementsWorkflow`). The
refinement rests on `Coherent`: per run, what its flags, its scheduler
(`SchedulerFits`), its workers (`WorkerFits`) and its stages' needs (`NeedsHeld`)
have to do with each other. TLC checked it before it was proved. A step of one
run leaves the others alone (`StillFits`), a worker's step moves one stage
(`OneStageFits`), a pass moves many (`PassesFits`), a start copies successes
together with what they need (`StartFits`). That a pass which ends a run leaves
nothing queued needs the acyclicity that `validatePipelines` enforces
(`AcyclicAssumption`).

It also proves `NoneForgotten` (`[]NoStageForgotten`, which is inductive on its
own: whoever moves a stage leaves a token or is about to), `VerdictsStand` (a
corollary of the refinement: a finished workflow has no step) and `ReusesBacked`.

And it proves `NoDeciderBlocks` and `SuccessesEarned` from one invariant,
`AllInOrder`: a decision is on offer, on a decider's desk, in the channel or
taken, in one place at most, and the audit ledger names it; and while a gate
polls, whatever it has read is decided or waiting.

The console's proofs hold for every value of the constants, the bounds on requests,
clicks and events included; a component's invariant is listed with what its property
lacks to be inductive. TLC checked `BoardInv`, the largest, before it was proved.

| Module | Component | Theorems | Invariant, and what it adds |
|---|---|---|---|
| `SessionProofs` | `Session` | `SessionTypeCorrect`, `SessionIsOfOneClusterAlways` | `SessionInv`: a query in flight, still wanted, was sent to the active cluster's address, which is why `switchCluster` cancels the queries before it clears the cache |
| | | `TokensAreProven` | `TokensAccepted`, which is inductive: a saved token was accepted by some server. `TokensFit`, while nothing strayed: the gate asks the active cluster's address, and a dialog left blank asks about the token its cluster has |
| `DeskProofs` | `Desk` | `DeskTypeCorrect`, `CodesFitAlways` | `DeskInv`: what is typed was typed for an action that is still shown (`TypedFits`); page changes, switches and callbacks mount the dialog anew or leave it alone |
| | `RunDesk` | `RunDeskTypeCorrect`, `EndedRunsStayFinal` | `RunDeskInv`: answers on their way are faithful to a server that only goes on or starts over (`GoesOn`) |
| | `Gates` | `GatesTypeCorrect`, `GreenRowsAlwaysHold`, `OverridesNeverSilent` | `GatesInv`: a request, in flight or carried by an operation, has a reason exactly when a no-go was on screen as it was confirmed; what a green checklist promises follows from the types, gate by gate |
| | `Answers` | `AnswersTypeCorrect`, `WatchedToTheEndAlways` | `AnswersInv`: what is stored stays stored for those who read it earlier, and a question that was served has set the server to work |
| | `Board` | `BoardTypeCorrect`, `WatchedJobsReported`, `QuietBoardTrue` | `BoardInv`: a job over stays over (`IsOver`), what is seen, handled and announced belongs together (`SeenFits`), and cached rings are true or will be read again (`RingsFit`) |
| `StageProofs` | `Stage` | `StageTypeCorrect`, `LastWordAlways` | `Apart`: added and suppressed edges are apart, so that the last call on an edge decides |
| | `Groups` | `GroupsMigratedOnce` | `MigrationInv`: one loop at a time (`OneLoop`); each group counted for the loops that got past it (`MadeInLoops`) |
| | | `GroupsTypeCorrect`, `GroupsAlwaysStandTogether` | `ListsInv`: the ids of a list differ, and each was handed out (`WellListed`); what `orderByGroup` has placed stays placed, and a group is added at the end in one piece (`PlacedAdds`) |
| | `Spoke` | `SpokeTypeCorrect`, `SpokeAlwaysTrue` | `FrontierHolds` for every answer: the frontier is the innermost ring with the version of the outermost; `SpokeInv`, while nothing strayed: versions fall from the first ring to the last, in what is held, in the answer under way and in the cached one (`StraightRings`) |
| | `Lights`, `Strip` | `LightsTypeCorrect`, `StripTypeCorrect`, `PagesAlwaysAgree` | the types suffice; lemmas say what each page's own code computes of the same rows |
| `ConsoleProofs` | `Flow` | `FlowTypeCorrect`, `GraphsAlwaysHoldTogether` | the types suffice: a graph stays open as nodes are added (`OpenGraph`), its nodes ranked so that needs come first, and the longest paths rise with the ranks (`ColumnsRise`) |
| | | `InferredGraphAlwaysReal`, `EdgesAlwaysTellTheRun` | `ChartInv`: of a pipeline, a stage that began had all it needed (`StageWell`); of a deployment `RunInv`, the stamps are in order (`JobWell`), and while nothing strayed jobs of the same needs begin together and outlast the slack (`Undisturbed`) |
| | `Console` | `ConsoleIsItsParts`, `ConsoleKeepsItsWord`, `ConsoleTypesKept` | a scene is a step of one part and a stutter of the others (`ScenesAreSteps`) |

`ConsoleIsItsParts` (`ConsoleSpec` implies every part's specification) carries the
parts' theorems over to the specification the run checks: `ConsoleKeepsItsWord` is
`ConsoleSpec => []ConsoleSafe`, all seventeen of the run's safety properties in one
formula, and `ConsoleTypesKept` adds the types.

Of the constants the proofs assume what each module's assumption states: counters
are natural numbers, "none" is not a value, an application's rings are
finitely many, a cluster is configured with finitely many applications, a CI run has
jobs, each of which needs earlier ones, and there is an application (`config.go:750`
refuses a configuration without one).

`Groups` and `Flow` compute: folds over lists and over sets of jobs, and a walk along
the edges of a graph, written as a recursive function. What they return is proved by
induction, on the length of a list, the number of elements or the rank of a node. The
library's induction theorems take an operator, which no prover here can be given, so
the induction is about a set of numbers (`UpTo`, from `LeastExists` and the
well-foundedness of `<`); `FoldExists` and `FoldSteps` unroll a fold, `VisitExists` the
walk. `InferredGraphAlwaysReal` then reads the run off its stamps: in a line each job
comes before all later ones (`LineInferred`); of any two jobs of a layered run either
both are of one layer, or one had ended before the other's needs began (`AllApart`).

Only model-checked: liveness (`AttemptsAreLogged`, `OperationsEnd`, `RunsFinish`,
`RefusedTokenReachesGate`): TLAPS 1.4.5 does not reason about fairness and ENABLED. Every other property of the
passing runs is stated by a theorem, under the hypotheses named above where there are any.

## 5. Where code and documentation differ

* `expiry`: README.md:66 says every operation is written to history. After the
  operation timeout `record` fails and is logged only, while `journalEnd` uses a
  fresh context and clears the row (`promoter.go:1177`, `recovery.go:55`).
* Not a run of its own, but in the model (`RecoverDropped`): `recovery.go:15` says an
  operation is visible in history either way. A row whose ring is no longer configured is deleted without one
  (`recovery.go:84-90`).
* `partial`: `promoter.go:494` says of a failed deploy that it never happened.
  `kubectl set image` may have succeeded and only the rollout status failed.
* `lateness`: `pipeline.go:788` says that a late decision is refused. `Decide` takes
  the channel off offer and unlocks before it writes the audit entry and sends
  (`pipeline.go:370-381`), while `runApproval` may by then have chosen its deadline or
  its cancelled context (`pipeline.go:779-785`): the approval is answered and audited,
  and the stage fails or is cancelled all the same.

Not a run of its own: README.md:207 says the state is stored as soon as a deploy
lands. `promoteHop` does so; Seed and rollbackTo store it after the health check.

* `hops`: README.md:464-467 says that an auto-promotion into a ring with a
  change-request gate fails closed, and into one with a Grafana no-go stops, since
  nobody gives a code or a reason for it; `promoter.go:710-712` says that a hop carries
  no code. The inputs of the request stay in its operation's context, which
  `autoChain` hands on to every hop (`promoter.go:644`, 713, as `gates.go:54-56` has
  it): a code or a reason given for the first ring lets the operation into the next.
* `runids`: `queries.ts:734-735` says that the run list and the graph move together.
  `usePipelineRun` (`queries.ts:745-754`) keeps a run by its id and does not read it
  again once it is over, and ids start again with the server (`pipeline.go:254-255`):
  a new run-1 is listed as running while graph, buttons and evidence show the old
  one. `jobKey` (`queries.ts:193-194`) guards job cards against the same.

Read while modelling the console, without a run of their own:

* `controls-panel.tsx:36-58`: a hop's card is keyed by its rings only and the
  dashboard has no key, so the briefing of one application stays, or arrives, under
  the same hop of the next one.
* `app-health.ts:4-5` says the member list and the node card can never disagree.
  They count alike (`PagesAgree`), but while rings are not read yet the card says
  "nothing deployed" (`group-ring.tsx:653`) and the list "checking…".
* An application that fails and deploys counts as deploying on every page.
* `flow-layout.ts:249-256` says the inference is exact for linear and fan-out/fan-in
  shapes and leaves no finished job dangling; it is not when a runner queues a job
  for longer than the slack, or a job is shorter than it. `InferredGraphIsReal`
  has both as hypotheses.
* `edgeState` (`flow-layout.ts:157-164`): "done" is said (`flow-layout.ts:88-92`) to
  mean that both ends finished successfully; an edge into a failed job is "done" too.
  "Blocked" is drawn into every skipped or cancelled job, also from a job that had
  succeeded. `EdgesTellTheRun` claims of a failed job only what the code and its comment
  share: that no edge into it is blocked or idle.
* `group-dialog.tsx:63` says that groups live in this browser only; they are stored
  by the server (`queries.ts:373-388`).

## 6. Not modelled

Not modelled, with the reason:

* HTTP decoding and routing, progress, metrics, tracing, audit listings: pure input
  and output, and nothing reads them back.
* Parsing and arithmetic over data: SARIF, configuration files, dates of
  maintenance windows, promotion scores, geometry of the stage and the graphs.
  A unit test reaches these as well as a model checker does.
* Dispatch and polling inside the external executors: `Promoter` takes every
  outcome they can have, late and lost ones included; `Flow` takes the stamps.
* The pool of database connections and database outages, below the store interface.
* The composition of `Gates` with `Promoter`: a gate is a refusal there, and what it
  refuses is in `Gates`, for a ring and the one after it; there an operation is only
  what it takes along from gate to gate.
* The iOS client (the same API again), the landing page, the manifests.
