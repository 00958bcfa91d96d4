------------------------------ MODULE Pipeline ------------------------------
(***************************************************************************)
(* Multi-app release pipelines (internal/pipeline): the manager's runs of  *)
(* one configured pipeline.  Every run has a scheduler goroutine, one      *)
(* goroutine (worker) per stage it started, and whoever approves, rejects  *)
(* or cancels over the API.  A step is one critical section under the      *)
(* run's mutex, or one operation on a channel, timer or context.           *)
(*                                                                         *)
(* Stages are numbered in the order of the configuration, which is the     *)
(* order in which the scheduler looks at them; applications likewise.      *)
(***************************************************************************)
EXTENDS Integers, FiniteSets

CONSTANTS
  NumStages,     \* stages of the pipeline
  Type,          \* Type[s]: "deploy", "gate" or "approval"
  Needs,         \* Needs[s]: the stages s needs
  Apps,          \* Apps[s]: the applications the configuration gives s
  App,           \* all applications
  MaxRuns,       \* bound: runs started
  MaxCancels,    \* bound: calls of Cancel for each run
  Retain         \* runs the manager keeps (100 in the code)

Stage == 1 .. NumStages
RunId == 1 .. MaxRuns

ASSUME PipelineAssumption ==
  /\ NumStages \in Nat \ {0}
  /\ Type \in [Stage -> {"deploy", "gate", "approval"}]
  /\ Needs \in [Stage -> SUBSET Stage]
  /\ Apps \in [Stage -> SUBSET App]
  /\ App \subseteq Nat
  /\ IsFiniteSet(App)
ASSUME BoundAssumption ==
  MaxRuns \in Nat /\ MaxCancels \in Nat /\ Retain \in Nat \ {0}
\* validatePipelines: the needs have no cycle, so every set of stages has one
\* that needs none of the others.
ASSUME AcyclicAssumption ==
  \A Q \in SUBSET Stage : Q # {} => \E s \in Q : Needs[s] \cap Q = {}

VARIABLES
  started,       \* runs started so far; the newest has this id
  source,        \* RerunOf: the run whose successes a run reuses (0: none)
  stage,         \* the status of each stage
  item,          \* the status of each application in each stage
  cancelled,     \* the run's cancelled flag
  finished,      \* has FinishedAt been set?
  stopped,       \* is the run's context cancelled?
  wake,          \* is there a token in the scheduler's wake channel?
  scheduler,     \* the scheduler goroutine
  worker,        \* the goroutine of each stage
  unpolled,      \* applications a gate has yet to check in this poll
  due,           \* stages whose deadline timer has fired
  decisions,     \* approval stages with a decision channel on offer
  box,           \* the decision in each stage's channel
  deciders,      \* calls of Decide that were accepted, about to send
  canceller,     \* a call of Cancel in progress
  audit,         \* approvals and rejections in the audit ledger
  cancels        \* bound

stageVars == <<stage, item>>
flagVars == <<cancelled, finished, stopped>>
workVars == <<worker, unpolled, due>>
decideVars == <<decisions, box, deciders, audit>>
cancelVars == <<canceller, cancels>>
startVars == <<started, source>>
vars == <<startVars, stageVars, flagVars, wake, scheduler, workVars,
          decideVars, cancelVars>>

Good == {"success", "reused"}
Bad == {"failed", "skipped", "cancelled"}
Active == {"running", "waiting"}
Terminal == Good \cup Bad
Status == Terminal \cup Active \cup {"queued"}
Decision == {"approve", "reject"}

\* A gate without applications checks those its direct needs deploy.
StageApps(s) ==
  IF Type[s] = "gate" /\ Apps[s] = {}
  THEN UNION {Apps[n] : n \in {m \in Needs[s] : Type[m] = "deploy"}}
  ELSE Apps[s]

\* The manager still knows the newest runs, the unfinished ones included.
Listed(r) == r <= started /\ r > started - Retain

-----------------------------------------------------------------------------
(* Starting a run. *)

\* fault: stages that are still running there are reused as well
ReusableUnlessBad(status) == status \notin Bad \cup {"queued"}
Reusable(status) == status \in Good

\* Start, up to the publication of the run; src is the run it reruns, or 0.
Start(src) ==
  LET r == started + 1
      reused == IF src = 0 THEN {}
                ELSE {s \in Stage : Reusable(stage[src][s])}
  IN /\ r \in RunId
     /\ src # 0 => Listed(src)
     /\ started' = r
     /\ source' = [source EXCEPT ![r] = src]
     /\ stage' = [stage EXCEPT ![r] =
          [s \in Stage |-> IF s \in reused THEN "reused" ELSE "queued"]]
     /\ item' = [item EXCEPT ![r] =
          [s \in Stage |-> [a \in App |->
             IF s \in reused /\ a \in StageApps(s) THEN "reused" ELSE "queued"]]]
     /\ scheduler' = [scheduler EXCEPT ![r] = "published"]
     /\ UNCHANGED <<flagVars, wake, workVars, decideVars, cancelVars>>

\* ... and from there: the cancel function is stored, the scheduler started.
Launch(r) ==
  /\ scheduler[r] = "published"
  /\ scheduler' = [scheduler EXCEPT ![r] = "scan"]
  /\ UNCHANGED <<startVars, stageVars, flagVars, wake, workVars, decideVars,
                 cancelVars>>

-----------------------------------------------------------------------------
(* The scheduler. *)

Queued(r) == {s \in Stage : stage[r][s] = "queued"}

\* The queued stages one pass skips: those behind a stage that did not
\* succeed, or that this pass has skipped before it came to them.
Skips(r, S) ==
  S = {s \in Queued(r) : \E n \in Needs[s] :
         stage[r][n] \in Bad \/ (n \in S /\ n < s)}

ReadyAnyNeed(r, s) ==   \* fault: one need is enough
  Needs[s] # {} => \E n \in Needs[s] : stage[r][n] \in Good
Ready(r, s) == \A n \in Needs[s] : stage[r][n] \in Good

\* A newly skipped stage can unblock-to-skip its dependents: look again.
WakeAfter(r, S) == wake[r] \/ S # {}

FirstStep(s) ==
  CASE Type[s] = "deploy" -> "deploy"
    [] Type[s] = "gate" -> "poll"
    [] Type[s] = "approval" -> "begin"

\* One pass of schedule's loop, under the lock: skip, start, or finish.
Pass(r, gone, S) ==
  LET go == {s \in Queued(r) \ (S \cup gone) : Ready(r, s)}
      next == [s \in Stage |->
                 CASE s \in gone -> "cancelled"
                   [] s \in S -> "skipped"
                   [] s \in go -> "running"
                   [] OTHER -> stage[r][s]]
      over == /\ \A s \in Stage : next[s] \notin Active
              /\ ~WakeAfter(r, S)
  IN /\ stage' = [stage EXCEPT ![r] = next]
     /\ item' = [item EXCEPT ![r] = [s \in Stage |->
          IF s \in S THEN [a \in App |-> "skipped"] ELSE item[r][s]]]
     /\ wake' = [wake EXCEPT ![r] = WakeAfter(r, S)]
     /\ worker' = [worker EXCEPT ![r] = [s \in Stage |->
          IF s \in go THEN FirstStep(s) ELSE worker[r][s]]]
     /\ unpolled' = [unpolled EXCEPT ![r] = [s \in Stage |->
          IF s \in go THEN StageApps(s) ELSE unpolled[r][s]]]
     /\ finished' = [finished EXCEPT ![r] = over]
     /\ scheduler' = [scheduler EXCEPT ![r] = IF over THEN "drain" ELSE "idle"]

Scan(r) ==
  /\ scheduler[r] = "scan"
  /\ \/ cancelled[r] /\ Pass(r, Queued(r), {})
     \/ ~cancelled[r] /\ \E S \in SUBSET Queued(r) : Skips(r, S) /\ Pass(r, {}, S)
  /\ UNCHANGED <<startVars, cancelled, stopped, due, decideVars, cancelVars>>

\* <-r.wake
Awake(r) ==
  /\ scheduler[r] = "idle"
  /\ wake[r]
  /\ wake' = [wake EXCEPT ![r] = FALSE]
  /\ scheduler' = [scheduler EXCEPT ![r] = "scan"]
  /\ UNCHANGED <<startVars, stageVars, flagVars, workVars, decideVars, cancelVars>>

\* wg.Wait, then the deferred cancel.
Drained(r) ==
  /\ scheduler[r] = "drain"
  /\ \A s \in Stage : worker[r][s] \in {"none", "done"}
  /\ stopped' = [stopped EXCEPT ![r] = TRUE]
  /\ scheduler' = [scheduler EXCEPT ![r] = "done"]
  /\ UNCHANGED <<startVars, stageVars, cancelled, finished, wake, workVars,
                 decideVars, cancelVars>>

-----------------------------------------------------------------------------
(* Workers.  Every update of a stage is followed by a nudge; only the one  *)
(* after the last update is a step of its own.                             *)

Nudge(r) == wake' = [wake EXCEPT ![r] = TRUE]
SetItem(r, s, a, status) == item' = [item EXCEPT ![r][s][a] = status]
SetStage(r, s, status) == stage' = [stage EXCEPT ![r][s] = status]
Continue(r, s, pc) == worker' = [worker EXCEPT ![r][s] = pc]
Items(r, s) == {item[r][s][a] : a \in StageApps(s)}

\* finish, up to the nudge.
Finish(r, s, status) == SetStage(r, s, status) /\ Continue(r, s, "nudge")

NudgedUnbuffered(r) ==   \* fault: no room for the token until r.wake is read
  Nudge(r) \/ (scheduler[r] = "idle" /\ wake' = wake)
Nudged(r) == Nudge(r)

Report(r, s) ==
  /\ worker[r][s] = "nudge"
  /\ Nudged(r)
  /\ Continue(r, s, "done")
  /\ UNCHANGED <<startVars, stageVars, flagVars, scheduler, unpolled, due,
                 decideVars, cancelVars>>

\* runDeploy: the applications' jobs are started one after the other ...
DeployApp(r, s) ==
  /\ worker[r][s] = "deploy"
  /\ \E a \in StageApps(s) :
       /\ item[r][s][a] = "queued"
       /\ \A b \in StageApps(s) : b < a => item[r][s][b] # "queued"
       /\ \E status \in {"running", "failed"} : SetItem(r, s, a, status)
  /\ Nudge(r)
  /\ UNCHANGED <<startVars, stage, flagVars, scheduler, workVars, decideVars,
                 cancelVars>>

\* ... and end in any order, whether or not the run was cancelled.
DeployEnds(r, s) ==
  /\ worker[r][s] = "deploy"
  /\ \E a \in StageApps(s) :
       /\ item[r][s][a] = "running"
       /\ \E status \in {"success", "failed"} : SetItem(r, s, a, status)
  /\ Nudge(r)
  /\ UNCHANGED <<startVars, stage, flagVars, scheduler, workVars, decideVars,
                 cancelVars>>

DeployVerdict(r, s) == IF "failed" \in Items(r, s) THEN "failed" ELSE "success"

DeployDone(r, s) ==
  /\ worker[r][s] = "deploy"
  /\ Items(r, s) \subseteq {"success", "failed"}
  /\ Finish(r, s, DeployVerdict(r, s))
  /\ UNCHANGED <<startVars, item, flagVars, wake, scheduler, unpolled, due,
                 decideVars, cancelVars>>

\* What a verdict makes of an application's item.
Verdict == {"go", "no_go", "check"}
VerdictItemRaw(v) ==   \* fault: an undecided verdict is stored as it came
  CASE v = "go" -> "success" [] v = "no_go" -> "failed" [] OTHER -> v
VerdictItem(v) ==
  CASE v = "go" -> "success" [] v = "no_go" -> "failed" [] OTHER -> "waiting"

\* runGate: a poll reads every application's verdict, in order.
PollApp(r, s) ==
  /\ worker[r][s] = "poll"
  /\ "failed" \notin Items(r, s)
  /\ \E a \in unpolled[r][s] :
       /\ \A b \in unpolled[r][s] : a <= b
       /\ unpolled' = [unpolled EXCEPT ![r][s] = @ \ {a}]
       /\ \E v \in Verdict : SetItem(r, s, a, VerdictItem(v))
  /\ Nudge(r)
  /\ UNCHANGED <<startVars, stage, flagVars, scheduler, worker, due, decideVars,
                 cancelVars>>

GateNoGo(r, s) ==
  /\ worker[r][s] = "poll"
  /\ "failed" \in Items(r, s)
  /\ Finish(r, s, "failed")
  /\ UNCHANGED <<startVars, item, flagVars, wake, scheduler, unpolled, due,
                 decideVars, cancelVars>>

PassedAny(r, s) == unpolled[r][s] = {}   \* fault: undecided ones are not counted
Passed(r, s) == unpolled[r][s] = {} /\ "waiting" \notin Items(r, s)

GateGo(r, s) ==
  /\ worker[r][s] = "poll"
  /\ "failed" \notin Items(r, s)
  /\ Passed(r, s)
  /\ Finish(r, s, "success")
  /\ UNCHANGED <<startVars, item, flagVars, wake, scheduler, unpolled, due,
                 decideVars, cancelVars>>

GateWaits(r, s) ==
  /\ worker[r][s] = "poll"
  /\ "failed" \notin Items(r, s)
  /\ unpolled[r][s] = {}
  /\ ~Passed(r, s)
  /\ SetStage(r, s, "waiting")
  /\ Continue(r, s, "wait")
  /\ Nudge(r)
  /\ UNCHANGED <<startVars, item, flagVars, scheduler, unpolled, due,
                 decideVars, cancelVars>>

\* The poll timer fires first (a context or deadline that is already done
\* wins: the timer is new).
PollAgain(r, s) ==
  /\ worker[r][s] = "wait"
  /\ Type[s] = "gate"
  /\ ~stopped[r]
  /\ s \notin due[r]
  /\ Continue(r, s, "poll")
  /\ unpolled' = [unpolled EXCEPT ![r][s] = StageApps(s)]
  /\ UNCHANGED <<startVars, stageVars, flagVars, wake, scheduler, due,
                 decideVars, cancelVars>>

\* runApproval: offer the decision channel.
Offer(r, s) ==
  /\ worker[r][s] = "begin"
  /\ decisions' = [decisions EXCEPT ![r] = @ \cup {s}]
  /\ SetStage(r, s, "waiting")
  /\ Continue(r, s, "wait")
  /\ Nudge(r)
  /\ UNCHANGED <<startVars, item, flagVars, scheduler, unpolled, due, box,
                 deciders, audit, cancelVars>>

DecisionTaken(r, s) ==
  /\ worker[r][s] = "wait"
  /\ box[r][s] # "empty"
  /\ box' = [box EXCEPT ![r][s] = "empty"]
  /\ Finish(r, s, IF box[r][s] = "approve" THEN "success" ELSE "failed")
  /\ UNCHANGED <<startVars, item, flagVars, wake, scheduler, unpolled, due,
                 decisions, deciders, audit, cancelVars>>

\* The select takes the cancelled context or the deadline, whichever else may
\* be ready; the outcome follows (Withdraw).
Stopping(r, s) ==
  /\ worker[r][s] = "wait"
  /\ stopped[r]
  /\ Continue(r, s, "stopping")
  /\ UNCHANGED <<startVars, stageVars, flagVars, wake, scheduler, unpolled, due,
                 decideVars, cancelVars>>
Expiring(r, s) ==
  /\ worker[r][s] = "wait"
  /\ s \in due[r]
  /\ Continue(r, s, "expiring")
  /\ UNCHANGED <<startVars, stageVars, flagVars, wake, scheduler, unpolled, due,
                 decideVars, cancelVars>>

\* forget (the channel of an approval is withdrawn) and finish.
Withdraw(r, s) ==
  /\ worker[r][s] \in {"stopping", "expiring"}
  /\ decisions' = [decisions EXCEPT ![r] = @ \ {s}]
  /\ Finish(r, s, IF worker[r][s] = "stopping" THEN "cancelled" ELSE "failed")
  /\ UNCHANGED <<startVars, item, flagVars, wake, scheduler, unpolled, due, box,
                 deciders, audit, cancelVars>>

\* The deadline timer of a gate or an approval fires.
Deadline(r, s) ==
  /\ worker[r][s] \in {"poll", "wait"}
  /\ s \notin due[r]
  /\ due' = [due EXCEPT ![r] = @ \cup {s}]
  /\ UNCHANGED <<startVars, stageVars, flagVars, wake, scheduler, worker,
                 unpolled, decideVars, cancelVars>>

-----------------------------------------------------------------------------
(* Decide and Cancel. *)

KeptOnOffer(r, s) == decisions[r]   \* fault: the channel stays on offer
OfferedAfter(r, s) == decisions[r] \ {s}

\* Decide, under the lock: the channel is taken off offer.  The call then
\* writes the audit ledger and sends.
Decide(r, s, d) ==
  /\ Listed(r)
  /\ s \in decisions[r]
  /\ stage[r][s] = "waiting"
  /\ [run |-> r, stage |-> s, decision |-> d] \notin deciders
  /\ decisions' = [decisions EXCEPT ![r] = OfferedAfter(r, s)]
  /\ deciders' = deciders \cup {[run |-> r, stage |-> s, decision |-> d]}
  /\ audit' = [audit EXCEPT ![r][s] = @ \cup {d}]
  /\ UNCHANGED <<startVars, stageVars, flagVars, wake, scheduler, workVars, box,
                 cancelVars>>

\* ch <- decision: the channel has room for one.
Deliver(d) ==
  /\ box[d.run][d.stage] = "empty"
  /\ box' = [box EXCEPT ![d.run][d.stage] = d.decision]
  /\ deciders' = deciders \ {d}
  /\ UNCHANGED <<startVars, stageVars, flagVars, wake, scheduler, workVars,
                 decisions, audit, cancelVars>>

CancellableAlways(r) == TRUE   \* fault: a finished run may be cancelled
Cancellable(r) == ~finished[r]

\* Cancel, under the lock.  The call then writes the audit ledger.
Cancel(r) ==
  /\ Listed(r)
  /\ Cancellable(r)
  /\ canceller[r] = "none"
  /\ cancels[r] < MaxCancels
  /\ cancels' = [cancels EXCEPT ![r] = @ + 1]
  /\ cancelled' = [cancelled EXCEPT ![r] = TRUE]
  /\ canceller' = [canceller EXCEPT ![r] = "flagged"]
  /\ UNCHANGED <<startVars, stageVars, finished, stopped, wake, scheduler,
                 workVars, decideVars>>

\* r.cancel().  A call that comes before Start has stored the function panics;
\* the HTTP server recovers it.
CancelContext(r) ==
  /\ canceller[r] = "flagged"
  /\ IF scheduler[r] = "published"
     THEN /\ canceller' = [canceller EXCEPT ![r] = "none"]
          /\ UNCHANGED stopped
     ELSE /\ canceller' = [canceller EXCEPT ![r] = "stopped"]
          /\ stopped' = [stopped EXCEPT ![r] = TRUE]
  /\ UNCHANGED <<startVars, stageVars, cancelled, finished, wake, scheduler,
                 workVars, decideVars, cancels>>

CancelNudge(r) ==
  /\ canceller[r] = "stopped"
  /\ canceller' = [canceller EXCEPT ![r] = "none"]
  /\ Nudge(r)
  /\ UNCHANGED <<startVars, stageVars, flagVars, scheduler, workVars, decideVars,
                 cancels>>

-----------------------------------------------------------------------------
(* The status a run reports (statusLocked). *)

RunStatus(r) ==
  LET has(status) == \E s \in Stage : stage[r][s] = status
  IN CASE has("running") -> "running"
       [] ~has("running") /\ has("waiting") -> "waiting"
       [] ~has("running") /\ ~has("waiting") /\ ~finished[r] ->
            IF ~cancelled[r] /\ \A s \in Stage : stage[r][s] = "queued"
            THEN "queued" ELSE "running"
       [] OTHER ->
            IF cancelled[r] THEN "cancelled"
            ELSE IF \E s \in Stage : stage[r][s] \in Bad THEN "failed"
            ELSE "success"

-----------------------------------------------------------------------------
(* The specification. *)

Init ==
  /\ started = 0
  /\ source = [r \in RunId |-> 0]
  /\ stage = [r \in RunId |-> [s \in Stage |-> "queued"]]
  /\ item = [r \in RunId |-> [s \in Stage |-> [a \in App |-> "queued"]]]
  /\ cancelled = [r \in RunId |-> FALSE]
  /\ finished = [r \in RunId |-> FALSE]
  /\ stopped = [r \in RunId |-> FALSE]
  /\ wake = [r \in RunId |-> FALSE]
  /\ scheduler = [r \in RunId |-> "unborn"]
  /\ worker = [r \in RunId |-> [s \in Stage |-> "none"]]
  /\ unpolled = [r \in RunId |-> [s \in Stage |-> {}]]
  /\ due = [r \in RunId |-> {}]
  /\ decisions = [r \in RunId |-> {}]
  /\ box = [r \in RunId |-> [s \in Stage |-> "empty"]]
  /\ deciders = {}
  /\ canceller = [r \in RunId |-> "none"]
  /\ audit = [r \in RunId |-> [s \in Stage |-> {}]]
  /\ cancels = [r \in RunId |-> 0]

Schedule(r) == Launch(r) \/ Scan(r) \/ Awake(r) \/ Drained(r)
Work(r, s) ==
  \/ DeployApp(r, s) \/ DeployEnds(r, s) \/ DeployDone(r, s)
  \/ PollApp(r, s) \/ GateNoGo(r, s) \/ GateGo(r, s) \/ GateWaits(r, s)
  \/ PollAgain(r, s) \/ Offer(r, s) \/ DecisionTaken(r, s)
  \/ Stopping(r, s) \/ Expiring(r, s) \/ Withdraw(r, s) \/ Report(r, s)
CancelOn(r) == CancelContext(r) \/ CancelNudge(r)

Next ==
  \/ \E src \in RunId \cup {0} : Start(src)
  \/ \E r \in RunId : Schedule(r) \/ Cancel(r) \/ CancelOn(r)
  \/ \E r \in RunId, s \in Stage : Work(r, s) \/ Deadline(r, s)
  \/ \E r \in RunId, s \in Stage, d \in Decision : Decide(r, s, d)
  \/ \E d \in deciders : Deliver(d)

Spec == Init /\ [][Next]_vars

\* Goroutines run; deploys end (their job's timeout), timers fire.
Fairness ==
  /\ \A r \in RunId : WF_vars(Schedule(r)) /\ WF_vars(CancelOn(r))
  /\ \A r \in RunId, s \in Stage : WF_vars(Work(r, s)) /\ WF_vars(Deadline(r, s))

FairSpec == Spec /\ Fairness
=============================================================================
