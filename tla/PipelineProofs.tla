--------------------------- MODULE PipelineProofs ---------------------------
(***************************************************************************)
(* Theorems about pipeline runs, for every pipeline and any number of      *)
(* runs: they are workflows of the abstract kind, no stage is forgotten,   *)
(* what is reused did succeed, a verdict stands, one decision at most      *)
(* reaches a stage, and a stage that succeeded earned it.                  *)
(***************************************************************************)
EXTENDS PipelineProperties, TLAPS

-----------------------------------------------------------------------------
(* Types. *)

\* The applications a stage acts on are applications.
LEMMA StageAppsTyped == \A s \in Stage : StageApps(s) \subseteq App
BY PipelineAssumption DEF StageApps

LEMMA TypeInit == Init => TypeOK
BY BoundAssumption DEF Init, TypeOK, Status, Terminal, Good, Bad, Active

LEMMA TypeStart ==
  ASSUME TypeOK, NEW src \in RunId \cup {0}, Start(src)
  PROVE  TypeOK'
<1> DEFINE r == started + 1
<1>1. r \in RunId /\ r \in 0 .. MaxRuns /\ src \in 0 .. MaxRuns
  BY BoundAssumption DEF Start, RunId, TypeOK
<1>2. stage' \in [RunId -> [Stage -> Status]]
  BY <1>1 DEF Start, TypeOK, Status, Terminal, Good
<1>3. item' \in [RunId -> [Stage -> [App ->
        {"queued", "running", "waiting", "success", "failed", "skipped", "reused"}]]]
  BY <1>1 DEF Start, TypeOK
<1> QED
  BY <1>1, <1>2, <1>3 DEF Start, TypeOK, flagVars, workVars, decideVars, cancelVars

LEMMA TypePass ==
  ASSUME TypeOK, NEW r \in RunId, NEW gone \in SUBSET Stage,
         NEW S \in SUBSET Stage, Pass(r, gone, S),
         UNCHANGED <<startVars, cancelled, stopped, due, decideVars, cancelVars>>
  PROVE  TypeOK'
<1>1. stage' \in [RunId -> [Stage -> Status]]
  <2> DEFINE next == [s \in Stage |->
                 CASE s \in gone -> "cancelled"
                   [] s \in S -> "skipped"
                   [] s \in {x \in Queued(r) \ (S \cup gone) : Ready(r, x)} -> "running"
                   [] OTHER -> stage[r][s]]
  <2>1. next \in [Stage -> Status]
    <3> SUFFICES ASSUME NEW s \in Stage PROVE next[s] \in Status
      OBVIOUS
    <3>1. stage[r][s] \in Status
      BY DEF TypeOK
    <3> QED
      BY <3>1 DEF Status, Terminal, Bad, Active
  <2>2. stage' = [stage EXCEPT ![r] = next]
    BY DEF Pass
  <2> QED
    BY <2>1, <2>2 DEF TypeOK
<1>2. item' \in [RunId -> [Stage -> [App ->
        {"queued", "running", "waiting", "success", "failed", "skipped", "reused"}]]]
  BY DEF Pass, TypeOK
<1>3. wake' \in [RunId -> BOOLEAN]
  BY DEF Pass, TypeOK, WakeAfter
<1>4. finished' \in [RunId -> BOOLEAN]
  BY DEF Pass, TypeOK
<1>5. worker' \in [RunId -> [Stage ->
       {"none", "deploy", "poll", "begin", "wait", "stopping", "expiring",
        "nudge", "done"}]]
  <2>1. \A s \in Stage : FirstStep(s) \in {"deploy", "poll", "begin"}
    BY PipelineAssumption DEF FirstStep
  <2> QED
    BY <2>1 DEF Pass, TypeOK
<1>6. unpolled' \in [RunId -> [Stage -> SUBSET App]]
  BY StageAppsTyped DEF Pass, TypeOK
<1>7. scheduler' \in [RunId ->
       {"unborn", "published", "scan", "idle", "drain", "done"}]
  BY DEF Pass, TypeOK
<1> QED
  BY <1>1, <1>2, <1>3, <1>4, <1>5, <1>6, <1>7
  DEF TypeOK, startVars, decideVars, cancelVars

LEMMA TypeSchedule ==
  ASSUME TypeOK, NEW r \in RunId, Schedule(r)
  PROVE  TypeOK'
<1>1. CASE Launch(r)
  BY <1>1 DEF Launch, TypeOK, startVars, stageVars, flagVars, workVars,
              decideVars, cancelVars
<1>2. CASE Scan(r)
  <2>1. Queued(r) \subseteq Stage
    BY DEF Queued
  <2>2. CASE Pass(r, Queued(r), {})
    BY <1>2, <2>1, <2>2, TypePass DEF Scan
  <2>3. ASSUME NEW S \in SUBSET Queued(r), Pass(r, {}, S) PROVE TypeOK'
    BY <1>2, <2>1, <2>3, TypePass DEF Scan
  <2> QED
    BY <1>2, <2>2, <2>3 DEF Scan
<1>3. CASE Awake(r)
  BY <1>3 DEF Awake, TypeOK, startVars, stageVars, flagVars, workVars,
              decideVars, cancelVars
<1>4. CASE Drained(r)
  BY <1>4 DEF Drained, TypeOK, startVars, stageVars, workVars, decideVars,
              cancelVars
<1> QED
  BY <1>1, <1>2, <1>3, <1>4 DEF Schedule

LEMMA TypeWork ==
  ASSUME TypeOK, NEW r \in RunId, NEW s \in Stage, Work(r, s)
  PROVE  TypeOK'
<1> USE StageAppsTyped
    DEF TypeOK, startVars, stageVars, flagVars, workVars, decideVars, cancelVars,
        Nudge, SetItem, SetStage, Continue, Finish, Status, Terminal, Good, Bad,
        Active
<1>1. CASE DeployApp(r, s)
  BY <1>1 DEF DeployApp
<1>2. CASE DeployEnds(r, s)
  BY <1>2 DEF DeployEnds
<1>3. CASE DeployDone(r, s)
  BY <1>3 DEF DeployDone, DeployVerdict
<1>4. CASE PollApp(r, s)
  <2>1. PICK a \in unpolled[r][s], v \in Verdict :
          /\ unpolled' = [unpolled EXCEPT ![r][s] = @ \ {a}]
          /\ item' = [item EXCEPT ![r][s][a] = VerdictItem(v)]
    BY <1>4 DEF PollApp
  <2>2. VerdictItem(v) \in {"success", "failed", "waiting"} /\ a \in App
    BY DEF VerdictItem
  <2>3. item' \in [RunId -> [Stage -> [App ->
        {"queued", "running", "waiting", "success", "failed", "skipped", "reused"}]]]
    BY <2>1, <2>2
  <2>4. unpolled' \in [RunId -> [Stage -> SUBSET App]]
    BY <2>1
  <2> QED
    BY <1>4, <2>3, <2>4 DEF PollApp
<1>5. CASE GateNoGo(r, s)
  BY <1>5 DEF GateNoGo
<1>6. CASE GateGo(r, s)
  BY <1>6 DEF GateGo
<1>7. CASE GateWaits(r, s)
  BY <1>7 DEF GateWaits
<1>8. CASE PollAgain(r, s)
  BY <1>8 DEF PollAgain
<1>9. CASE Offer(r, s)
  BY <1>9 DEF Offer
<1>10. CASE DecisionTaken(r, s)
  BY <1>10 DEF DecisionTaken
<1>11. CASE Stopping(r, s)
  BY <1>11 DEF Stopping
<1>12. CASE Expiring(r, s)
  BY <1>12 DEF Expiring
<1>13. CASE Withdraw(r, s)
  BY <1>13 DEF Withdraw
<1>14. CASE Report(r, s)
  BY <1>14 DEF Report, Nudged
<1> QED
  BY <1>1, <1>2, <1>3, <1>4, <1>5, <1>6, <1>7, <1>8, <1>9, <1>10, <1>11, <1>12,
     <1>13, <1>14 DEF Work

LEMMA TypeNext == TypeOK /\ [Next]_vars => TypeOK'
<1> SUFFICES ASSUME TypeOK, [Next]_vars PROVE TypeOK'
  OBVIOUS
<1> USE DEF startVars, stageVars, flagVars, workVars, decideVars, cancelVars
<1>1. CASE \E src \in RunId \cup {0} : Start(src)
  BY <1>1, TypeStart
<1>2. ASSUME NEW r \in RunId, Schedule(r) PROVE TypeOK'
  BY <1>2, TypeSchedule
<1>3. ASSUME NEW r \in RunId, NEW s \in Stage, Work(r, s) PROVE TypeOK'
  BY <1>3, TypeWork
<1>4. ASSUME NEW r \in RunId, NEW s \in Stage, Deadline(r, s) PROVE TypeOK'
  BY <1>4 DEF TypeOK, Deadline
<1>5. ASSUME NEW r \in RunId, Cancel(r) PROVE TypeOK'
  BY <1>5, BoundAssumption DEF TypeOK, Cancel
<1>6. ASSUME NEW r \in RunId, CancelOn(r) PROVE TypeOK'
  <2>1. CASE CancelContext(r)
    BY <2>1 DEF TypeOK, CancelContext
  <2>2. CASE CancelNudge(r)
    BY <2>2 DEF TypeOK, CancelNudge, Nudge
  <2> QED
    BY <1>6, <2>1, <2>2 DEF CancelOn
<1>7. ASSUME NEW r \in RunId, NEW s \in Stage, NEW d \in Decision, Decide(r, s, d)
      PROVE TypeOK'
  BY <1>7 DEF TypeOK, Decide, OfferedAfter
<1>8. ASSUME NEW d \in deciders, Deliver(d) PROVE TypeOK'
  BY <1>8 DEF TypeOK, Deliver
<1>9. CASE UNCHANGED vars
  BY <1>9 DEF TypeOK, vars
<1> QED
  BY <1>1, <1>2, <1>3, <1>4, <1>5, <1>6, <1>7, <1>8, <1>9 DEF Next

\* Every variable keeps its type, for every pipeline (internal/pipeline).
THEOREM TypeCorrect == Spec => []TypeOK
BY TypeInit, TypeNext, PTL DEF Spec

-----------------------------------------------------------------------------
(* Every run is a Workflow.  A step of one run leaves the others alone; a  *)
(* worker's step moves one stage.                                          *)

\* What a run is coherent about, one run at a time.
Fits(q) == SchedulerFits(q) /\ NeedsHeld(q) /\ \A s \in Stage : WorkerFits(q, s)
FlowStep(q) == [RunFlow(q)!Next]_(RunFlow(q)!vars)
Still(q) ==
  /\ scheduler'[q] = scheduler[q]
  /\ (started' < q) = (started < q)
  /\ cancelled'[q] = cancelled[q]
  /\ finished'[q] = finished[q]
  /\ stage'[q] = stage[q]
  /\ worker'[q] = worker[q]
  /\ canceller'[q] = canceller[q]
  /\ stopped'[q] = stopped[q]

LEMMA StillFits ==
  ASSUME TypeOK, TypeOK', NEW q \in RunId, Fits(q), Still(q)
  PROVE  Fits(q)' /\ FlowStep(q)
<1>1. q \in Int /\ started \in Int /\ started' \in Int
  BY BoundAssumption DEF RunId, TypeOK
<1>2. SchedulerFits(q)'
  BY <1>1 DEF Fits, SchedulerFits, Still
<1>3. NeedsHeld(q)'
  BY DEF Fits, NeedsHeld, Still
<1>4. \A s \in Stage : WorkerFits(q, s)'
  BY DEF Fits, WorkerFits, Still
<1>5. FlowStep(q)
  BY <1>1 DEF FlowStep, RunFlow!vars, PhaseOf, Still
<1> QED
  BY <1>2, <1>3, <1>4, <1>5 DEF Fits

\* A worker's step: stage s of run r goes to st, its worker to pc.
OneStage(r, s, st, pc) ==
  /\ stage'[r][s] = st
  /\ worker'[r][s] = pc
  /\ \A t \in Stage \ {s} :
       stage'[r][t] = stage[r][t] /\ worker'[r][t] = worker[r][t]
  /\ \A q \in RunId \ {r} : stage'[q] = stage[q] /\ worker'[q] = worker[q]
  /\ UNCHANGED <<startVars, flagVars, scheduler, cancelVars>>

LegalMove(r, s, st, pc) ==
  /\ stage[r][s] \in Active
  /\ \/ /\ pc = "nudge"
        /\ st \in {"success", "failed", "cancelled"}
        /\ st = "cancelled" => cancelled[r] /\ stage[r][s] = "waiting"
     \/ /\ st = "waiting"
        /\ pc \in {"poll", "wait", "expiring", "stopping"}
        /\ pc = "stopping" => cancelled[r]

LEMMA OneStageFits ==
  ASSUME TypeOK, TypeOK', Coherent, NEW r \in RunId, NEW s \in Stage,
         NEW st, NEW pc, OneStage(r, s, st, pc),
         LegalMove(r, s, st, pc),
         NEW q \in RunId
  PROVE  Fits(q)' /\ FlowStep(q)
<1> USE DEF startVars, flagVars, cancelVars, LegalMove
<1>0. Fits(q) /\ Fits(r)
  BY DEF Coherent, Fits
<1>1. CASE q # r
  BY <1>0, <1>1, StillFits DEF OneStage, Still
<1>2. CASE q = r
  <2>1. ~finished[r] /\ scheduler[r] # "unborn" /\ r <= started
    <3>1. r \in Int /\ started \in Int
      BY BoundAssumption DEF RunId, TypeOK
    <3>2. SchedulerFits(r)
      BY <1>0 DEF Fits
    <3>3. ~finished[r]
      BY <3>2 DEF SchedulerFits, Active, Terminal, Good, Bad
    <3>4. scheduler[r] # "unborn"
      BY <3>2 DEF SchedulerFits, Active
    <3> QED
      BY <3>1, <3>2, <3>3, <3>4 DEF SchedulerFits
  <2>2. SchedulerFits(r)'
    BY <1>0, <2>1 DEF Fits, SchedulerFits, OneStage
  <2>3. NeedsHeld(r)'
    <3>1. \A n \in Needs[s] : stage[r][n] \in Good
      BY <1>0 DEF Fits, NeedsHeld
    <3>2. \A t \in Stage : stage[r][t] \in Good => stage'[r][t] \in Good
      BY DEF OneStage, Good, Active
    <3>3. \A t \in Stage : stage'[r][t] \in Good \cup Active \cup {"failed"} =>
            t = s \/ stage[r][t] \in Good \cup Active \cup {"failed"}
      BY DEF OneStage
    <3>4. Needs \in [Stage -> SUBSET Stage]
      BY PipelineAssumption
    <3> QED
      BY <1>0, <3>1, <3>2, <3>3, <3>4 DEF Fits, NeedsHeld
  <2>4. \A t \in Stage : WorkerFits(r, t)'
    <3> SUFFICES ASSUME NEW t \in Stage PROVE WorkerFits(r, t)'
      OBVIOUS
    <3>1. CASE t # s
      BY <1>0, <3>1 DEF Fits, WorkerFits, OneStage
    <3>2. CASE t = s
      BY <3>2 DEF WorkerFits, OneStage, Active, Working
    <3> QED
      BY <3>1, <3>2
  <2>5. FlowStep(r)
    <3>1. \A t \in Stage \ {s} : stage'[r][t] = stage[r][t]
      BY DEF OneStage
    <3>2. \/ stage'[r][s] = stage[r][s]
          \/ stage[r][s] = "running" /\ stage'[r][s] \in {"waiting", "success", "failed"}
          \/ stage[r][s] = "waiting" /\ stage'[r][s] \in {"success", "failed"}
          \/ stage[r][s] = "waiting" /\ cancelled[r] /\ stage'[r][s] = "cancelled"
      BY DEF OneStage, Active
    <3>3. \A t \in Stage : RunFlow(r)!Moves(t)
      BY <3>1, <3>2 DEF RunFlow!Moves, RunFlow!Progresses, RunFlow!IsCancelled
    <3>4. stage'[r] \in [Stage -> RunFlow(r)!Status]
      BY DEF TypeOK, Status, Terminal, Good, Bad, Active, RunFlow!Status,
             RunFlow!Terminal, RunFlow!Good, RunFlow!Bad, RunFlow!Active
    <3>5. PhaseOf(r) = "live" /\ PhaseOf(r)' = "live" /\ cancelled'[r] = cancelled[r]
      BY <2>1 DEF PhaseOf, OneStage
    <3> QED
      BY <3>3, <3>4, <3>5 DEF FlowStep, RunFlow!Next, RunFlow!Advance
  <2> QED
    BY <1>2, <2>2, <2>3, <2>4, <2>5 DEF Fits
<1> QED
  BY <1>1, <1>2

LEMMA WorkFits ==
  ASSUME TypeOK, TypeOK', Coherent, NEW r \in RunId, NEW s \in Stage, Work(r, s),
         NEW q \in RunId
  PROVE  Fits(q)' /\ FlowStep(q)
<1> USE DEF startVars, stageVars, flagVars, workVars, decideVars, cancelVars,
            SetStage, Continue, Finish
<1>0. Fits(r) /\ Fits(q)
  BY DEF Coherent, Fits
<1>1. WorkerFits(r, s) /\ SchedulerFits(r)
  BY <1>0 DEF Fits
\* The stage stays as it is, and so does its worker's place.
<1>2. CASE DeployApp(r, s) \/ DeployEnds(r, s) \/ PollApp(r, s)
  <2>1. Still(q)
    BY <1>2 DEF DeployApp, DeployEnds, PollApp, Still
  <2> QED
    BY <1>0, <2>1, StillFits
\* The stage moves, as its worker's place allows.
<1>3. ASSUME NEW st, NEW pc, OneStage(r, s, st, pc), LegalMove(r, s, st, pc)
      PROVE  Fits(q)' /\ FlowStep(q)
  BY <1>3, OneStageFits
<1>4. CASE DeployDone(r, s)
  <2>1. OneStage(r, s, DeployVerdict(r, s), "nudge")
    BY <1>4 DEF DeployDone, OneStage, TypeOK
  <2>2. LegalMove(r, s, DeployVerdict(r, s), "nudge")
    BY <1>1, <1>4 DEF DeployDone, DeployVerdict, WorkerFits, Active, LegalMove
  <2> QED
    BY <1>3, <2>1, <2>2
<1>5. CASE GateNoGo(r, s)
  <2>1. OneStage(r, s, "failed", "nudge")
    BY <1>5 DEF GateNoGo, OneStage, TypeOK
  <2>2. LegalMove(r, s, "failed", "nudge")
    BY <1>1, <1>5 DEF GateNoGo, WorkerFits, LegalMove
  <2> QED
    BY <1>3, <2>1, <2>2
<1>6. CASE GateGo(r, s)
  <2>1. OneStage(r, s, "success", "nudge")
    BY <1>6 DEF GateGo, OneStage, TypeOK
  <2>2. LegalMove(r, s, "success", "nudge")
    BY <1>1, <1>6 DEF GateGo, WorkerFits, LegalMove
  <2> QED
    BY <1>3, <2>1, <2>2
<1>7. CASE DecisionTaken(r, s)
  <2>1. PICK st \in {"success", "failed"} : OneStage(r, s, st, "nudge")
    BY <1>7 DEF DecisionTaken, OneStage, TypeOK
  <2>2. LegalMove(r, s, st, "nudge")
    BY <1>1, <1>7 DEF DecisionTaken, WorkerFits, Active, LegalMove
  <2> QED
    BY <1>3, <2>1, <2>2
<1>8. CASE Withdraw(r, s)
  <2> DEFINE st == IF worker[r][s] = "stopping" THEN "cancelled" ELSE "failed"
  <2>1. OneStage(r, s, st, "nudge")
    BY <1>8 DEF Withdraw, OneStage, TypeOK
  <2>2. LegalMove(r, s, st, "nudge")
    BY <1>1, <1>8 DEF Withdraw, WorkerFits, Active, LegalMove
  <2> QED
    BY <1>3, <2>1, <2>2
<1>9. CASE GateWaits(r, s) \/ Offer(r, s)
  <2>1. OneStage(r, s, "waiting", "wait")
    BY <1>9 DEF GateWaits, Offer, OneStage, TypeOK
  <2>2. LegalMove(r, s, "waiting", "wait")
    BY <1>1, <1>9 DEF GateWaits, Offer, WorkerFits, Active, LegalMove
  <2> QED
    BY <1>3, <2>1, <2>2
<1>10. CASE PollAgain(r, s) \/ Stopping(r, s) \/ Expiring(r, s)
  <2>1. stage[r][s] = "waiting"
    BY <1>1, <1>10 DEF PollAgain, Stopping, Expiring, WorkerFits
  <2>2. Stopping(r, s) => cancelled[r]
    BY <1>1, <2>1 DEF Stopping, SchedulerFits, Terminal, Good, Bad
  <2>3. PICK pc \in {"poll", "stopping", "expiring"} :
          /\ OneStage(r, s, "waiting", pc)
          /\ pc = "stopping" => Stopping(r, s)
    BY <1>10, <2>1 DEF PollAgain, Stopping, Expiring, OneStage, TypeOK
  <2>4. LegalMove(r, s, "waiting", pc)
    BY <2>1, <2>2, <2>3 DEF Active, LegalMove
  <2> QED
    BY <1>3, <2>3, <2>4
\* The worker has reported the end of the stage, and ends.
<1>11. CASE Report(r, s)
  <2>1. /\ stage' = stage
        /\ \A t \in Stage :
             \/ worker'[q][t] = worker[q][t]
             \/ q = r /\ t = s /\ worker[q][t] = "nudge" /\ worker'[q][t] = "done"
        /\ UNCHANGED <<started, flagVars, scheduler, canceller>>
    <3>1. worker' = [worker EXCEPT ![r][s] = "done"] /\ worker[r][s] = "nudge"
      BY <1>11 DEF Report
    <3>2. stage' = stage /\ UNCHANGED <<started, flagVars, scheduler, canceller>>
      BY <1>11 DEF Report
    <3>3. worker \in [RunId -> [Stage ->
            {"none", "deploy", "poll", "begin", "wait", "stopping", "expiring",
             "nudge", "done"}]]
      BY DEF TypeOK
    <3>4. ASSUME NEW t \in Stage
          PROVE  \/ worker'[q][t] = worker[q][t]
                 \/ q = r /\ t = s /\ worker[q][t] = "nudge" /\ worker'[q][t] = "done"
      BY <3>1, <3>3
    <3> QED
      BY <3>2, <3>4
  <2>2. SchedulerFits(q)' /\ NeedsHeld(q)'
    BY <1>0, <2>1 DEF Fits, SchedulerFits, NeedsHeld
  <2>3. \A t \in Stage : WorkerFits(q, t)'
    BY <1>0, <2>1 DEF Fits, WorkerFits, Working
  <2>4. FlowStep(q)
    BY <2>1 DEF FlowStep, RunFlow!vars, PhaseOf
  <2> QED
    BY <2>2, <2>3, <2>4 DEF Fits
<1> QED
  BY <1>2, <1>4, <1>5, <1>6, <1>7, <1>8, <1>9, <1>10, <1>11 DEF Work

\* One pass of the scheduler.  A pass that ends the run leaves no stage queued:
\* each would need another.
LEMMA OverLeavesNothingQueued ==
  ASSUME TypeOK, NEW r \in RunId, Skips(r, {}),
         \A s \in Stage : stage[r][s] \notin Active,
         \A s \in Queued(r) : ~Ready(r, s)
  PROVE  Queued(r) = {}
<1>1. ASSUME NEW s \in Queued(r) PROVE Needs[s] \cap Queued(r) # {}
  <2>1. s \in Stage /\ Needs[s] \subseteq Stage
    BY PipelineAssumption DEF Queued
  <2>2. PICK n \in Needs[s] : stage[r][n] \notin Good
    BY DEF Ready
  <2>3. stage[r][n] \notin Bad
    BY DEF Skips
  <2>4. stage[r][n] \in Status /\ n \in Stage
    BY <2>1 DEF TypeOK
  <2> QED
    BY <2>2, <2>3, <2>4 DEF Queued, Status, Terminal
<1>2. Queued(r) \in SUBSET Stage
  BY DEF Queued
<1> QED
  BY <1>1, <1>2, AcyclicAssumption

\* What a pass makes of the stages.
Passes(r, gone, S, go) ==
  /\ gone \subseteq Queued(r) /\ S \subseteq Queued(r) /\ go \subseteq Queued(r)
  /\ gone \cap S = {} /\ go \cap (S \cup gone) = {}
  /\ \A s \in go : Ready(r, s)
  /\ \A s \in Queued(r) \ (S \cup gone \cup go) : ~Ready(r, s)
  /\ \A s \in Stage :
       /\ s \in gone => stage'[r][s] = "cancelled"
       /\ s \in S => stage'[r][s] = "skipped"
       /\ s \in go => /\ stage'[r][s] = "running"
                      /\ worker'[r][s] \in {"deploy", "poll", "begin"}
       /\ s \notin gone \cup S \cup go => stage'[r][s] = stage[r][s]
       /\ s \notin go => worker'[r][s] = worker[r][s]
  /\ finished'[r] = ((\A s \in Stage : stage'[r][s] \notin Active) /\ ~wake'[r])
  /\ wake'[r] = (wake[r] \/ S # {})
  /\ scheduler'[r] = IF finished'[r] THEN "drain" ELSE "idle"
  /\ \A q \in RunId \ {r} :
       /\ stage'[q] = stage[q]
       /\ worker'[q] = worker[q]
       /\ finished'[q] = finished[q]
       /\ scheduler'[q] = scheduler[q]
       /\ wake'[q] = wake[q]
  /\ UNCHANGED <<started, cancelled, stopped, canceller>>

LEMMA PassPasses ==
  ASSUME TypeOK, NEW r \in RunId,
         NEW gone \in SUBSET Queued(r), NEW S \in SUBSET Queued(r), gone \cap S = {},
         Pass(r, gone, S), UNCHANGED <<startVars, cancelled, stopped, cancelVars>>
  PROVE  Passes(r, gone, S, {s \in Queued(r) \ (S \cup gone) : Ready(r, s)})
<1> DEFINE go == {s \in Queued(r) \ (S \cup gone) : Ready(r, s)}
           next == [s \in Stage |->
                 CASE s \in gone -> "cancelled"
                   [] s \in S -> "skipped"
                   [] s \in go -> "running"
                   [] OTHER -> stage[r][s]]
           over == /\ \A s \in Stage : next[s] \notin Active
                   /\ ~WakeAfter(r, S)
<1>1. /\ stage' = [stage EXCEPT ![r] = next]
      /\ wake' = [wake EXCEPT ![r] = WakeAfter(r, S)]
      /\ worker' = [worker EXCEPT ![r] = [s \in Stage |->
           IF s \in go THEN FirstStep(s) ELSE worker[r][s]]]
      /\ finished' = [finished EXCEPT ![r] = over]
      /\ scheduler' = [scheduler EXCEPT ![r] = IF over THEN "drain" ELSE "idle"]
  BY Zenon DEF Pass
<1> HIDE DEF over
<1>2. Queued(r) \subseteq Stage
  BY DEF Queued
<1>3. stage'[r] = next /\ \A q \in RunId \ {r} : stage'[q] = stage[q]
  <2> HIDE DEF next
  <2> QED
    BY <1>1 DEF TypeOK
<1>4. \A s \in Stage : FirstStep(s) \in {"deploy", "poll", "begin"}
  BY PipelineAssumption DEF FirstStep
<1>5. \A s \in Stage :
       /\ s \in gone => stage'[r][s] = "cancelled"
       /\ s \in S => stage'[r][s] = "skipped"
       /\ s \in go => stage'[r][s] = "running"
       /\ s \notin gone \cup S \cup go => stage'[r][s] = stage[r][s]
  <2>1. go \cap (S \cup gone) = {}
    OBVIOUS
  <2> HIDE DEF go, next
  <2> SUFFICES ASSUME NEW s \in Stage
               PROVE  /\ s \in gone => next[s] = "cancelled"
                      /\ s \in S => next[s] = "skipped"
                      /\ s \in go => next[s] = "running"
                      /\ s \notin gone \cup S \cup go => next[s] = stage[r][s]
    BY <1>3
  <2> USE DEF next
  <2>2. CASE s \in gone
    BY <2>1, <2>2
  <2>3. CASE s \in S
    BY <2>1, <2>3
  <2>4. CASE s \in go
    BY <2>1, <2>4
  <2>5. CASE s \notin gone \cup S \cup go
    BY <2>5
  <2> QED
    BY <2>1, <2>2, <2>3, <2>4, <2>5
<1>6. \A s \in Stage :
       /\ s \in go => worker'[r][s] \in {"deploy", "poll", "begin"}
       /\ s \notin go => worker'[r][s] = worker[r][s]
  <2> HIDE DEF go
  <2> QED
    BY <1>1, <1>4 DEF TypeOK
<1>7. \A q \in RunId \ {r} :
       /\ worker'[q] = worker[q]
       /\ finished'[q] = finished[q]
       /\ scheduler'[q] = scheduler[q]
       /\ wake'[q] = wake[q]
  BY <1>1 DEF TypeOK
<1>8. wake'[r] = (wake[r] \/ S # {})
  BY <1>1 DEF TypeOK, WakeAfter
<1>9. over = ((\A s \in Stage : stage'[r][s] \notin Active) /\ ~wake'[r])
  <2>1. wake'[r] = WakeAfter(r, S)
    BY <1>1 DEF TypeOK
  <2> HIDE DEF next
  <2> QED
    BY <1>3, <2>1 DEF over
<1>10. finished'[r] = over /\ scheduler'[r] = IF over THEN "drain" ELSE "idle"
  BY <1>1 DEF TypeOK
<1>11. finished'[r] = ((\A s \in Stage : stage'[r][s] \notin Active) /\ ~wake'[r])
  BY <1>9, <1>10, Zenon
<1>12. scheduler'[r] = IF finished'[r] THEN "drain" ELSE "idle"
  BY <1>10, Zenon
<1> HIDE DEF next
<1> QED
  BY <1>2, <1>3, <1>5, <1>6, <1>7, <1>8, <1>11, <1>12
  DEF Passes, startVars, cancelVars

LEMMA PassesFits ==
  ASSUME TypeOK, TypeOK', Coherent, NEW r \in RunId, scheduler[r] = "scan",
         NEW gone, NEW S, NEW go, Passes(r, gone, S, go),
         \/ cancelled[r] /\ gone = Queued(r) /\ S = {}
         \/ ~cancelled[r] /\ gone = {} /\ Skips(r, S),
         NEW q \in RunId
  PROVE  Fits(q)' /\ FlowStep(q)
<1>0. Fits(q) /\ Fits(r)
  BY DEF Coherent, Fits
<1>1. CASE q # r
  <2>1. Still(q)
    BY <1>1 DEF Passes, Still
  <2> QED
    BY <1>0, <2>1, StillFits
<1>2. CASE q = r
  <2>1. /\ r \in Int /\ started \in Int /\ started' = started
        /\ ~finished[r] /\ r <= started
    BY <1>0, BoundAssumption DEF Fits, SchedulerFits, Passes, RunId, TypeOK
  \* What each stage does.
  <2>2. \A s \in Stage :
          \/ stage'[r][s] = stage[r][s]
          \/ stage[r][s] = "queued" /\ stage'[r][s] \in {"cancelled", "skipped", "running"}
    BY DEF Passes, Queued
  <2>3. \A s \in Stage : stage[r][s] # "queued" => stage'[r][s] = stage[r][s]
    BY <2>2
  <2>4. \A s \in Stage : stage'[r][s] \in Good => stage[r][s] = stage'[r][s]
    BY <2>2 DEF Good
  <2>5. \A s \in go : \A n \in Needs[s] : stage[r][n] \in Good
    BY DEF Passes, Ready
  <2>6. \A s \in Stage : Needs[s] \subseteq Stage
    BY PipelineAssumption
  <2>7. finished'[r] => \A s \in Stage : stage'[r][s] \in Terminal
    <3> SUFFICES ASSUME finished'[r], NEW s \in Stage PROVE stage'[r][s] \in Terminal
      OBVIOUS
    <3>1. /\ \A t \in Stage : stage'[r][t] \notin Active
          /\ S = {} /\ stage'[r][s] \in Status
      BY DEF Passes, TypeOK
    <3>2. stage'[r][s] # "queued"
      <4>1. CASE gone = Queued(r)
        BY <2>2, <4>1 DEF Passes, Queued
      <4>2. CASE gone = {} /\ Skips(r, S)
        <5>1. go = {}
          BY <3>1 DEF Passes, Queued, Active
        <5>2. \A t \in Stage : stage[r][t] \notin Active
          BY <3>1, <4>2, <5>1 DEF Passes
        <5>3. \A t \in Queued(r) : ~Ready(r, t)
          BY <3>1, <4>2, <5>1 DEF Passes
        <5>4. Queued(r) = {}
          BY <3>1, <4>2, <5>2, <5>3, OverLeavesNothingQueued
        <5> QED
          BY <2>2, <5>4 DEF Queued
      <4> QED
        BY <4>1, <4>2
    <3> QED
      BY <3>1, <3>2 DEF Status
  <2>8. SchedulerFits(r)'
    <3>1. SchedulerFits(r) /\ finished'[r] \in BOOLEAN
      BY <1>0 DEF Fits, TypeOK
    <3>2. \/ scheduler'[r] = "drain" /\ finished'[r]
          \/ scheduler'[r] = "idle" /\ ~finished'[r]
      BY <3>1 DEF Passes
    <3>3. /\ canceller'[r] = canceller[r]
          /\ cancelled'[r] = cancelled[r]
          /\ stopped'[r] = stopped[r]
      BY DEF Passes
    <3> QED
      BY <2>1, <2>7, <3>1, <3>2, <3>3 DEF SchedulerFits
  <2>9. NeedsHeld(r)'
    <3> SUFFICES ASSUME NEW s \in Stage,
                        stage'[r][s] \in Good \cup Active \cup {"failed"},
                        NEW n \in Needs[s]
                 PROVE  stage'[r][n] \in Good
      BY DEF NeedsHeld
    <3>1. n \in Stage
      BY <2>6
    <3>2. stage[r][n] \in Good
      <4>1. CASE s \in go
        BY <2>5, <4>1
      <4>2. CASE s \notin go
        <5>1. stage'[r][s] = stage[r][s]
          BY <4>2 DEF Passes, Good, Active
        <5> QED
          BY <1>0, <5>1 DEF Fits, NeedsHeld
      <4> QED
        BY <4>1, <4>2
    <3> QED
      BY <2>3, <3>1, <3>2 DEF Good
  <2>10. ASSUME NEW s \in Stage PROVE WorkerFits(r, s)'
    <3>1. CASE s \in go
      BY <3>1 DEF Passes, WorkerFits, Active, Working
    <3>2. CASE s \notin go
      <4>1. worker'[r][s] = worker[r][s] /\ cancelled'[r] = cancelled[r]
        BY <3>2 DEF Passes
      <4>2. \/ stage'[r][s] = stage[r][s]
            \/ stage[r][s] = "queued" /\ stage'[r][s] \in {"cancelled", "skipped"}
        BY <3>2 DEF Passes, Queued
      <4>3. WorkerFits(r, s)
        BY <1>0 DEF Fits
      <4> QED
        BY <4>1, <4>2, <4>3 DEF WorkerFits, Active
    <3> QED
      BY <3>1, <3>2
  <2>11. FlowStep(r)
    <3>1. ASSUME NEW s \in Stage PROVE RunFlow(r)!Moves(s)
      <4> USE DEF RunFlow!Moves
      <4>1. CASE s \in go
        <5>1. stage[r][s] = "queued" /\ stage'[r][s] = "running" /\ ~cancelled[r]
          BY <4>1 DEF Passes, Queued
        <5>2. \A n \in Needs[s] : stage[r][n] \in RunFlow(r)!Good
          BY <2>5, <4>1 DEF Good, RunFlow!Good
        <5> QED
          BY <5>1, <5>2 DEF RunFlow!Starts
      <4>2. CASE s \in gone
        <5>1. stage[r][s] = "queued" /\ stage'[r][s] = "cancelled" /\ cancelled[r]
          BY <4>2 DEF Passes, Queued
        <5> QED
          BY <5>1 DEF RunFlow!IsCancelled
      <4>3. CASE s \in S
        <5>1. /\ stage[r][s] = "queued" /\ stage'[r][s] = "skipped"
              /\ ~cancelled[r] /\ Skips(r, S)
          BY <4>3 DEF Passes, Queued
        <5>2. PICK n \in Needs[s] : stage[r][n] \in Bad \/ n \in S
          BY <4>3, <5>1 DEF Skips
        <5>3. stage'[r][n] \in Bad
          <6>1. n \in Stage
            BY <2>6
          <6>2. CASE stage[r][n] \in Bad
            BY <2>3, <6>1, <6>2 DEF Bad
          <6>3. CASE n \in S
            BY <6>1, <6>3 DEF Passes, Bad
          <6> QED
            BY <5>2, <6>2, <6>3
        <5> QED
          BY <5>1, <5>3 DEF RunFlow!IsSkipped, RunFlow!Bad, Bad
      <4>4. CASE s \notin gone \cup S \cup go
        BY <4>4 DEF Passes
      <4> QED
        BY <4>1, <4>2, <4>3, <4>4
    <3>2. stage'[r] \in [Stage -> RunFlow(r)!Status]
      BY DEF TypeOK, Status, Terminal, Good, Bad, Active, RunFlow!Status,
             RunFlow!Terminal, RunFlow!Good, RunFlow!Bad, RunFlow!Active
    <3>3. PhaseOf(r) = "live" /\ cancelled'[r] = cancelled[r]
      BY <2>1 DEF PhaseOf, Passes
    <3>4. \/ PhaseOf(r)' = "live"
          \/ PhaseOf(r)' = "finished" /\ \A s \in Stage : stage'[r][s] \in Terminal
      BY <2>1, <2>7 DEF PhaseOf
    <3> QED
      BY <3>1, <3>2, <3>3, <3>4
      DEF FlowStep, RunFlow!Next, RunFlow!Advance, Terminal, Good, Bad,
          RunFlow!Terminal, RunFlow!Good, RunFlow!Bad
  <2> QED
    BY <1>2, <2>8, <2>9, <2>10, <2>11 DEF Fits
<1> QED
  BY <1>1, <1>2

LEMMA ScheduleFits ==
  ASSUME TypeOK, TypeOK', Coherent, NEW r \in RunId, Schedule(r), NEW q \in RunId
  PROVE  Fits(q)' /\ FlowStep(q)
<1> USE DEF startVars, stageVars, flagVars, workVars, decideVars, cancelVars
<1>0. Fits(q) /\ Fits(r)
  BY DEF Coherent, Fits
\* Steps that move no stage.
<1>1. CASE Launch(r) \/ Awake(r) \/ Drained(r)
  <2>1. /\ UNCHANGED <<stage, worker, cancelled, finished, started, canceller>>
        /\ \/ scheduler'[q] = scheduler[q] /\ stopped'[q] = stopped[q]
           \/ /\ scheduler[q] \in {"published", "idle"} /\ scheduler'[q] = "scan"
              /\ stopped'[q] = stopped[q]
           \/ scheduler[q] = "drain" /\ scheduler'[q] = "done"
    BY <1>1 DEF Launch, Awake, Drained, TypeOK
  <2>2. SchedulerFits(q)'
    BY <1>0, <2>1 DEF Fits, SchedulerFits
  <2>3. NeedsHeld(q)' /\ \A s \in Stage : WorkerFits(q, s)'
    BY <1>0, <2>1 DEF Fits, NeedsHeld, WorkerFits
  <2>4. FlowStep(q)
    BY <2>1 DEF FlowStep, RunFlow!vars, PhaseOf
  <2> QED
    BY <2>2, <2>3, <2>4 DEF Fits
<1>2. CASE Scan(r)
  <2>1. /\ scheduler[r] = "scan"
        /\ UNCHANGED <<startVars, cancelled, stopped, cancelVars>>
    BY <1>2 DEF Scan
  <2>2. CASE cancelled[r] /\ Pass(r, Queued(r), {})
    <3> DEFINE go == {s \in Queued(r) \ ({} \cup Queued(r)) : Ready(r, s)}
    <3>1. Passes(r, Queued(r), {}, go)
      BY <2>1, <2>2, PassPasses
    <3> HIDE DEF go
    <3> QED
      BY <2>1, <2>2, <3>1, PassesFits
  <2>3. ASSUME ~cancelled[r], NEW S \in SUBSET Queued(r), Skips(r, S), Pass(r, {}, S)
        PROVE  Fits(q)' /\ FlowStep(q)
    <3> DEFINE go == {s \in Queued(r) \ (S \cup {}) : Ready(r, s)}
    <3>1. Passes(r, {}, S, go)
      BY <2>1, <2>3, PassPasses
    <3> HIDE DEF go
    <3> QED
      BY <2>1, <2>3, <3>1, PassesFits
  <2> QED
    BY <1>2, <2>2, <2>3 DEF Scan
<1> QED
  BY <1>1, <1>2 DEF Schedule

LEMMA StartFits ==
  ASSUME TypeOK, TypeOK', Coherent, NEW src \in RunId \cup {0}, Start(src),
         NEW q \in RunId
  PROVE  Fits(q)' /\ FlowStep(q)
<1> USE DEF flagVars, workVars, cancelVars
<1> DEFINE r == started + 1
           R == IF src = 0 THEN {} ELSE {s \in Stage : Reusable(stage[src][s])}
<1>0. Fits(q)
  BY DEF Coherent, Fits
<1>1. q \in Int /\ started \in Int /\ r \in RunId /\ started' = r
  BY BoundAssumption DEF Start, RunId, TypeOK
<1>2. CASE q # r
  <2>1. (started' < q) = (started < q)
    BY <1>1, <1>2
  <2>2. Still(q)
    BY <1>2, <2>1 DEF Start, TypeOK, Still
  <2> QED
    BY <1>0, <2>2, StillFits
<1>3. CASE q = r
  <2>1. /\ ~cancelled[q] /\ ~finished[q] /\ scheduler[q] = "unborn"
        /\ q > started /\ q <= started'
        /\ \A s \in Stage : stage[q][s] = "queued"
    BY <1>0, <1>1, <1>3 DEF Fits, SchedulerFits
  <2>2. stage'[q] = [s \in Stage |-> IF s \in R THEN "reused" ELSE "queued"]
    BY <1>1, <1>3 DEF Start, TypeOK
  <2>3. \A s \in R : Needs[s] \subseteq R
    <3> SUFFICES ASSUME NEW s \in R, NEW n \in Needs[s] PROVE n \in R
      OBVIOUS
    <3>1. src \in RunId /\ s \in Stage /\ stage[src][s] \in Good
      BY DEF Reusable
    <3>2. NeedsHeld(src) /\ n \in Stage
      BY <3>1, PipelineAssumption DEF Coherent
    <3> QED
      BY <3>1, <3>2 DEF NeedsHeld, Reusable
  <2>4. /\ UNCHANGED <<worker, cancelled, finished, stopped, canceller>>
        /\ scheduler'[q] = "published"
    BY <1>1, <1>3 DEF Start, TypeOK
  <2>5. SchedulerFits(q)'
    BY <1>0, <1>1, <1>3, <2>1, <2>4 DEF Fits, SchedulerFits
  <2>6. NeedsHeld(q)'
    BY <2>2, <2>3, PipelineAssumption DEF NeedsHeld, Good, Active
  <2>7. ASSUME NEW s \in Stage PROVE WorkerFits(q, s)'
    <3>1. stage'[q][s] \in {"reused", "queued"} /\ worker'[q][s] = worker[q][s]
      BY <2>2, <2>4
    <3>2. WorkerFits(q, s) /\ stage[q][s] = "queued"
      BY <1>0, <2>1 DEF Fits
    <3> QED
      BY <3>1, <3>2 DEF WorkerFits, Active
  <2>8. FlowStep(q)
    <3>1. PhaseOf(q) = "unborn" /\ PhaseOf(q)' = "live" /\ cancelled'[q] = cancelled[q]
      BY <1>1, <2>1, <2>4 DEF PhaseOf
    <3>2. R \in SUBSET Stage
      OBVIOUS
    <3> HIDE DEF R
    <3>3. RunFlow(q)!Start
      BY <2>2, <2>3, <3>1, <3>2 DEF RunFlow!Start
    <3> QED
      BY <3>3 DEF FlowStep, RunFlow!Next
  <2> QED
    BY <2>5, <2>6, <2>7, <2>8 DEF Fits
<1> QED
  BY <1>2, <1>3

LEMMA CancelFits ==
  ASSUME TypeOK, TypeOK', Coherent, NEW r \in RunId, Cancel(r) \/ CancelOn(r),
         NEW q \in RunId
  PROVE  Fits(q)' /\ FlowStep(q)
<1> USE DEF startVars, stageVars, flagVars, workVars, decideVars, cancelVars
<1>0. Fits(q)
  BY DEF Coherent, Fits
<1>1. UNCHANGED <<stage, worker, finished, scheduler, started>>
  BY DEF Cancel, CancelOn, CancelContext, CancelNudge
<1>2. NeedsHeld(q)'
  BY <1>0, <1>1 DEF Fits, NeedsHeld
<1>3. CASE Cancel(r)
  <2>1. /\ \A p \in RunId \ {r} :
             cancelled'[p] = cancelled[p] /\ canceller'[p] = canceller[p]
        /\ cancelled'[r] /\ ~finished[r] /\ r <= started
        /\ stopped' = stopped
    BY <1>3 DEF Cancel, Cancellable, Listed, TypeOK
  <2>2. r \in Int /\ started \in Int
    BY BoundAssumption DEF RunId, TypeOK
  <2>3. SchedulerFits(q)'
    BY <1>0, <1>1, <2>1, <2>2 DEF Fits, SchedulerFits
  <2>4. \A s \in Stage : WorkerFits(q, s)'
    BY <1>0, <1>1, <2>1 DEF Fits, WorkerFits
  <2>5. FlowStep(q)
    <3>1. CASE q = r
      <4>1. PhaseOf(q) = "live" /\ PhaseOf(q)' = "live" /\ cancelled'[q] = TRUE
        BY <1>1, <2>1, <3>1 DEF PhaseOf, TypeOK
      <4>2. RunFlow(q)!Cancel
        BY <1>1, <4>1 DEF RunFlow!Cancel
      <4> QED
        BY <4>2 DEF FlowStep, RunFlow!Next
    <3>2. CASE q # r
      BY <1>1, <2>1, <3>2 DEF FlowStep, RunFlow!vars, PhaseOf
    <3> QED
      BY <3>1, <3>2
  <2> QED
    BY <1>2, <2>3, <2>4, <2>5 DEF Fits
<1>4. CASE CancelOn(r)
  <2>1. /\ cancelled' = cancelled
        /\ \/ canceller'[q] = canceller[q]
           \/ canceller[q] # "none"
        /\ \/ stopped'[q] = stopped[q]
           \/ canceller[q] # "none"
    BY <1>4 DEF CancelOn, CancelContext, CancelNudge, TypeOK
  <2>2. SchedulerFits(q)'
    BY <1>0, <1>1, <2>1 DEF Fits, SchedulerFits
  <2>3. \A s \in Stage : WorkerFits(q, s)'
    BY <1>0, <1>1, <2>1 DEF Fits, WorkerFits
  <2>4. FlowStep(q)
    BY <1>1, <2>1 DEF FlowStep, RunFlow!vars, PhaseOf
  <2> QED
    BY <1>2, <2>2, <2>3, <2>4 DEF Fits
<1> QED
  BY <1>3, <1>4

LEMMA CoherentInit == Init => Coherent /\ \A q \in RunId : RunFlow(q)!Init
<1> SUFFICES ASSUME Init, NEW q \in RunId
             PROVE  /\ SchedulerFits(q)
                    /\ NeedsHeld(q)
                    /\ \A s \in Stage : WorkerFits(q, s)
                    /\ RunFlow(q)!Init
  BY DEF Coherent
<1>1. q \in Int /\ q > 0
  BY BoundAssumption DEF RunId
<1>2. SchedulerFits(q)
  BY <1>1 DEF Init, SchedulerFits
<1>3. NeedsHeld(q)
  BY DEF Init, NeedsHeld, Good, Active
<1>4. \A s \in Stage : WorkerFits(q, s)
  BY DEF Init, WorkerFits, Active
<1>5. RunFlow(q)!Init
  BY <1>1 DEF Init, RunFlow!Init, PhaseOf
<1> QED
  BY <1>2, <1>3, <1>4, <1>5

LEMMA NextFits ==
  ASSUME TypeOK, Coherent, [Next]_vars, NEW q \in RunId
  PROVE  Fits(q)' /\ FlowStep(q)
<1> USE DEF startVars, stageVars, flagVars, workVars, decideVars, cancelVars
<1>0. Fits(q) /\ TypeOK'
  BY TypeNext DEF Coherent, Fits
<1>1. CASE \E src \in RunId \cup {0} : Start(src)
  BY <1>0, <1>1, StartFits
<1>2. ASSUME NEW r \in RunId, Schedule(r) PROVE Fits(q)' /\ FlowStep(q)
  BY <1>0, <1>2, ScheduleFits
<1>3. ASSUME NEW r \in RunId, NEW s \in Stage, Work(r, s)
      PROVE  Fits(q)' /\ FlowStep(q)
  BY <1>0, <1>3, WorkFits
<1>4. ASSUME NEW r \in RunId, Cancel(r) \/ CancelOn(r)
      PROVE  Fits(q)' /\ FlowStep(q)
  BY <1>0, <1>4, CancelFits
\* The other steps move no stage.
<1>5. ASSUME NEW r \in RunId, NEW s \in Stage, Deadline(r, s)
      PROVE  Fits(q)' /\ FlowStep(q)
  BY <1>0, <1>5, StillFits DEF Deadline, Still
<1>6. ASSUME NEW r \in RunId, NEW s \in Stage, NEW d \in Decision, Decide(r, s, d)
      PROVE  Fits(q)' /\ FlowStep(q)
  BY <1>0, <1>6, StillFits DEF Decide, Still
<1>7. ASSUME NEW d \in deciders, Deliver(d) PROVE Fits(q)' /\ FlowStep(q)
  BY <1>0, <1>7, StillFits DEF Deliver, Still
<1>8. CASE UNCHANGED vars
  BY <1>0, <1>8, StillFits DEF vars, Still
<1> QED
  BY <1>1, <1>2, <1>3, <1>4, <1>5, <1>6, <1>7, <1>8 DEF Next

LEMMA NextCoherent ==
  ASSUME TypeOK, Coherent, [Next]_vars
  PROVE  /\ Coherent'
         /\ \A r \in RunId : [RunFlow(r)!Next]_(RunFlow(r)!vars)
<1>1. \A q \in RunId : Fits(q)' /\ FlowStep(q)
  BY NextFits
<1> QED
  BY <1>1 DEF Coherent, Fits, FlowStep

\* Goroutines, flags and stages of every run fit together (runStage, schedule).
THEOREM RunsCoherent == Spec => []Coherent
BY CoherentInit, NextCoherent, TypeInit, TypeNext, PTL DEF Spec

\* Every run, of every pipeline, does what the abstract Workflow promises:
\* stages start, end, are skipped and are cancelled as README "Pipelines" says.
THEOREM RunsAreWorkflows == Spec => ImplementsWorkflow
<1>1. Init => \A r \in RunId : RunFlow(r)!Init
  BY CoherentInit
<1>2. TypeOK /\ Coherent /\ [Next]_vars =>
        [\A r \in RunId : [RunFlow(r)!Next]_(RunFlow(r)!vars)]_vars
  BY NextCoherent
<1> QED
  BY <1>1, <1>2, TypeCorrect, RunsCoherent, PTL DEF Spec, ImplementsWorkflow

-----------------------------------------------------------------------------
(* No stage is forgotten.  A step that moves a stage, or cancels the run,  *)
(* leaves a token, or somebody who is about to leave one.                  *)

Remembers(q) ==
  scheduler[q] = "idle" /\ ~Notified(q) =>
    /\ \A s \in Queued(q) : ~Movable(q, s)
    /\ \E s \in Stage : stage[q][s] \in Active

\* Nothing the scheduler of q would have to be told of.
Unseen(q) ==
  /\ scheduler'[q] = scheduler[q]
  /\ wake'[q] = wake[q]
  /\ canceller'[q] = canceller[q]
  /\ cancelled'[q] = cancelled[q]
  /\ stage'[q] = stage[q]
  /\ \A s \in Stage : worker[q][s] = "nudge" => worker'[q][s] = "nudge"

LEMMA UnseenRemembers ==
  ASSUME NEW q \in RunId, Remembers(q), Unseen(q)
  PROVE  Remembers(q)'
<1>1. Notified(q) => Notified(q)'
  BY DEF Unseen, Notified
<1>2. Queued(q)' = Queued(q)
  BY DEF Unseen, Queued
<1>3. \A s \in Stage : Movable(q, s)' = Movable(q, s)
  BY DEF Unseen, Movable
<1>4. \A s \in Queued(q) : s \in Stage
  BY DEF Queued
<1> QED
  BY <1>1, <1>2, <1>3, <1>4 DEF Remembers, Unseen

LEMMA NotifiedRemembers ==
  ASSUME NEW q \in RunId, scheduler'[q] # "idle" \/ Notified(q)'
  PROVE  Remembers(q)'
BY DEF Remembers

LEMMA ScanRemembers ==
  ASSUME TypeOK, TypeOK', NEW r \in RunId, NEW q \in RunId, Remembers(q),
         NEW gone, NEW S, NEW go, Passes(r, gone, S, go),
         \/ cancelled[r] /\ gone = Queued(r) /\ S = {}
         \/ ~cancelled[r] /\ gone = {} /\ Skips(r, S)
  PROVE  Remembers(q)'
<1>1. CASE q # r
  <2>1. Unseen(q)
    BY <1>1 DEF Passes, Unseen
  <2> QED
    BY <2>1, UnseenRemembers
<1>2. CASE q = r
  <2> SUFFICES ASSUME scheduler'[q] = "idle", ~Notified(q)'
               PROVE  /\ \A s \in Queued(q)' : ~Movable(q, s)'
                      /\ \E s \in Stage : stage'[q][s] \in Active
    BY DEF Remembers
  <2>1. ~wake'[q]
    BY DEF Notified
  <2>2. \E s \in Stage : stage'[q][s] \in Active
    BY <1>2, <2>1 DEF Passes
  <2>3. S = {}
    BY <1>2, <2>1 DEF Passes
  <2>4. ASSUME NEW s \in Queued(q)' PROVE ~Movable(q, s)'
    <3>1. s \in Stage /\ stage'[q][s] = "queued"
      BY <2>4 DEF Queued
    <3>2. s \notin gone \cup go /\ stage[q][s] = "queued" /\ s \in Queued(q)
      BY <1>2, <2>3, <3>1 DEF Passes, Queued
    <3>3. ~cancelled[q] /\ gone = {} /\ Skips(q, {})
      BY <1>2, <2>3, <3>2
    <3>4. ~Ready(q, s)
      BY <1>2, <2>3, <3>2, <3>3 DEF Passes
    <3>5. Needs[s] \subseteq Stage
      BY <3>1, PipelineAssumption
    <3>6. \A n \in Needs[s] : stage[q][n] \notin Bad
      BY <3>2, <3>3 DEF Skips
    <3>7. \A n \in Needs[s] :
            \/ stage'[q][n] = stage[q][n]
            \/ stage[q][n] = "queued" /\ stage'[q][n] = "running"
      BY <1>2, <2>3, <3>3, <3>5 DEF Passes, Queued
    <3>8. \A n \in Needs[s] :
            /\ stage'[q][n] \notin Bad
            /\ stage'[q][n] \in Good => stage[q][n] \in Good
      BY <3>6, <3>7 DEF Good, Bad
    <3>9. ~cancelled'[q]
      BY <3>3 DEF Passes
    <3> QED
      BY <3>4, <3>8, <3>9 DEF Ready, Movable
  <2> QED
    BY <2>2, <2>4
<1> QED
  BY <1>1, <1>2

LEMMA WorkRemembers ==
  ASSUME TypeOK, NEW r \in RunId, NEW s \in Stage, Work(r, s),
         NEW q \in RunId, Remembers(q)
  PROVE  Remembers(q)'
<1> USE DEF startVars, stageVars, flagVars, workVars, decideVars, cancelVars,
            SetStage, Continue, Finish
\* Somebody is told, or is about to be.
<1>1. ASSUME wake' = [wake EXCEPT ![r] = TRUE] \/ worker'[r][s] = "nudge",
             q = r
      PROVE  Remembers(q)'
  <2>1. Notified(q)'
    BY <1>1 DEF Notified, TypeOK
  <2> QED
    BY <2>1, NotifiedRemembers
<1>2. CASE q # r
  <2>1. /\ stage'[q] = stage[q] /\ worker'[q] = worker[q] /\ wake'[q] = wake[q]
        /\ UNCHANGED <<scheduler, canceller, cancelled>>
    BY <1>2 DEF Work, DeployApp, DeployEnds, DeployDone, PollApp, GateNoGo, GateGo,
       GateWaits, PollAgain, Offer, DecisionTaken, Stopping, Expiring, Withdraw,
       Report, Nudge, Nudged, TypeOK
  <2> QED
    BY <2>1, UnseenRemembers DEF Unseen
<1>3. CASE q = r /\ (DeployApp(r, s) \/ DeployEnds(r, s) \/ PollApp(r, s) \/
                     GateWaits(r, s) \/ Offer(r, s) \/ Report(r, s))
  BY <1>1, <1>3 DEF DeployApp, DeployEnds, PollApp, GateWaits, Offer, Report,
     Nudge, Nudged
<1>4. CASE q = r /\ (DeployDone(r, s) \/ GateNoGo(r, s) \/ GateGo(r, s) \/
                     DecisionTaken(r, s) \/ Withdraw(r, s))
  <2>1. worker' = [worker EXCEPT ![r][s] = "nudge"]
    BY <1>4 DEF DeployDone, GateNoGo, GateGo, DecisionTaken, Withdraw
  <2> QED
    BY <1>1, <1>4, <2>1 DEF TypeOK
<1>5. CASE q = r /\ (PollAgain(r, s) \/ Stopping(r, s) \/ Expiring(r, s))
  <2>1. PICK pc : worker' = [worker EXCEPT ![r][s] = pc]
    BY <1>5 DEF PollAgain, Stopping, Expiring
  <2>2. /\ worker[r][s] = "wait"
        /\ UNCHANGED <<scheduler, wake, canceller, cancelled, stage>>
    BY <1>5 DEF PollAgain, Stopping, Expiring
  <2>3. Unseen(q)
    BY <1>5, <2>1, <2>2 DEF Unseen, TypeOK
  <2> QED
    BY <2>3, UnseenRemembers
<1> QED
  BY <1>2, <1>3, <1>4, <1>5 DEF Work

LEMMA NextRemembers ==
  ASSUME TypeOK, [Next]_vars, NEW q \in RunId, Remembers(q)
  PROVE  Remembers(q)'
<1> USE DEF startVars, stageVars, flagVars, workVars, decideVars, cancelVars
<1>0. TypeOK'
  BY TypeNext
<1>1. ASSUME NEW src \in RunId \cup {0}, Start(src) PROVE Remembers(q)'
  <2>1. CASE q = started + 1
    <3>1. scheduler'[q] = "published"
      BY <1>1, <2>1 DEF Start, TypeOK
    <3> QED
      BY <3>1, NotifiedRemembers
  <2>2. CASE q # started + 1
    <3>1. Unseen(q)
      BY <1>1, <2>2 DEF Start, Unseen, TypeOK
    <3> QED
      BY <3>1, UnseenRemembers
  <2> QED
    BY <2>1, <2>2
<1>2. ASSUME NEW r \in RunId, Launch(r) \/ Awake(r) \/ Drained(r)
      PROVE  Remembers(q)'
  <2>1. CASE q = r
    <3>1. scheduler'[q] # "idle"
      BY <1>2, <2>1 DEF Launch, Awake, Drained, TypeOK
    <3> QED
      BY <3>1, NotifiedRemembers
  <2>2. CASE q # r
    <3>1. Unseen(q)
      BY <1>2, <2>2 DEF Launch, Awake, Drained, Unseen, TypeOK
    <3> QED
      BY <3>1, UnseenRemembers
  <2> QED
    BY <2>1, <2>2
<1>3. ASSUME NEW r \in RunId, Scan(r) PROVE Remembers(q)'
  <2>1. UNCHANGED <<startVars, cancelled, stopped, cancelVars>>
    BY <1>3 DEF Scan
  <2>2. CASE cancelled[r] /\ Pass(r, Queued(r), {})
    <3> DEFINE go == {s \in Queued(r) \ ({} \cup Queued(r)) : Ready(r, s)}
    <3>1. Passes(r, Queued(r), {}, go)
      BY <2>1, <2>2, PassPasses
    <3> HIDE DEF go
    <3> QED
      BY <1>0, <2>2, <3>1, ScanRemembers
  <2>3. ASSUME ~cancelled[r], NEW S \in SUBSET Queued(r), Skips(r, S), Pass(r, {}, S)
        PROVE  Remembers(q)'
    <3> DEFINE go == {s \in Queued(r) \ (S \cup {}) : Ready(r, s)}
    <3>1. Passes(r, {}, S, go)
      BY <2>1, <2>3, PassPasses
    <3> HIDE DEF go
    <3> QED
      BY <1>0, <2>3, <3>1, ScanRemembers
  <2> QED
    BY <1>3, <2>2, <2>3 DEF Scan
<1>4. ASSUME NEW r \in RunId, NEW s \in Stage, Work(r, s) PROVE Remembers(q)'
  BY <1>4, WorkRemembers
<1>5. ASSUME NEW r \in RunId, Cancel(r) \/ CancelOn(r) PROVE Remembers(q)'
  <2>1. CASE q # r
    <3>1. Unseen(q)
      BY <1>5, <2>1
      DEF Cancel, CancelOn, CancelContext, CancelNudge, Nudge, Unseen, TypeOK
    <3> QED
      BY <3>1, UnseenRemembers
  <2>2. CASE q = r
    <3>1. \/ canceller'[q] # "none" \/ wake'[q]
          \/ scheduler'[q] = "published"
      BY <1>5, <2>2 DEF Cancel, CancelOn, CancelContext, CancelNudge, Nudge, TypeOK
    <3> QED
      BY <3>1, NotifiedRemembers DEF Notified
  <2> QED
    BY <2>1, <2>2
<1>6. ASSUME \/ \E r \in RunId, s \in Stage : Deadline(r, s)
             \/ \E r \in RunId, s \in Stage, d \in Decision : Decide(r, s, d)
             \/ \E d \in deciders : Deliver(d)
             \/ UNCHANGED vars
      PROVE  Remembers(q)'
  <2>1. Unseen(q)
    BY <1>6 DEF Deadline, Decide, Deliver, vars, Unseen
  <2> QED
    BY <2>1, UnseenRemembers
<1> QED
  BY <1>1, <1>2, <1>3, <1>4, <1>5, <1>6 DEF Next, Schedule

\* A scheduler asleep with nothing to wake it has nothing to do: the nudges of
\* schedule, runStage's workers and Cancel suffice, for every pipeline.
THEOREM NoneForgotten == Spec => []NoStageForgotten
<1> DEFINE Inv == \A q \in RunId : Remembers(q)
<1>1. Init => Inv
  BY DEF Init, Remembers
<1>2. TypeOK /\ Inv /\ [Next]_vars => Inv'
  BY NextRemembers
<1>3. Inv => NoStageForgotten
  BY DEF Remembers, NoStageForgotten
<1> HIDE DEF Inv
<1> QED
  BY <1>1, <1>2, <1>3, TypeCorrect, PTL DEF Spec

-----------------------------------------------------------------------------
(* Verdicts and reuse. *)

\* What succeeded, or is reused, stays so; only a start makes a stage reused.
LEMMA GoodStays ==
  ASSUME TypeOK, Coherent, NEW q \in RunId, FlowStep(q), NEW s \in Stage,
         stage[q][s] \in Good
  PROVE  stage'[q][s] = stage[q][s]
<1> USE DEF FlowStep, RunFlow!vars, RunFlow!Next
<1>1. CASE stage'[q] = stage[q]
  BY <1>1
<1>2. CASE RunFlow(q)!Start
  <2>1. q > started
    BY <1>2, BoundAssumption DEF RunFlow!Start, PhaseOf, TypeOK, RunId
  <2>2. SchedulerFits(q)
    BY DEF Coherent
  <2> QED
    BY <2>1, <2>2 DEF SchedulerFits, Good
<1>3. CASE RunFlow(q)!Advance
  BY <1>3 DEF RunFlow!Advance, RunFlow!Moves, RunFlow!Progresses, Good
<1>4. CASE RunFlow(q)!Cancel
  BY <1>4 DEF RunFlow!Cancel
<1> QED
  BY <1>1, <1>2, <1>3, <1>4

\* The status a finished run reports never changes again (statusLocked).
THEOREM VerdictsStand == Spec => VerdictStands
<1>1. ASSUME TypeOK, Coherent, [Next]_vars, NEW q \in RunId, finished[q]
      PROVE  RunStatus(q)' = RunStatus(q)
  <2>1. FlowStep(q)
    BY <1>1, NextFits
  <2>2. PhaseOf(q) = "finished"
    BY <1>1 DEF PhaseOf
  <2>3. UNCHANGED <<stage[q], cancelled[q], PhaseOf(q)>>
    BY <2>1, <2>2 DEF FlowStep, RunFlow!vars, RunFlow!Next, RunFlow!Start,
       RunFlow!Advance, RunFlow!Cancel
  <2>4. finished'[q]
    BY <2>2, <2>3 DEF PhaseOf
  <2> QED
    BY <1>1, <2>3, <2>4 DEF RunStatus
<1>2. TypeOK /\ Coherent /\ [Next]_vars =>
        [\A r \in RunId : finished[r] => RunStatus(r)' = RunStatus(r)]_vars
  BY <1>1
<1> QED
  BY <1>2, TypeCorrect, RunsCoherent, PTL DEF Spec, VerdictStands

LEMMA OnlyStartStarts ==
  ASSUME [Next]_vars
  PROVE  (\E src \in RunId \cup {0} : Start(src)) \/ UNCHANGED startVars
<1>1. \A r \in RunId : Schedule(r) \/ Cancel(r) \/ CancelOn(r) => UNCHANGED startVars
  BY DEF Schedule, Launch, Scan, Awake, Drained, Cancel, CancelOn, CancelContext,
     CancelNudge
<1>2. \A r \in RunId, s \in Stage : Work(r, s) \/ Deadline(r, s) => UNCHANGED startVars
  BY DEF Work, DeployApp, DeployEnds, DeployDone, PollApp, GateNoGo, GateGo,
     GateWaits, PollAgain, Offer, DecisionTaken, Stopping, Expiring, Withdraw,
     Report, Deadline
<1>3. \A r \in RunId, s \in Stage, d \in Decision : Decide(r, s, d) => UNCHANGED startVars
  BY DEF Decide
<1>4. \A d \in deciders : Deliver(d) => UNCHANGED startVars
  BY DEF Deliver
<1>5. UNCHANGED vars => UNCHANGED startVars
  BY DEF vars
<1> QED
  BY <1>1, <1>2, <1>3, <1>4, <1>5 DEF Next

Backed(q) ==
  \A s \in Stage : stage[q][s] = "reused" =>
    source[q] \in 1 .. q - 1 /\ stage[source[q]][s] \in Good

\* What a rerun reuses did succeed in the run it reruns, and stays so (Start).
THEOREM ReusesBacked == Spec => []ReuseIsBacked
<1> DEFINE Inv == \A q \in RunId : Backed(q)
<1>1. Init => Inv
  BY DEF Init, Backed
<1>2. ASSUME TypeOK, Coherent, Inv, [Next]_vars, NEW q \in RunId PROVE Backed(q)'
  <2>1. \A p \in RunId : FlowStep(p)
    BY <1>2, NextFits
  <2>2. \A p \in RunId, s \in Stage :
          stage[p][s] \in Good => stage'[p][s] = stage[p][s]
    BY <1>2, <2>1, GoodStays
  <2>3. CASE \E src \in RunId \cup {0} : Start(src) /\ q = started + 1
    <3>1. PICK src \in RunId \cup {0} : Start(src) /\ q = started + 1
      BY <2>3
    <3>2. src # 0 => src \in 1 .. q - 1
      BY <1>2, <3>1, BoundAssumption DEF Start, Listed, RunId, TypeOK
    <3>3. source'[q] = src
      BY <1>2, <3>1 DEF Start, TypeOK
    <3>4. \A s \in Stage : stage'[q][s] = "reused" =>
            src # 0 /\ stage[src][s] \in Good
      BY <1>2, <3>1 DEF Start, Reusable, TypeOK
    <3> QED
      BY <2>2, <3>2, <3>3, <3>4 DEF Backed
  <2>4. CASE ~\E src \in RunId \cup {0} : Start(src) /\ q = started + 1
    <3>1. source'[q] = source[q]
      BY <1>2, <2>4, OnlyStartStarts DEF Start, startVars, TypeOK
    <3>2. \A s \in Stage : stage'[q][s] = "reused" => stage[q][s] = "reused"
      <4>1. ~RunFlow(q)!Start
        <5>1. started' = started \/ (started' = started + 1 /\ q # started + 1)
          BY <1>2, <2>4, OnlyStartStarts DEF Start, startVars
        <5> QED
          BY <1>2, <5>1, BoundAssumption DEF RunFlow!Start, PhaseOf, TypeOK, RunId
      <4> QED
        BY <2>1, <4>1 DEF FlowStep, RunFlow!vars, RunFlow!Next, RunFlow!Advance,
           RunFlow!Moves, RunFlow!Progresses, RunFlow!Starts, RunFlow!IsSkipped,
           RunFlow!IsCancelled, RunFlow!Cancel
    <3>3. q \in Nat
      BY <1>2, BoundAssumption DEF RunId
    <3>4. \A p \in 1 .. q - 1 : p \in RunId
      BY BoundAssumption DEF RunId
    <3> QED
      BY <1>2, <2>2, <3>1, <3>2, <3>3, <3>4 DEF Backed
  <2> QED
    BY <2>3, <2>4
<1>3. Inv => ReuseIsBacked
  BY DEF Backed, ReuseIsBacked
<1>4. TypeOK /\ Coherent /\ Inv /\ [Next]_vars => Inv'
  BY <1>2
<1> HIDE DEF Inv
<1> QED
  BY <1>1, <1>3, <1>4, TypeCorrect, RunsCoherent, PTL DEF Spec

-----------------------------------------------------------------------------
(* Decisions and successes: one decision at most reaches a stage, and a    *)
(* stage that succeeded earned it.                                         *)


\* The calls of Decide that were accepted for a stage.
OnDesk(q, t) == {d \in deciders : d.run = q /\ d.stage = t}
Blank(q, t) ==
  t \notin decisions[q] /\ box[q][t] = "empty" /\ OnDesk(q, t) = {} /\ audit[q][t] = {}

\* A decision is on offer, then on somebody's desk, then in the channel, then
\* taken: in one place at most, and the audit ledger names it.
OneDecision(q, t) ==
  /\ stage[q][t] = "queued" \/ worker[q][t] = "begin" \/ Type[t] # "approval" =>
       Blank(q, t)
  /\ t \in decisions[q] => /\ worker[q][t] \in {"wait", "stopping", "expiring"}
                           /\ box[q][t] = "empty"
                           /\ OnDesk(q, t) = {}
                           /\ audit[q][t] = {}
  /\ box[q][t] # "empty" => OnDesk(q, t) = {} /\ audit[q][t] = {box[q][t]}
  /\ \A d \in OnDesk(q, t) : audit[q][t] = {d.decision}

\* Workers run the code of their stage's type.
RightCode(q, t) ==
  /\ worker[q][t] = "deploy" => Type[t] = "deploy"
  /\ worker[q][t] = "poll" => Type[t] = "gate"
  /\ worker[q][t] = "begin" => Type[t] = "approval"

Earned(q, t) ==
  /\ worker[q][t] = "poll" => \A a \in StageApps(t) \ unpolled[q][t] :
       item[q][t][a] \in {"success", "failed", "waiting"}
  /\ stage[q][t] = "success" =>
       IF Type[t] = "approval" THEN audit[q][t] = {"approve"}
       ELSE Items(q, t) \subseteq {"success"}

InOrder(q, t) == OneDecision(q, t) /\ RightCode(q, t) /\ Earned(q, t)

\* Nothing that matters to stage t of run q changes.
Aside(q, t) ==
  /\ stage'[q][t] = stage[q][t]
  /\ worker'[q][t] = worker[q][t]
  /\ item'[q][t] = item[q][t]
  /\ unpolled'[q][t] = unpolled[q][t]
  /\ box'[q][t] = box[q][t]
  /\ audit'[q][t] = audit[q][t]
  /\ (t \in decisions'[q]) = (t \in decisions[q])
  /\ OnDesk(q, t)' = OnDesk(q, t)

LEMMA AsideInOrder ==
  ASSUME NEW q \in RunId, NEW t \in Stage, InOrder(q, t), Aside(q, t)
  PROVE  InOrder(q, t)'
<1>1. OneDecision(q, t)'
  BY DEF InOrder, OneDecision, Aside, Blank
<1>2. RightCode(q, t)'
  BY DEF InOrder, RightCode, Aside
<1>3. Earned(q, t)'
  BY SMTT(40) DEF InOrder, Earned, Aside, Items
<1> QED
  BY <1>1, <1>2, <1>3 DEF InOrder

\* What only the worker of a stage touches.
Desk(q, t) == /\ box'[q][t] = box[q][t]
              /\ audit'[q][t] = audit[q][t]
              /\ (t \in decisions'[q]) = (t \in decisions[q])
              /\ OnDesk(q, t)' = OnDesk(q, t)

LEMMA StartInOrder ==
  ASSUME TypeOK, Coherent, NEW src \in RunId \cup {0}, Start(src),
         NEW q \in RunId, NEW t \in Stage, InOrder(q, t)
  PROVE  InOrder(q, t)'
<1> USE DEF workVars, decideVars
<1>1. Desk(q, t)
  BY DEF Start, Desk, OnDesk
<1>2. CASE q # started + 1
  <2>1. Aside(q, t)
    BY <1>1, <1>2 DEF Start, TypeOK, Aside, Desk
  <2> QED
    BY <2>1, AsideInOrder
<1>3. CASE q = started + 1
  <2>1. q > started /\ SchedulerFits(q) /\ WorkerFits(q, t)
    BY <1>3, BoundAssumption DEF Coherent, RunId, TypeOK
  <2>2. stage[q][t] = "queued"
    BY <2>1 DEF SchedulerFits
  <2>3. /\ stage'[q][t] \in {"reused", "queued"}
        /\ worker'[q][t] = worker[q][t] /\ worker[q][t] \notin Working
    BY <1>3, <2>1, <2>2 DEF Start, TypeOK, WorkerFits, Working, Active
  <2>4. Blank(q, t) /\ Blank(q, t)'
    BY <1>1, <2>2 DEF InOrder, OneDecision, Blank, Desk
  <2> QED
    BY <2>3, <2>4 DEF InOrder, OneDecision, RightCode, Earned, Blank, Working
<1> QED
  BY <1>2, <1>3

LEMMA PassInOrder ==
  ASSUME TypeOK, Coherent, NEW r \in RunId,
         NEW gone \in SUBSET Queued(r), NEW S \in SUBSET Queued(r), gone \cap S = {},
         Pass(r, gone, S), UNCHANGED <<startVars, cancelled, stopped, cancelVars>>,
         UNCHANGED decideVars,
         NEW q \in RunId, NEW t \in Stage, InOrder(q, t)
  PROVE  InOrder(q, t)'
<1> DEFINE go == {s \in Queued(r) \ (S \cup gone) : Ready(r, s)}
<1> USE DEF decideVars
<1>1. Passes(r, gone, S, go)
  BY PassPasses
<1>2. /\ item' = [item EXCEPT ![r] = [s \in Stage |->
           IF s \in S THEN [a \in App |-> "skipped"] ELSE item[r][s]]]
      /\ worker' = [worker EXCEPT ![r] = [s \in Stage |->
           IF s \in go THEN FirstStep(s) ELSE worker[r][s]]]
      /\ unpolled' = [unpolled EXCEPT ![r] = [s \in Stage |->
           IF s \in go THEN StageApps(s) ELSE unpolled[r][s]]]
  BY Zenon DEF Pass
<1> HIDE DEF go
<1>3. Desk(q, t)
  BY DEF Desk, OnDesk
<1>4. CASE q # r \/ t \notin gone \cup S \cup go
  <2>1. item'[q][t] = item[q][t] /\ unpolled'[q][t] = unpolled[q][t]
    BY <1>2, <1>4 DEF TypeOK
  <2>2. stage'[q][t] = stage[q][t] /\ worker'[q][t] = worker[q][t]
    BY <1>1, <1>4 DEF Passes
  <2> QED
    BY <1>3, <2>1, <2>2, AsideInOrder DEF Aside, Desk
<1>5. CASE q = r /\ t \in gone \cup S \cup go
  <2>1. stage[q][t] = "queued" /\ WorkerFits(q, t)
    BY <1>1, <1>5 DEF Passes, Queued, Coherent
  <2>2. Blank(q, t)'
    BY <1>3, <2>1 DEF InOrder, OneDecision, Blank, Desk
  <2>3. OneDecision(q, t)'
    BY <2>2 DEF OneDecision, Blank
  <2>4. CASE t \in go
    <3>1. /\ worker'[q][t] = FirstStep(t) /\ unpolled'[q][t] = StageApps(t)
          /\ stage'[q][t] = "running"
      BY <1>1, <1>2, <1>5, <2>4 DEF Passes, TypeOK
    <3>2. RightCode(q, t)' /\ Earned(q, t)'
      BY <3>1, PipelineAssumption DEF RightCode, Earned, FirstStep
    <3> QED
      BY <2>3, <3>2 DEF InOrder
  <2>5. CASE t \notin go
    <3>1. /\ worker'[q][t] = worker[q][t] /\ worker[q][t] \notin Working
          /\ stage'[q][t] \in {"cancelled", "skipped"}
      BY <1>1, <1>5, <2>1, <2>5 DEF Passes, WorkerFits, Working, Active
    <3>2. RightCode(q, t)' /\ Earned(q, t)'
      BY <3>1 DEF RightCode, Earned, Working
    <3> QED
      BY <2>3, <3>2 DEF InOrder
  <2> QED
    BY <2>4, <2>5
<1> QED
  BY <1>4, <1>5

LEMMA WorkInOrder ==
  ASSUME TypeOK, Coherent, NEW r \in RunId, NEW s \in Stage, Work(r, s),
         NEW q \in RunId, NEW t \in Stage, InOrder(q, t)
  PROVE  InOrder(q, t)'
<1> USE DEF startVars, stageVars, flagVars, workVars, decideVars, cancelVars,
            SetStage, SetItem, Continue, Finish
<1>1. CASE <<q, t>> # <<r, s>>
  <2>1. stage'[q][t] = stage[q][t] /\ worker'[q][t] = worker[q][t]
    BY <1>1 DEF Work, DeployApp, DeployEnds, DeployDone, PollApp, GateNoGo, GateGo,
       GateWaits, PollAgain, Offer, DecisionTaken, Stopping, Expiring, Withdraw,
       Report, TypeOK
  <2>2. item'[q][t] = item[q][t] /\ unpolled'[q][t] = unpolled[q][t]
    BY <1>1 DEF Work, DeployApp, DeployEnds, DeployDone, PollApp, GateNoGo, GateGo,
       GateWaits, PollAgain, Offer, DecisionTaken, Stopping, Expiring, Withdraw,
       Report, TypeOK
  <2>3. /\ box'[q][t] = box[q][t] /\ audit' = audit /\ deciders' = deciders
        /\ (t \in decisions'[q]) = (t \in decisions[q])
    BY <1>1 DEF Work, DeployApp, DeployEnds, DeployDone, PollApp, GateNoGo, GateGo,
       GateWaits, PollAgain, Offer, DecisionTaken, Stopping, Expiring, Withdraw,
       Report, TypeOK
  <2> QED
    BY <2>1, <2>2, <2>3, AsideInOrder DEF Aside, OnDesk
<1>2. CASE q = r /\ t = s
  <2>0. WorkerFits(r, s) /\ OneDecision(r, s) /\ RightCode(r, s) /\ Earned(r, s)
    BY <1>2 DEF Coherent, InOrder
  <2>1. CASE DeployApp(r, s) \/ DeployEnds(r, s)
    <3>1. /\ stage' = stage /\ worker' = worker /\ unpolled' = unpolled
          /\ UNCHANGED decideVars
          /\ worker[r][s] = "deploy"
      BY <2>1 DEF DeployApp, DeployEnds
    <3>2. OneDecision(r, s)' /\ RightCode(r, s)'
      BY <2>0, <3>1 DEF OneDecision, RightCode, Blank, OnDesk
    <3>3. Earned(r, s)'
      BY <2>0, <3>1 DEF Earned, WorkerFits
    <3> QED
      BY <1>2, <3>2, <3>3 DEF InOrder
  <2>2. CASE PollApp(r, s)
    <3>1. PICK a \in unpolled[r][s], v \in Verdict :
            /\ unpolled' = [unpolled EXCEPT ![r][s] = @ \ {a}]
            /\ item' = [item EXCEPT ![r][s][a] = VerdictItem(v)]
      BY <2>2 DEF PollApp
    <3>2. /\ stage' = stage /\ worker' = worker /\ UNCHANGED decideVars
          /\ worker[r][s] = "poll" /\ stage[r][s] \in Active
      BY <2>0, <2>2 DEF PollApp, WorkerFits
    <3>3. OneDecision(r, s)' /\ RightCode(r, s)'
      BY <2>0, <3>2 DEF OneDecision, RightCode, Blank, OnDesk
    <3>4. \A b \in App : b # a => item'[r][s][b] = item[r][s][b]
      BY <3>1 DEF TypeOK
    <3>5. item'[r][s][a] \in {"success", "failed", "waiting"}
      <4>1. VerdictItem(v) \in {"success", "failed", "waiting"} /\ a \in App
        BY DEF VerdictItem, TypeOK
      <4> QED
        BY <3>1, <4>1 DEF TypeOK
    <3>6. unpolled'[r][s] = unpolled[r][s] \ {a}
      BY <3>1 DEF TypeOK
    <3>7. Earned(r, s)'
      BY <2>0, <3>2, <3>4, <3>5, <3>6, StageAppsTyped DEF Earned, Active
    <3> QED
      BY <1>2, <3>3, <3>7 DEF InOrder
  <2>3. CASE DeployDone(r, s) \/ GateNoGo(r, s) \/ GateGo(r, s)
    <3>1. /\ worker[r][s] \in {"deploy", "poll"} /\ worker'[r][s] = "nudge"
          /\ stage[r][s] # "queued" /\ Type[s] # "approval"
          /\ item' = item /\ UNCHANGED decideVars
          /\ stage'[r][s] \in {"success", "failed"}
      BY <2>0, <2>3 DEF DeployDone, DeployVerdict, GateNoGo, GateGo, WorkerFits,
         RightCode, Active, TypeOK
    <3>2. OneDecision(r, s)' /\ RightCode(r, s)'
      BY <2>0, <3>1 DEF OneDecision, RightCode, Blank, OnDesk
    <3>3. stage'[r][s] = "success" => Items(r, s) \subseteq {"success"}
      <4>1. CASE DeployDone(r, s)
        BY <4>1 DEF DeployDone, DeployVerdict, TypeOK
      <4>2. CASE GateNoGo(r, s)
        BY <4>2 DEF GateNoGo, TypeOK
      <4>3. CASE GateGo(r, s)
        BY <2>0, <4>3 DEF GateGo, Passed, Earned, Items
      <4> QED
        BY <2>3, <4>1, <4>2, <4>3
    <3>4. Earned(r, s)'
      BY <3>1, <3>3 DEF Earned, Items
    <3> QED
      BY <1>2, <3>2, <3>4 DEF InOrder
  <2>4. CASE GateWaits(r, s) \/ PollAgain(r, s)
    <3>1. /\ worker[r][s] \in {"poll", "wait"} /\ worker'[r][s] \in {"poll", "wait"}
          /\ stage[r][s] # "queued" /\ stage'[r][s] \in Active
          /\ UNCHANGED decideVars
          /\ worker'[r][s] = "poll" => unpolled'[r][s] = StageApps(s) /\ Type[s] = "gate"
          /\ worker[r][s] = "poll" => Type[s] = "gate"
          /\ Type[s] = "gate"
      BY <2>0, <2>4 DEF GateWaits, PollAgain, WorkerFits, RightCode, Active, TypeOK
    <3>2. OneDecision(r, s)' /\ RightCode(r, s)'
      BY <2>0, <3>1 DEF OneDecision, RightCode, Blank, OnDesk
    <3>3. Earned(r, s)'
      BY <3>1 DEF Earned, Active
    <3> QED
      BY <1>2, <3>2, <3>3 DEF InOrder
  <2>5. CASE Offer(r, s)
    <3>1. /\ worker[r][s] = "begin" /\ worker'[r][s] = "wait" /\ Type[s] = "approval"
          /\ stage'[r][s] = "waiting"
          /\ UNCHANGED <<box, audit, deciders>>
          /\ Blank(r, s)
      BY <2>0, <2>5 DEF Offer, RightCode, OneDecision, TypeOK
    <3>2. OneDecision(r, s)'
      BY <3>1 DEF OneDecision, Blank, OnDesk
    <3>3. RightCode(r, s)' /\ Earned(r, s)'
      BY <3>1 DEF RightCode, Earned
    <3> QED
      BY <1>2, <3>2, <3>3 DEF InOrder
  <2>6. CASE DecisionTaken(r, s)
    <3>1. /\ worker[r][s] = "wait" /\ worker'[r][s] = "nudge"
          /\ box[r][s] # "empty" /\ box'[r][s] = "empty"
          /\ stage'[r][s] = IF box[r][s] = "approve" THEN "success" ELSE "failed"
          /\ UNCHANGED <<decisions, audit, deciders>>
      BY <2>6 DEF DecisionTaken, TypeOK
    <3>2. OneDecision(r, s)' /\ Type[s] = "approval"
      BY <2>0, <3>1 DEF OneDecision, Blank, OnDesk
    <3>3. RightCode(r, s)' /\ Earned(r, s)'
      BY <2>0, <3>1, <3>2 DEF RightCode, Earned, OneDecision
    <3> QED
      BY <1>2, <3>2, <3>3 DEF InOrder
  <2>7. CASE Stopping(r, s) \/ Expiring(r, s)
    <3>1. /\ worker[r][s] = "wait" /\ worker'[r][s] \in {"stopping", "expiring"}
          /\ stage' = stage /\ stage[r][s] = "waiting"
          /\ UNCHANGED decideVars
      BY <2>0, <2>7 DEF Stopping, Expiring, WorkerFits, TypeOK
    <3>2. OneDecision(r, s)'
      BY <2>0, <3>1 DEF OneDecision, Blank, OnDesk
    <3>3. RightCode(r, s)' /\ Earned(r, s)'
      BY <3>1 DEF RightCode, Earned
    <3> QED
      BY <1>2, <3>2, <3>3 DEF InOrder
  <2>8. CASE Withdraw(r, s)
    <3>1. /\ worker[r][s] \in {"stopping", "expiring"} /\ worker'[r][s] = "nudge"
          /\ stage'[r][s] \in {"cancelled", "failed"}
          /\ s \notin decisions'[r]
          /\ UNCHANGED <<box, audit, deciders>>
      BY <2>8 DEF Withdraw, TypeOK
    <3>2. OneDecision(r, s)'
      BY <2>0, <3>1 DEF OneDecision, Blank, OnDesk
    <3>3. RightCode(r, s)' /\ Earned(r, s)'
      BY <3>1 DEF RightCode, Earned
    <3> QED
      BY <1>2, <3>2, <3>3 DEF InOrder
  <2>9. CASE Report(r, s)
    <3>1. /\ worker[r][s] = "nudge" /\ worker'[r][s] = "done"
          /\ stage' = stage /\ item' = item /\ UNCHANGED decideVars
      BY <2>9 DEF Report, TypeOK
    <3>2. OneDecision(r, s)'
      BY <2>0, <3>1 DEF OneDecision, Blank, OnDesk
    <3>3. RightCode(r, s)' /\ Earned(r, s)'
      BY <2>0, <3>1 DEF RightCode, Earned, Items
    <3> QED
      BY <1>2, <3>2, <3>3 DEF InOrder
  <2> QED
    BY <2>1, <2>2, <2>3, <2>4, <2>5, <2>6, <2>7, <2>8, <2>9 DEF Work
<1> QED
  BY <1>1, <1>2

LEMMA DecideInOrder ==
  ASSUME TypeOK, NEW r \in RunId, NEW s \in Stage, NEW d \in Decision, Decide(r, s, d),
         NEW q \in RunId, NEW t \in Stage, InOrder(q, t)
  PROVE  InOrder(q, t)'
<1> USE DEF startVars, stageVars, flagVars, workVars, decideVars, cancelVars
<1> DEFINE e == [run |-> r, stage |-> s, decision |-> d]
<1>1. /\ UNCHANGED <<stage, item, worker, unpolled, box>>
      /\ deciders' = deciders \cup {e}
      /\ s \in decisions[r] /\ stage[r][s] = "waiting"
      /\ decisions' = [decisions EXCEPT ![r] = decisions[r] \ {s}]
      /\ audit' = [audit EXCEPT ![r][s] = audit[r][s] \cup {d}]
  BY DEF Decide, OfferedAfter
<1>2. CASE <<q, t>> # <<r, s>>
  <2>1. OnDesk(q, t)' = OnDesk(q, t)
    BY <1>1, <1>2 DEF OnDesk
  <2>2. audit'[q][t] = audit[q][t] /\ (t \in decisions'[q]) = (t \in decisions[q])
    BY <1>1, <1>2 DEF TypeOK
  <2> QED
    BY <1>1, <2>1, <2>2, AsideInOrder DEF Aside
<1>3. CASE q = r /\ t = s
  <2>1. OneDecision(r, s) /\ RightCode(r, s) /\ Earned(r, s)
    BY <1>3 DEF InOrder
  <2>2. /\ box[r][s] = "empty" /\ OnDesk(r, s) = {} /\ audit[r][s] = {}
        /\ worker[r][s] # "begin" /\ Type[s] = "approval"
    BY <1>1, <2>1 DEF OneDecision, Blank
  <2>3. OnDesk(r, s)' = {e}
    BY <1>1, <2>2 DEF OnDesk
  <2>4. audit'[r][s] = {d} /\ s \notin decisions'[r]
    BY <1>1, <2>2 DEF TypeOK
  <2>5. OneDecision(r, s)'
    BY <1>1, <2>2, <2>3, <2>4 DEF OneDecision
  <2>6. RightCode(r, s)' /\ Earned(r, s)'
    BY <1>1, <2>1 DEF RightCode, Earned
  <2> QED
    BY <1>3, <2>5, <2>6 DEF InOrder
<1> QED
  BY <1>2, <1>3

LEMMA DeliverInOrder ==
  ASSUME TypeOK, NEW d \in deciders, Deliver(d),
         NEW q \in RunId, NEW t \in Stage, InOrder(q, t)
  PROVE  InOrder(q, t)'
<1> USE DEF startVars, stageVars, flagVars, workVars, decideVars, cancelVars
<1>1. /\ UNCHANGED <<stage, item, worker, unpolled, decisions, audit>>
      /\ deciders' = deciders \ {d}
      /\ box' = [box EXCEPT ![d.run][d.stage] = d.decision]
      /\ d.run \in RunId /\ d.stage \in Stage /\ d.decision \in Decision
  BY DEF Deliver, TypeOK
<1>2. CASE <<q, t>> # <<d.run, d.stage>>
  <2>1. OnDesk(q, t)' = OnDesk(q, t)
    BY <1>1, <1>2 DEF OnDesk
  <2>2. box'[q][t] = box[q][t]
    BY <1>1, <1>2 DEF TypeOK
  <2> QED
    BY <1>1, <2>1, <2>2, AsideInOrder DEF Aside
<1>3. CASE q = d.run /\ t = d.stage
  <2>1. OneDecision(q, t) /\ RightCode(q, t) /\ Earned(q, t) /\ d \in OnDesk(q, t)
    BY <1>3 DEF InOrder, OnDesk
  <2>2. OnDesk(q, t) = {d}
    <3>1. ASSUME NEW e \in OnDesk(q, t) PROVE e = d
      <4>1. audit[q][t] = {e.decision} /\ audit[q][t] = {d.decision}
        BY <2>1 DEF OneDecision
      <4>2. e.decision = d.decision /\ e.run = d.run /\ e.stage = d.stage
        BY <1>3, <4>1 DEF OnDesk
      <4>3. /\ e \in [run : RunId, stage : Stage, decision : Decision]
            /\ d \in [run : RunId, stage : Stage, decision : Decision]
        BY DEF OnDesk, TypeOK
      <4> QED
        BY <4>2, <4>3
    <3> QED
      BY <2>1, <3>1
  <2>3. OnDesk(q, t)' = {}
    BY <1>1, <2>2 DEF OnDesk
  <2>4. box'[q][t] = d.decision /\ audit'[q][t] = {d.decision}
    BY <1>1, <1>3, <2>1 DEF OneDecision, TypeOK
  <2>5. /\ stage[q][t] # "queued" /\ worker[q][t] # "begin" /\ Type[t] = "approval"
        /\ t \notin decisions[q]
    BY <2>1 DEF OneDecision, Blank
  <2>6. OneDecision(q, t)'
    BY <1>1, <2>3, <2>4, <2>5 DEF OneDecision
  <2>7. RightCode(q, t)' /\ Earned(q, t)'
    BY <1>1, <2>1 DEF RightCode, Earned, Items
  <2> QED
    BY <2>6, <2>7 DEF InOrder
<1> QED
  BY <1>2, <1>3

LEMMA NextInOrder ==
  ASSUME TypeOK, Coherent, [Next]_vars,
         NEW q \in RunId, NEW t \in Stage, InOrder(q, t)
  PROVE  InOrder(q, t)'
<1> USE DEF startVars, stageVars, flagVars, workVars, decideVars, cancelVars
<1>1. ASSUME NEW src \in RunId \cup {0}, Start(src) PROVE InOrder(q, t)'
  BY <1>1, StartInOrder
<1>2. ASSUME NEW r \in RunId, Scan(r) PROVE InOrder(q, t)'
  <2>1. UNCHANGED <<startVars, cancelled, stopped, cancelVars>> /\ UNCHANGED decideVars
    BY <1>2 DEF Scan
  <2>2. CASE Pass(r, Queued(r), {})
    BY <2>1, <2>2, PassInOrder
  <2>3. ASSUME NEW S \in SUBSET Queued(r), Pass(r, {}, S) PROVE InOrder(q, t)'
    BY <2>1, <2>3, PassInOrder
  <2> QED
    BY <1>2, <2>2, <2>3 DEF Scan
<1>3. ASSUME NEW r \in RunId, NEW s \in Stage, Work(r, s) PROVE InOrder(q, t)'
  BY <1>3, WorkInOrder
<1>4. ASSUME NEW r \in RunId, NEW s \in Stage, NEW d \in Decision, Decide(r, s, d)
      PROVE  InOrder(q, t)'
  BY <1>4, DecideInOrder
<1>5. ASSUME NEW d \in deciders, Deliver(d) PROVE InOrder(q, t)'
  BY <1>5, DeliverInOrder
<1>6. ASSUME UNCHANGED <<stageVars, worker, unpolled, decideVars>>
      PROVE  InOrder(q, t)'
  BY <1>6, AsideInOrder DEF Aside, OnDesk
<1>7. \A r \in RunId : Launch(r) \/ Awake(r) \/ Drained(r) \/ Cancel(r) \/ CancelOn(r) =>
        UNCHANGED <<stageVars, worker, unpolled, decideVars>>
  BY DEF Launch, Awake, Drained, Cancel, CancelOn, CancelContext, CancelNudge
<1>8. \A r \in RunId, s \in Stage : Deadline(r, s) =>
        UNCHANGED <<stageVars, worker, unpolled, decideVars>>
  BY DEF Deadline
<1>9. UNCHANGED vars => UNCHANGED <<stageVars, worker, unpolled, decideVars>>
  BY DEF vars
<1> QED
  BY <1>1, <1>2, <1>3, <1>4, <1>5, <1>6, <1>7, <1>8, <1>9 DEF Next, Schedule

LEMMA InitInOrder ==
  ASSUME Init, NEW q \in RunId, NEW t \in Stage
  PROVE  InOrder(q, t)
BY DEF Init, InOrder, OneDecision, RightCode, Earned, Blank, OnDesk

\* The inductive invariant of the two theorems.
AllInOrder == \A q \in RunId, t \in Stage : InOrder(q, t)

LEMMA AlwaysInOrder == Spec => []AllInOrder
<1>1. Init => AllInOrder
  BY InitInOrder DEF AllInOrder
<1>2. TypeOK /\ Coherent /\ AllInOrder /\ [Next]_vars => AllInOrder'
  BY NextInOrder DEF AllInOrder
<1> QED
  BY <1>1, <1>2, TypeCorrect, RunsCoherent, PTL DEF Spec

\* A call of Decide that was accepted never blocks on the channel it sends to,
\* however many people decide, cancel and let deadlines pass at once (Decide).
THEOREM NoDeciderBlocks == Spec => []DecideNeverBlocks
<1>1. ASSUME TypeOK, AllInOrder, NEW d \in deciders
      PROVE  /\ box[d.run][d.stage] = "empty"
             /\ \A e \in deciders : e.run = d.run /\ e.stage = d.stage => e = d
  <2>1. d \in [run : RunId, stage : Stage, decision : Decision]
    BY <1>1 DEF TypeOK
  <2>2. d \in OnDesk(d.run, d.stage) /\ OneDecision(d.run, d.stage)
    BY <1>1, <2>1 DEF OnDesk, AllInOrder, InOrder
  <2>3. ASSUME NEW e \in deciders, e.run = d.run, e.stage = d.stage PROVE e = d
    <3>1. e \in [run : RunId, stage : Stage, decision : Decision]
      BY <1>1 DEF TypeOK
    <3>2. e \in OnDesk(d.run, d.stage)
      BY <2>3 DEF OnDesk
    <3>3. {e.decision} = {d.decision}
      BY <2>2, <3>2 DEF OneDecision
    <3> QED
      BY <2>1, <2>3, <3>1, <3>3
  <2> QED
    BY <2>2, <2>3 DEF OneDecision
<1>2. TypeOK /\ AllInOrder => DecideNeverBlocks
  BY <1>1 DEF DecideNeverBlocks
<1> QED
  BY <1>2, TypeCorrect, AlwaysInOrder, PTL

\* A stage that succeeded deployed all its applications, or saw each of them go
\* when it last asked, or was approved by the one decision the ledger has (runDeploy,
\* runGate, runApproval).
THEOREM SuccessesEarned == Spec => []SuccessIsEarned
<1>1. AllInOrder => SuccessIsEarned
  BY DEF AllInOrder, InOrder, Earned, SuccessIsEarned
<1> QED
  BY <1>1, AlwaysInOrder, PTL

=============================================================================
