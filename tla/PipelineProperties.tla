------------------------- MODULE PipelineProperties -------------------------
(***************************************************************************)
(* What the pipeline manager promises, checked by the MCPipeline runs;     *)
(* PipelineProofs proves some of it for every pipeline.                    *)
(***************************************************************************)
EXTENDS Pipeline

\* Every variable has its type.
TypeOK ==
  /\ started \in 0 .. MaxRuns
  /\ source \in [RunId -> 0 .. MaxRuns]
  /\ stage \in [RunId -> [Stage -> Status]]
  /\ item \in [RunId -> [Stage -> [App ->
       {"queued", "running", "waiting", "success", "failed", "skipped", "reused"}]]]
  /\ cancelled \in [RunId -> BOOLEAN]
  /\ finished \in [RunId -> BOOLEAN]
  /\ stopped \in [RunId -> BOOLEAN]
  /\ wake \in [RunId -> BOOLEAN]
  /\ scheduler \in [RunId ->
       {"unborn", "published", "scan", "idle", "drain", "done"}]
  /\ worker \in [RunId -> [Stage ->
       {"none", "deploy", "poll", "begin", "wait", "stopping", "expiring",
        "nudge", "done"}]]
  /\ unpolled \in [RunId -> [Stage -> SUBSET App]]
  /\ due \in [RunId -> SUBSET Stage]
  /\ decisions \in [RunId -> SUBSET Stage]
  /\ box \in [RunId -> [Stage -> Decision \cup {"empty"}]]
  /\ deciders \subseteq [run : RunId, stage : Stage, decision : Decision]
  /\ canceller \in [RunId -> {"none", "flagged", "stopped"}]
  /\ audit \in [RunId -> [Stage -> SUBSET Decision]]
  /\ cancels \in [RunId -> 0 .. MaxCancels]

-----------------------------------------------------------------------------
(* Every run is a Workflow: its stages start, end and are skipped as the   *)
(* abstract specification says (README "Pipelines": "A stage starts once   *)
(* everything in its needs succeeded; when a need fails, its dependents    *)
(* are skipped"), nothing starts after Cancel has set its flag, and        *)
(* nothing moves once the run has finished.                                *)

PhaseOf(r) ==
  IF finished[r] THEN "finished" ELSE IF r <= started THEN "live" ELSE "unborn"

RunFlow(r) == INSTANCE Workflow WITH
  status <- stage[r], cancelled <- cancelled[r], phase <- PhaseOf(r)

ImplementsWorkflow ==
  /\ \A r \in RunId : RunFlow(r)!Init
  /\ [][\A r \in RunId : [RunFlow(r)!Next]_(RunFlow(r)!vars)]_vars

-----------------------------------------------------------------------------
(* Safety. *)

\* A scheduler that sleeps with nothing on its way to wake it has nothing to
\* do: no queued stage is ready, behind a failure, or waiting to be cancelled.
\* (Its channel holds one token, and every nudge into a full one is dropped.)
Notified(r) ==
  \/ wake[r]
  \/ \E s \in Stage : worker[r][s] = "nudge"
  \/ canceller[r] # "none"
Movable(r, s) ==
  \/ cancelled[r]
  \/ \E n \in Needs[s] : stage[r][n] \in Bad
  \/ \A n \in Needs[s] : stage[r][n] \in Good
NoStageForgotten ==
  \A r \in RunId :
    scheduler[r] = "idle" /\ ~Notified(r) =>
      /\ \A s \in Queued(r) : ~Movable(r, s)
      /\ \E s \in Stage : stage[r][s] \in Active

\* Success is earned: every application of a successful deploy stage deployed,
\* every application of a successful gate had a go as its last verdict,
\* and a successful approval was approved by exactly one decision.
SuccessIsEarned ==
  \A r \in RunId, s \in Stage :
    stage[r][s] = "success" =>
      IF Type[s] = "approval" THEN audit[r][s] = {"approve"}
      ELSE Items(r, s) \subseteq {"success"}

\* A call of Decide that was accepted never blocks on the stage's channel,
\* however many people decide at once.
DecideNeverBlocks ==
  \A d \in deciders :
    /\ box[d.run][d.stage] = "empty"
    /\ \A e \in deciders : e.run = d.run /\ e.stage = d.stage => e = d

\* What a rerun reuses did succeed in the run it reruns, for good, and was not
\* touched by that run's later steps.
ReuseIsBacked ==
  \A r \in RunId, s \in Stage :
    stage[r][s] = "reused" =>
      source[r] \in 1 .. r - 1 /\ stage[source[r]][s] \in Good

\* The status a finished run reports never changes again.
VerdictStands ==
  [][\A r \in RunId : finished[r] => RunStatus(r)' = RunStatus(r)]_vars

-----------------------------------------------------------------------------
(* Why every run is a Workflow: what its goroutines, its flags and its     *)
(* stages have to do with each other.                                      *)

\* A stage is running or waiting exactly while its worker is at it, and the
\* worker's place in its code says which.
Working == {"deploy", "poll", "begin", "wait", "stopping", "expiring"}
WorkerFits(r, s) ==
  /\ worker[r][s] \in {"deploy", "begin"} => stage[r][s] = "running"
  /\ worker[r][s] = "poll" => stage[r][s] \in Active
  /\ worker[r][s] \in {"wait", "stopping", "expiring"} => stage[r][s] = "waiting"
  /\ stage[r][s] \in Active => worker[r][s] \in Working
  /\ worker[r][s] = "stopping" => cancelled[r]

SchedulerFits(r) ==
  /\ scheduler[r] = "unborn" <=> r > started
  /\ scheduler[r] = "unborn" => /\ ~cancelled[r]
                                /\ \A s \in Stage : stage[r][s] = "queued"
  /\ finished[r] <=> scheduler[r] \in {"drain", "done"}
  /\ finished[r] => \A s \in Stage : stage[r][s] \in Terminal
  /\ canceller[r] # "none" => cancelled[r]
  /\ stopped[r] => cancelled[r] \/ scheduler[r] = "done"

\* A stage that started or is reused has what it needs.
NeedsHeld(r) ==
  \A s \in Stage : stage[r][s] \in Good \cup Active \cup {"failed"} =>
    \A n \in Needs[s] : stage[r][n] \in Good

Coherent ==
  \A r \in RunId :
    SchedulerFits(r) /\ NeedsHeld(r) /\ \A s \in Stage : WorkerFits(r, s)

-----------------------------------------------------------------------------
(* Claims of the documentation that the code does not meet. *)

\* "forget withdraws a stage's pending approval so a late decision is
\* refused": a decision that was accepted, and audited, decides its stage.
LateDecisionsRefused ==
  \A r \in RunId, s \in Stage :
    /\ stage[r][s] = "failed" => "approve" \notin audit[r][s]
    /\ stage[r][s] = "cancelled" => audit[r][s] = {}

-----------------------------------------------------------------------------
(* Liveness, under FairSpec. *)

\* Every run that was started finishes, whatever its deploys, gates and
\* approvers do, whether or not it is cancelled or evicted.
RunsFinish == \A r \in RunId : r <= started ~> finished[r]
=============================================================================
