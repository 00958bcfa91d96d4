-------------------------------- MODULE Flow --------------------------------
(***************************************************************************)
(* The graph of a run: the stages of a pipeline, whose dependencies the    *)
(* server tells, and the jobs of a CI workflow, whose dependencies it does *)
(* not, so that the console infers them from the jobs' time stamps         *)
(* (flow-layout.ts, job-flow.tsx, pipeline-view.tsx). How a pipeline moves *)
(* its stages is the Pipeline module's; here only what they become counts. *)
(***************************************************************************)
EXTENDS Naturals, Sequences, FiniteSets, SequencesExt

CONSTANTS
    Shapes,   \* what the jobs of a run need: sequences of sets of earlier jobs
    Asks,     \* releases, each with the gates that guard it
    Slack,    \* how late a job's end may be stamped (SLACK_MS)
    MaxTime   \* bound on the clock

\* A run has jobs: the console draws one that tells of none as a single node.
ASSUME FlowAssumption ==
    /\ Slack \in Nat /\ MaxTime \in Nat \ {0}
    /\ Shapes \subseteq Seq(SUBSET Nat) \ {<<>>}
    /\ \A n \in Shapes : \A j \in DOMAIN n : n[j] \subseteq 1..(j - 1)
    /\ Asks \subseteq [policed : BOOLEAN, scanned : BOOLEAN, qa : BOOLEAN]

Untold == 0   \* no stamp; the clock starts at one

VARIABLES
    chart,      \* which of the two is drawn: "pipeline" or "job"
    needed,     \* what every job, or stage, of the run needs
    guard,      \* the release that runs them
    clock,
    began,      \* stamps of the jobs, as the server tells them
    ended,
    jobStatus,
    release,    \* how far the release is; whether the pipeline was cancelled
    drift       \* history: how time stamps strayed from the run's shape

flowVars == <<chart, needed, guard, clock, began, ended, jobStatus, release, drift>>

JobOfRun == DOMAIN needed
Good(j) == jobStatus[j] \in {"success", "reused"}
Live == {"running", "waiting"}
Settled(j) == jobStatus[j] \notin Live \cup {"queued"}

\* A rerun keeps the stages that had succeeded, and so all they needed.
FlowInit ==
    /\ chart \in {"pipeline", "job"}
    /\ needed \in Shapes
    /\ guard \in Asks
    /\ clock = 1
    /\ began = [j \in DOMAIN needed |-> Untold]
    /\ ended = began
    /\ \E kept \in SUBSET DOMAIN needed :
         /\ chart = "job" => kept = {}
         /\ \A j \in kept : needed[j] \subseteq kept
         /\ jobStatus = [j \in DOMAIN needed |-> IF j \in kept THEN "reused" ELSE "queued"]
    /\ release = IF chart = "job" THEN "pending" ELSE "deploying"
    /\ drift = {}

-----------------------------------------------------------------------------
(* The run. Jobs are the runner's, stamped with whole units of the clock.  *)

MayBeginEarly(j) ==   \* fault: one need that succeeded is enough
    jobStatus[j] = "queued" /\ (needed[j] = {} \/ \E n \in needed[j] : Good(n))

MayBegin(j) == jobStatus[j] = "queued" /\ \A n \in needed[j] : Good(n)
MustSkip(j) == jobStatus[j] = "queued" /\ \E n \in needed[j] : Settled(n) /\ ~Good(n)

\* The deployment of a job's release is under way.
Running == chart = "job" /\ release = "deploying"

\* A job that could have begun by now is late.
Tick ==
    /\ Running /\ clock < MaxTime
    /\ clock' = clock + 1
    /\ drift' = IF \E j \in JobOfRun : MayBegin(j) THEN drift \cup {"late"} ELSE drift
    /\ UNCHANGED <<chart, needed, guard, began, ended, jobStatus, release>>

BeginJob(j) ==
    /\ Running /\ MayBegin(j)
    /\ jobStatus' = [jobStatus EXCEPT ![j] = "running"]
    /\ began' = [began EXCEPT ![j] = clock]
    /\ UNCHANGED <<chart, needed, guard, clock, ended, release, drift>>

\* A job no longer than the slack is taken for one before its siblings.
Stamp(j, status, from, to) ==
    /\ jobStatus' = [jobStatus EXCEPT ![j] = status]
    /\ began' = [began EXCEPT ![j] = from]
    /\ ended' = [ended EXCEPT ![j] = to]
    /\ drift' = IF to <= from + Slack THEN drift \cup {"quick"} ELSE drift
    /\ UNCHANGED <<chart, needed, guard, clock, release>>

EndJob(j, status) ==
    /\ Running /\ jobStatus[j] = "running"
    /\ \E e \in 0..Slack : Stamp(j, status, began[j], clock + e)

\* Behind a job that did not succeed; skipped jobs are stamped too.
SkipJob(j) ==
    /\ Running /\ MustSkip(j)
    /\ Stamp(j, "skipped", clock, clock)

CancelJobs ==
    /\ Running /\ \E j \in JobOfRun : ~Settled(j)
    /\ jobStatus' = [j \in JobOfRun |-> IF Settled(j) THEN jobStatus[j] ELSE "cancelled"]
    /\ ended' = [j \in JobOfRun |-> IF jobStatus[j] = "running" THEN clock ELSE ended[j]]
    /\ drift' = drift \cup {"quick"}
    /\ UNCHANGED <<chart, needed, guard, clock, began, release>>

\* The release's own steps: its gates are judged one after the other, the scans
\* between the others and the custom ones; the deployment ends with its jobs, its
\* health is checked next.
Advance(outcome) ==
    /\ chart = "job"
    /\ \/ /\ release = "pending"
          /\ outcome = IF guard.policed THEN "judged" ELSE "deploying"
       \/ release = "judged" /\ outcome \in {"deploying", "refused"}
       \/ release = "judged" /\ guard.scanned /\ outcome \in {"unsafe", "barred"}
       \/ /\ release = "deploying" /\ \A j \in JobOfRun : Settled(j)
          /\ outcome = IF \A j \in JobOfRun : Good(j) THEN "deployed" ELSE "failed"
       \/ release = "deployed" /\ outcome = "verifying"
       \/ release = "verifying" /\ outcome \in {"live", "unhealthy"}
    /\ release' = outcome
    /\ UNCHANGED <<chart, needed, guard, clock, began, ended, jobStatus, drift>>

-----------------------------------------------------------------------------
(* The stages of a pipeline                                                *)

Becomes(j, status) ==
    /\ jobStatus' = [jobStatus EXCEPT ![j] = status]
    /\ UNCHANGED <<chart, needed, guard, clock, began, ended, release, drift>>

\* A gate or an approval waits; once a run is cancelled those end with it, while a
\* deployment that runs goes on to its own end.
StageMoves(j) ==
    /\ chart = "pipeline"
    /\ \/ release = "deploying" /\ MayBegin(j) /\ Becomes(j, "running")
       \/ release = "deploying" /\ MustSkip(j) /\ Becomes(j, "skipped")
       \/ jobStatus[j] = "running" /\ Becomes(j, "waiting")
       \/ jobStatus[j] \in Live /\ \E r \in {"success", "failed"} : Becomes(j, r)
       \/ release = "cancelled" /\ jobStatus[j] \in Live /\ Becomes(j, "cancelled")

CancelStages ==
    /\ chart = "pipeline" /\ release = "deploying"
    /\ \E j \in JobOfRun : ~Settled(j)
    /\ release' = "cancelled"
    /\ jobStatus' = [j \in JobOfRun |->
                       IF jobStatus[j] = "queued" THEN "cancelled" ELSE jobStatus[j]]
    /\ UNCHANGED <<chart, needed, guard, clock, began, ended, drift>>

-----------------------------------------------------------------------------
(* inferStageNeeds                                                         *)

Started == {j \in JobOfRun : began[j] # Untold}
Sooner(i, j) == began[i] < began[j] \/ (began[i] = began[j] /\ i < j)

BeforeAny(j) ==   \* fault: takes also jobs that began later
    {i \in Started \ {j} : ended[i] # Untold /\ ended[i] <= began[j] + Slack}

\* The jobs that began sooner and had ended by the time this one began.
Before(j) ==
    {i \in Started : /\ Sooner(i, j)
                     /\ ended[i] # Untold /\ ended[i] <= began[j] + Slack}

\* From the first job that began to the latest.
Latest(jobs) == CHOOSE j \in jobs : \A k \in jobs \ {j} : Sooner(k, j)
WithAncestors(j, anc) == [anc EXCEPT ![j] = UNION {{i} \cup anc[i] : i \in Before(j)}]
Ancestors ==
    MapThenFoldSet(WithAncestors, [j \in JobOfRun |-> {}], LAMBDA j : j, Latest, Started)

NearestAll(anc, jobs) == jobs   \* fault: keeps the shortcuts

Nearest(anc, jobs) == {i \in jobs : \A k \in jobs \ {i} : i \notin anc[k]}

\* Jobs that have not begun hang off every job nothing started hangs off.
InferredNeeds ==
    LET anc == Ancestors
        direct == [j \in Started |-> Nearest(anc, Before(j))]
        sinks == Started \ UNION {direct[j] : j \in Started}
    IN  [j \in JobOfRun |-> IF j \in Started THEN direct[j] ELSE sinks]

-----------------------------------------------------------------------------
(* The graphs: nodes with what each needs and its status                   *)

Trigger == <<"trigger", 0>>
Done == <<"done", 0>>
JobNode(j) == <<"job", j>>
Node(needs, status) == [needs |-> needs, status |-> status]
One(id, node) == [x \in {id} |-> node]
Beside(f, g) == [x \in DOMAIN f \cup DOMAIN g |-> IF x \in DOMAIN f THEN f[x] ELSE g[x]]

JobNodes(needs, start) ==
    LET nodes == [j \in JobOfRun |->
                    Node(IF needs[j] = {} THEN start ELSE {JobNode(n) : n \in needs[j]},
                         jobStatus[j])]
    IN  [id \in {JobNode(j) : j \in JobOfRun} |-> nodes[id[2]]]

Leaves(needs) == {JobNode(j) : j \in JobOfRun \ UNION {needs[k] : k \in JobOfRun}}

\* A graph as it is built: its nodes, and those that the next one needs.
StartAs(status) == [nodes |-> One(Trigger, Node({}, status)), tail |-> {Trigger}]
Start == StartAs("success")
Chained(g, id, status) ==
    [nodes |-> Beside(One(id, Node(g.tail, status)), g.nodes), tail |-> {id}]
WithJobs(g, needs) ==
    [nodes |-> Beside(JobNodes(needs, g.tail), g.nodes), tail |-> Leaves(needs)]

\* runToNodes: the stages between the trigger and the end of the run.
AllOver == \A j \in JobOfRun : Settled(j)

PipelineGraph ==
    Chained(WithJobs(Start, needed), Done,
            IF ~AllOver THEN "queued"
            ELSE IF release # "cancelled" /\ \A j \in JobOfRun : Good(j) THEN "success"
            ELSE "failed").nodes

\* buildJobFlow: a chain of nodes, the jobs of the deployment in its midst.
Halted == {"refused", "unsafe", "barred"}
Finished == release \in Halted \cup {"failed", "live", "unhealthy"}
Deploying == release \notin Halted \cup {"pending", "judged"}
Verified == release \in {"verifying", "live", "unhealthy"}

Link(g, wanted, id, status) == IF wanted THEN Chained(g, id, status) ELSE g

JobGraph ==
    LET needs == InferredNeeds
        trigger == StartAs(IF release = "pending" THEN "running" ELSE "success")
        policy == Link(trigger, guard.policed, <<"policy", 0>>,
                       IF release \in {"pending", "judged"} THEN "running"
                       ELSE IF release \in {"refused", "barred"} THEN "failed"
                       ELSE "success")
        appsec == Link(policy, /\ guard.policed /\ guard.scanned
                               /\ release \notin {"pending", "judged", "refused"},
                       <<"appsec", 0>>, IF release = "unsafe" THEN "failed" ELSE "success")
        deploy == IF Deploying THEN WithJobs(appsec, needs) ELSE appsec
        verify == Link(deploy, Verified, <<"verify", 0>>,
                       IF release = "verifying" THEN "running"
                       ELSE IF release = "live" THEN "success" ELSE "failed")
        next == Link(verify, ~Finished /\ release \notin {"deploying", "verifying"},
                     <<"next", 0>>, "queued")
        qa == Link(next, guard.qa, <<"qa", 0>>,
                   IF ~Finished THEN "queued"
                   ELSE IF release = "live" THEN "waiting" ELSE "skipped")
    IN  Chained(qa, Done, IF ~Finished THEN "queued"
                          ELSE IF release = "live" THEN "success" ELSE "failed").nodes

-----------------------------------------------------------------------------
(* layoutFlow                                                              *)

Ups(g, id) == g[id].needs \cap DOMAIN g
Edges(g) == {e \in (DOMAIN g) \X (DOMAIN g) : e[1] \in Ups(g, e[2])}

\* Longest path from the trigger; a cycle counts as nothing.
Visit(g) ==
    LET depth[at \in (DOMAIN g) \X (SUBSET DOMAIN g)] ==   \* a node, those it is visited from
            IF at[1] \in at[2] \/ Ups(g, at[1]) = {} THEN 0
            ELSE 1 + Max({depth[<<up, at[2] \cup {at[1]}>>] : up \in Ups(g, at[1])})
    IN  depth

Columns(g) == LET depth == Visit(g) IN [id \in DOMAIN g |-> depth[<<id, {}>>]]

EdgeState(from, to) ==
    LET ok == from \in {"success", "reused"}
    IN  IF from \in {"failed", "cancelled"} \/ to \in {"skipped", "cancelled"} THEN "blocked"
        ELSE IF ok /\ to \in Live THEN "flowing"
        ELSE IF ok /\ to \in {"success", "reused", "failed"} THEN "done"
        ELSE "idle"

-----------------------------------------------------------------------------
Releases == {"pending", "judged", "refused", "unsafe", "barred", "deploying", "deployed",
             "verifying", "live", "unhealthy", "failed", "cancelled"}

FlowNext ==
    \/ Tick \/ CancelJobs \/ CancelStages
    \/ \E j \in JobOfRun : BeginJob(j) \/ SkipJob(j) \/ StageMoves(j)
    \/ \E j \in JobOfRun, r \in {"success", "failed"} : EndJob(j, r)
    \/ \E o \in Releases : Advance(o)

FlowSpec == FlowInit /\ [][FlowNext]_flowVars

-----------------------------------------------------------------------------
(* Properties                                                              *)

FlowTypeOK ==
    LET Stamps == [JobOfRun -> 0..(MaxTime + Slack)]
    IN  /\ chart \in {"pipeline", "job"}
        /\ needed \in Shapes /\ guard \in Asks
        /\ clock \in 1..MaxTime
        /\ began \in Stamps /\ ended \in Stamps
        /\ jobStatus \in [JobOfRun -> {"queued", "running", "waiting", "success", "reused",
                                       "failed", "skipped", "cancelled"}]
        /\ release \in Releases
        /\ drift \in SUBSET {"late", "quick"}

HoldsTogether(g) ==
    LET column == Columns(g)
    IN  /\ \A id \in DOMAIN g : g[id].needs \subseteq DOMAIN g
        /\ \A e \in Edges(g) : column[e[1]] < column[e[2]]
        /\ \A id \in DOMAIN g \ {Trigger} : g[id].needs # {}
        /\ \A id \in DOMAIN g \ {Done} : \E other \in DOMAIN g : id \in g[other].needs

\* Whatever stamps the jobs have, the graph of a run is one picture: every edge
\* leads to a later column, every node comes after the trigger and before the
\* end (flow-layout.ts: inferStageNeeds, columns; job-flow.tsx: buildJobFlow).
GraphsHoldTogether == HoldsTogether(IF chart = "job" THEN JobGraph ELSE PipelineGraph)

Linear == \A j \in JobOfRun : needed[j] = IF j = 1 THEN {} ELSE {j - 1}

\* Every job needs all jobs that need the same.
Layered ==
    \A j \in JobOfRun : \A n \in needed[j] :
        needed[j] = {m \in JobOfRun : needed[m] = needed[n]}

\* The inferred edges into a job that began are the workflow's own when the jobs
\* form one line, and in layers of jobs when each begins as soon as it may and
\* takes longer than the slack (flow-layout.ts: inferStageNeeds).
InferredGraphIsReal ==
    (Linear \/ (Layered /\ drift = {})) =>
        \A j \in Started : InferredNeeds[j] = needed[j]

EdgesOf(g, j) == {EdgeState(g[up].status, jobStatus[j]) : up \in g[JobNode(j)].needs}

\* What an edge into a job, or a stage, tells of the run is so: into one that runs or
\* waits all flow; into one that succeeded, here or in the run it is reused from, all
\* are done; one that failed had all it needed, so none is blocked or idle; and of a
\* run that is over nothing is drawn as still to come (flow-layout.ts:157-164 against
\* pipeline.go:447-511). What the edges into a failed job are instead, it does not say:
\* the code draws them as done, its comment says that both ends then succeeded.
EdgesTellTheRun ==
    LET tells(g) ==
            \A j \in JobOfRun :
                /\ jobStatus[j] \in Live => EdgesOf(g, j) = {"flowing"}
                /\ Good(j) => EdgesOf(g, j) = {"done"}
                /\ jobStatus[j] = "failed" => EdgesOf(g, j) \cap {"blocked", "idle"} = {}
                /\ AllOver => EdgesOf(g, j) \subseteq {"done", "blocked"}
    IN  /\ chart = "pipeline" => tells(PipelineGraph)
        /\ chart = "job" /\ Deploying /\ (Linear \/ (Layered /\ drift = {})) => tells(JobGraph)

=============================================================================
