------------------------------- MODULE RunDesk -------------------------------
(***************************************************************************)
(* A pipeline's page: the list of its runs, the one that is shown as a     *)
(* graph, the buttons that decide, cancel and run it again, and the dialog *)
(* that starts one.  The list is polled for ever, the shown run until it   *)
(* has ended; the server numbers runs from 1 again when it restarts.       *)
(***************************************************************************)
EXTENDS Naturals, Sequences, FiniteSets

CONSTANTS
    MaxRuns,   \* bound on the runs of one life of the server
    MaxLives,  \* bound on the lives of the server
    MaxClicks  \* bound on what the operator does

ASSUME RunDeskAssumption == MaxRuns \in Nat /\ MaxLives \in Nat

VARIABLES
    runs,      \* the server's runs: the position is the identity
    life,      \* how often the server has restarted
    runsListed,\* the cached list
    runShown,  \* the cached run of each identity, as a set of at most one
    runReads,  \* answers on their way for single runs
    runPosts,  \* the operator's calls in flight
    picked,    \* the identity the operator chose, as a set of at most one
    form,      \* the dialog that starts a run, as a set of at most one
    evidence,  \* history: the runs whose evidence was saved
    clicks     \* what the operator did so far

runDeskVars == <<runs, life, runsListed, runShown, runReads, runPosts, picked,
                 form, evidence, clicks>>
seenVars == <<runsListed, runShown, runReads>>

RunId == 1..MaxRuns
Over == {"success", "failed", "cancelled"}
Phase == {"running", "waiting", "stopping"} \cup Over
Target == {"int", "acc", "prod"}
Run(i) == [id |-> i, life |-> life, phase |-> runs[i]]

RunDeskInit ==
    /\ runs = <<>>
    /\ life = 0
    /\ runsListed = {}
    /\ runShown = [i \in RunId |-> {}]
    /\ runReads = {} /\ runPosts = {}
    /\ picked = {}
    /\ form = {}
    /\ evidence = {}
    /\ clicks = 0

Click == clicks < MaxClicks /\ clicks' = clicks + 1

-----------------------------------------------------------------------------
(* The server                                                              *)

\* A run goes on; once over it stays as it is.
RunMoves(i) ==
    /\ \/ runs[i] = "running" /\ \E p \in {"waiting", "success", "failed"} :
                                    runs' = [runs EXCEPT ![i] = p]
       \/ runs[i] = "stopping" /\ runs' = [runs EXCEPT ![i] = "cancelled"]
    /\ UNCHANGED <<life, seenVars, runPosts, picked, form, evidence, clicks>>

\* Runs live in memory, and so does the number of the next one.
ServerLosesRuns ==
    /\ life < MaxLives - 1
    /\ life' = life + 1
    /\ runs' = <<>>
    /\ runReads' = {}
    /\ UNCHANGED <<runsListed, runShown, runPosts, picked, form, evidence, clicks>>

-----------------------------------------------------------------------------
(* What the page reads                                                     *)

\* The newest listed run, unless the operator chose one.
Active ==
    IF picked # {} THEN picked
    ELSE {r.id : r \in {q \in runsListed : \A p \in runsListed : p.id <= q.id}}

RunEnded(snapshots) == \E r \in snapshots : r.phase \in Over

\* The run on screen: its own answer, or its row in the list until that comes.
OnScreen ==
    UNION {IF runShown[i] # {} THEN runShown[i] ELSE {r \in runsListed : r.id = i}
             : i \in Active}

PollRunList ==
    /\ runsListed' = {Run(i) : i \in DOMAIN runs}
    /\ runsListed' # runsListed
    /\ UNCHANGED <<runs, life, runShown, runReads, runPosts, picked, form,
                   evidence, clicks>>

\* The server answers a read of one run; the answer is on its way.
ReadRun(i) ==
    /\ i \in DOMAIN runs
    /\ \A r \in runReads : r.id # i
    /\ runReads' = runReads \cup {Run(i)}
    /\ UNCHANGED <<runs, life, runsListed, runShown, runPosts, picked, form, evidence>>

\* refetchInterval: a run that has ended is not polled any more ...
PollRun ==
    /\ \E i \in Active : ~RunEnded(runShown[i]) /\ ReadRun(i)
    /\ UNCHANGED clicks

\* ... only read again when the window is focused.
FocusWindow == Click /\ \E i \in Active : ReadRun(i)

RunArrives(r) ==
    /\ runShown' = [runShown EXCEPT ![r.id] = {r}]
    /\ runReads' = runReads \ {r}
    /\ UNCHANGED <<runs, life, runsListed, runPosts, picked, form, evidence, clicks>>

-----------------------------------------------------------------------------
(* What the operator does                                                  *)

Press(post) ==
    /\ \A p \in runPosts : p.op # post.op
    /\ Click
    /\ runPosts' = runPosts \cup {post}
    /\ UNCHANGED <<runs, life, seenVars, picked, form, evidence>>

Post(op, i) == [op |-> op, id |-> i, answer |-> {}]

\* Which buttons the run on screen has.
Decide == \E r \in OnScreen : r.phase = "waiting" /\ Press(Post("decide", r.id))
CancelRun == \E r \in OnScreen : r.phase \notin Over /\ Press(Post("cancel", r.id))
Rerun ==
    \E r \in OnScreen : r.phase \in {"failed", "cancelled"} /\ Press(Post("rerun", r.id))

SaveEvidenceAnytime ==   \* fault: of a run that goes on
    /\ evidence' = evidence \cup OnScreen
    /\ Click
    /\ UNCHANGED <<runs, life, seenVars, runPosts, picked, form>>

\* downloadEvidence: the run as it is on screen.
SaveEvidence ==
    /\ \E r \in OnScreen : r.phase \in Over /\ evidence' = evidence \cup {r}
    /\ Click
    /\ UNCHANGED <<runs, life, seenVars, runPosts, picked, form>>

\* A row of the list.
PickRun(i) ==
    /\ Click
    /\ picked' = {i}
    /\ UNCHANGED <<runs, life, seenVars, runPosts, form, evidence>>

OpenRunDialog ==
    /\ form = {}
    /\ Click
    /\ form' = {[ring |-> "int", secret |-> FALSE]}
    /\ UNCHANGED <<runs, life, seenVars, runPosts, picked, evidence>>

\* Another ring, or the production password, which only that ring asks for.
FillRunDialog ==
    /\ Click
    /\ \E f \in form, ring \in Target, secret \in BOOLEAN :
         /\ secret # f.secret => ring = "prod" /\ f.ring = "prod"
         /\ form' = {[ring |-> ring, secret |-> secret]}
    /\ UNCHANGED <<runs, life, seenVars, runPosts, picked, evidence>>

StartRun ==
    /\ \E f \in form : f.ring = "prod" => f.secret
    /\ Press(Post("start", 0))

CloseRunDialog ==
    /\ form # {}
    /\ Click
    /\ form' = {}
    /\ UNCHANGED <<runs, life, seenVars, runPosts, picked, evidence>>

-----------------------------------------------------------------------------
(* The operator's calls                                                    *)

NewRun ==
    /\ Len(runs) < MaxRuns
    /\ runs' = Append(runs, "running")

\* The server acts and answers with the run: a decision is picked up by the
\* scheduler, so its answer may still say that the run is waiting.
ServePost(p) ==
    LET i == IF p.op \in {"start", "rerun"} THEN Len(runs') ELSE p.id
        answered(phase) == [id |-> i, life |-> life, phase |-> phase]
    IN  /\ p.answer = {}
        /\ p.op # "start" => p.id \in DOMAIN runs
        /\ CASE p.op = "decide" -> /\ runs[p.id] = "waiting"
                                   /\ runs' = [runs EXCEPT ![p.id] = "running"]
             [] p.op = "cancel" -> /\ runs[p.id] \notin Over
                                   /\ runs' = [runs EXCEPT ![p.id] = "stopping"]
             [] OTHER -> NewRun
        /\ \E phase \in {runs'[i]} \cup IF p.op = "decide" THEN {"waiting"} ELSE {} :
             runPosts' = (runPosts \ {p}) \cup {[p EXCEPT !.answer = {answered(phase)}]}
        /\ UNCHANGED <<life, seenVars, picked, form, evidence, clicks>>

\* onSuccess: the answer becomes the shown run; a new run is the one to show,
\* and the dialog that started it closes.
PostAnswered(p) ==
    \E r \in p.answer :
      /\ runShown' = [runShown EXCEPT ![r.id] = {r}]
      /\ runPosts' = runPosts \ {p}
      /\ picked' = IF p.op \in {"start", "rerun"} THEN {r.id} ELSE picked
      /\ form' = IF p.op = "start" THEN {} ELSE form
      /\ UNCHANGED <<runs, life, runsListed, runReads, evidence, clicks>>

PostRefused(p) ==
    /\ runPosts' = runPosts \ {p}
    /\ UNCHANGED <<runs, life, seenVars, picked, form, evidence, clicks>>

RunDeskNext ==
    \/ \E i \in DOMAIN runs : RunMoves(i)
    \/ ServerLosesRuns
    \/ PollRunList \/ PollRun \/ FocusWindow
    \/ \E r \in runReads : RunArrives(r)
    \/ Decide \/ CancelRun \/ Rerun \/ SaveEvidence
    \/ \E r \in runsListed : PickRun(r.id)
    \/ OpenRunDialog \/ FillRunDialog \/ StartRun \/ CloseRunDialog
    \/ \E p \in runPosts : ServePost(p) \/ PostAnswered(p) \/ PostRefused(p)

RunDeskSpec == RunDeskInit /\ [][RunDeskNext]_runDeskVars

-----------------------------------------------------------------------------
(* Properties                                                              *)

Snapshot == [id : RunId, life : 0..MaxLives, phase : Phase]

RunDeskTypeOK ==
    /\ runs \in Seq(Phase) /\ Len(runs) <= MaxRuns
    /\ life \in 0..MaxLives
    /\ runsListed \in SUBSET Snapshot
    /\ \A i \in RunId : runShown[i] \in SUBSET Snapshot /\ Cardinality(runShown[i]) <= 1
    /\ runReads \in SUBSET Snapshot /\ evidence \in SUBSET Snapshot
    /\ runPosts \in SUBSET [op : {"start", "decide", "cancel", "rerun"},
                            id : 0..MaxRuns, answer : SUBSET Snapshot]
    /\ picked \in SUBSET RunId
    /\ form \in SUBSET [ring : Target, secret : BOOLEAN]

\* What is shown as ended, and what is saved as its evidence, is how the run
\* ended and not how it stood when some late answer was made, even though
\* nothing asks the server again: for as long as that run is there
\* (queries.ts: usePipelineRun stops polling; pipeline-view.tsx:
\* downloadEvidence).
EndedRunsAreFinal ==
    \A r \in evidence \cup UNION {runShown[i] : i \in RunId} :
      (r.life = life /\ (r.phase \in Over \/ r \in evidence)) => runs[r.id] = r.phase

\* What usePipelineRuns says: the history list and the graph move together. A
\* run that is shown as ended is not polled; when the list has a run of that
\* name, it is the same run.
ListAndGraphMoveTogether ==
    \A i \in Active, r \in runsListed :
      (r.id = i /\ RunEnded(runShown[i]) /\ runReads = {} /\ runPosts = {})
         => \A q \in runShown[i] : r.life <= q.life

=============================================================================
