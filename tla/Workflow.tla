------------------------------ MODULE Workflow ------------------------------
(***************************************************************************)
(* What a pipeline run promises whoever started it: a directed graph of    *)
(* stages in which a stage starts once everything it needs succeeded, is   *)
(* skipped once something it needs did not, and is cancelled only by a     *)
(* cancellation; outcomes are final, and so is the end of the run          *)
(* (README "Pipelines", internal/pipeline).  Pipeline implements it.       *)
(***************************************************************************)
CONSTANTS
  Stage,         \* the stages
  Needs          \* Needs[s]: the stages s needs

VARIABLES
  status,        \* what became of each stage so far
  cancelled,     \* has the run been cancelled?
  phase          \* is the run to come, live or finished?

vars == <<status, cancelled, phase>>

Good == {"success", "reused"}
Bad == {"failed", "skipped", "cancelled"}
Active == {"running", "waiting"}
Terminal == Good \cup Bad
Status == Terminal \cup Active \cup {"queued"}

\* Stages of an earlier run are reused together with everything they need.
Start ==
  /\ phase = "unborn"
  /\ phase' = "live"
  /\ \E R \in SUBSET Stage :
       /\ \A s \in R : Needs[s] \subseteq R
       /\ status' = [s \in Stage |-> IF s \in R THEN "reused" ELSE "queued"]
  /\ UNCHANGED cancelled

\* What one step may do to a stage.  Several stages may move at once.
Starts(s) ==
  /\ ~cancelled
  /\ \A n \in Needs[s] : status[n] \in Good
  /\ status'[s] = "running"
IsSkipped(s) ==
  /\ ~cancelled
  /\ \E n \in Needs[s] : status'[n] \in Bad
  /\ status'[s] = "skipped"
IsCancelled(s) == cancelled /\ status'[s] = "cancelled"
Progresses(s) ==
  \/ status[s] = "running" /\ status'[s] \in {"waiting", "success", "failed"}
  \/ status[s] = "waiting" /\ status'[s] \in {"success", "failed"}
  \/ status[s] = "waiting" /\ IsCancelled(s)
Moves(s) ==
  \/ status'[s] = status[s]
  \/ status[s] = "queued" /\ (Starts(s) \/ IsSkipped(s) \/ IsCancelled(s))
  \/ Progresses(s)

Advance ==
  /\ phase = "live"
  /\ status' \in [Stage -> Status]
  /\ \A s \in Stage : Moves(s)
  /\ \/ phase' = phase
     \/ phase' = "finished" /\ \A s \in Stage : status'[s] \in Terminal
  /\ UNCHANGED cancelled

Cancel ==
  /\ phase = "live"
  /\ cancelled' = TRUE
  /\ UNCHANGED <<status, phase>>

Init ==
  /\ status = [s \in Stage |-> "queued"]
  /\ cancelled = FALSE
  /\ phase = "unborn"

Next == Start \/ Advance \/ Cancel

Spec == Init /\ [][Next]_vars

-----------------------------------------------------------------------------
(* What follows from it. *)

TypeOK ==
  /\ status \in [Stage -> Status]
  /\ cancelled \in BOOLEAN
  /\ phase \in {"unborn", "live", "finished"}

\* A stage that started, or is reused, has everything it needs, for good.
NeedsMet ==
  \A s \in Stage : status[s] \in Good \cup Active \cup {"failed"} =>
    \A n \in Needs[s] : status[n] \in Good

\* A finished run left nothing open, and unless it was cancelled it skipped
\* exactly the stages behind one that did not succeed.
Accounted ==
  phase = "finished" =>
    /\ \A s \in Stage : status[s] \in Terminal
    /\ ~cancelled => \A s \in Stage :
         status[s] = "skipped" <=> \E n \in Needs[s] : status[n] \in Bad
=============================================================================
