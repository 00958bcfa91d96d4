-------------------------------- MODULE Strip --------------------------------
(***************************************************************************)
(* The QA agent's strip: the agent posts reports on the rings, the fleet   *)
(* page reads all of them, a dashboard those of its application, and each  *)
(* says one thing of the workflow and one of the environment.              *)
(***************************************************************************)
EXTENDS Fleet, Naturals

CONSTANTS
    Slot,       \* the rings of a promotion path
    Said,       \* what the agent says of one: a verdict and an environment
    MaxNews     \* bound on what happens on the servers

ASSUME StripAssumption ==
    /\ Said \subseteq [verdict : {"go", "check", "no_go", "unknown"},
                      env : {"up", "down", "untold"}]
    /\ MaxNews \in Nat

VARIABLES
    reports,    \* the last report on each ring of each application
    strips,     \* cached: the reports of the fleet and of each application
    pushed      \* how many were posted

stripVars == <<reports, strips, pushed>>

Report == [app : App, ring : Slot, said : Said]
Everyone == NoPage      \* the strip of all applications

StripInit ==
    /\ reports = {}
    /\ strips = [k \in App \cup {Everyone} |-> {}]
    /\ pushed = 0

\* A report replaces the one before it; one of the application as a whole counts
\* like that of another ring.
RecordQAReport(report) ==
    /\ pushed < MaxNews /\ pushed' = pushed + 1
    /\ reports' = {p \in reports : <<p.app, p.ring>> # <<report.app, report.ring>>}
                  \cup {report}
    /\ UNCHANGED strips

ReadStrip(k) ==
    /\ strips' = [strips EXCEPT ![k] = {p \in reports : k \in {p.app, Everyone}}]
    /\ UNCHANGED <<reports, pushed>>

SummarizeWorkflow(list) ==
    LET verdicts == {p.said.verdict : p \in list}
    IN  IF list = {} THEN "unknown"
        ELSE IF "no_go" \in verdicts THEN "no_go"
        ELSE IF "check" \in verdicts THEN "check"
        ELSE IF verdicts = {"go"} THEN "go"
        ELSE IF "go" \in verdicts THEN "check" ELSE "unknown"

SummarizeEnv(list) ==
    LET known == {p.said.env : p \in list} \ {"untold"}
    IN  IF known = {} THEN "untold" ELSE IF "down" \in known THEN "down" ELSE "up"

\* What the bar shows of the reports it reads.
Bar(k) == [waiting |-> strips[k] = {}, workflow |-> SummarizeWorkflow(strips[k]),
           env |-> SummarizeEnv(strips[k])]

StripNext ==
    \/ \E report \in Report : RecordQAReport(report)
    \/ \E k \in App \cup {Everyone} : ReadStrip(k)

StripSpec == StripInit /\ [][StripNext]_stripVars

-----------------------------------------------------------------------------
StripTypeOK ==
    /\ reports \subseteq Report
    /\ \A k \in App \cup {Everyone} : strips[k] \subseteq Report
    /\ pushed \in 0..MaxNews

\* The strip of the fleet says no-go when one application's does, go when all do
\* that have reports, and likewise of the environment; for answers of one time.
StripIsTheWorst ==
    LET told == {a \in App : ~Bar(a).waiting}
        Says(k) == Bar(k).workflow
        Tells(k) == Bar(k).env
    IN  strips[Everyone] = UNION {strips[a] : a \in App} =>
          /\ Says(Everyone) = "no_go" <=> \E a \in App : Says(a) = "no_go"
          /\ Says(Everyone) = "go" <=> told # {} /\ \A a \in told : Says(a) = "go"
          /\ Says(Everyone) = "unknown" <=> \A a \in told : Says(a) = "unknown"
          /\ Tells(Everyone) = "down" <=> \E a \in App : Tells(a) = "down"
          /\ Tells(Everyone) = "untold" <=> \A a \in App : Tells(a) = "untold"

=============================================================================
