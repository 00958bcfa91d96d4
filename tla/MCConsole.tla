------------------------------ MODULE MCConsole ------------------------------
(***************************************************************************)
(* Small instances of the console's parts.                                 *)
(***************************************************************************)
EXTENDS Console, TLC

CONSTANTS a, b, s, t, here1, there1, t1, t2, v1, v2

\* Each of two servers accepts a token of its own.
MCGranted == here1 :> {t1} @@ there1 :> {t2}

\* The other cluster knows one of the two applications.
MCConfigured == s :> {a, b} @@ t :> {a}

\* Two groups from the browser's time share an application.
MCLegacy == <<<<a>>, <<b, a>>>>

\* Every gate, in policies that pair those whose inputs meet; two rings that pin
\* nothing go on into one that asks for a code and into one under a no-go.
MCTargets ==
    {[guards |-> {"window", "signoff", "change"}, pin |-> NotGiven,
      chained |-> TRUE, onward |-> {"change", "window"}],
     [guards |-> {"ticket", "service", "metric"}, pin |-> NotGiven,
      chained |-> FALSE, onward |-> {}],
     [guards |-> {"grafana", "security"}, pin |-> NotGiven,
      chained |-> TRUE, onward |-> {"grafana", "service"}],
     [guards |-> {"signoff", "security", "replicas"}, pin |-> v2,
      chained |-> FALSE, onward |-> {}]}

\* One job; three in a line, fanned out, joined, and a pair beside a third.
MCShapes == {<<{}>>, <<{}, {1}, {2}>>, <<{}, {1}, {1}>>, <<{}, {}, {1, 2}>>,
             <<{}, {}, {1}>>}

\* A promotion that every gate guards, a rollback that none does.
MCAsks == {[policed |-> TRUE, scanned |-> TRUE, qa |-> TRUE],
           [policed |-> FALSE, scanned |-> FALSE, qa |-> FALSE]}

\* What the QA agent reports.
MCSaid == {[verdict |-> "go", env |-> "up"], [verdict |-> "check", env |-> "down"],
           [verdict |-> "no_go", env |-> "up"], [verdict |-> "unknown", env |-> "untold"]}
=============================================================================
