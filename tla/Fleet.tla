-------------------------------- MODULE Fleet --------------------------------
(* What the web console's modules share: the clusters it can be on, their   *)
(* applications, and that none of their dashboards may be on screen.        *)
CONSTANTS
    Site,    \* the clusters; an application has the same name on each
    App,     \* their applications
    NoPage   \* the pages that are not an application's dashboard

ASSUME FleetAssumption == Site # {} /\ NoPage \notin App

=============================================================================
