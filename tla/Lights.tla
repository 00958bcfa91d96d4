-------------------------------- MODULE Lights --------------------------------
(***************************************************************************)
(* The health of the applications as the fleet page, a group's page and an *)
(* application's dashboard show it. The pages share two polls, one for the *)
(* rings of each application and one for the jobs, and each adds the       *)
(* answers up with code of its own.                                        *)
(***************************************************************************)
EXTENDS Strip, FiniteSets

ASSUME LightsAssumption == IsFiniteSet(Slot) /\ App # {}

VARIABLES
    fitted,     \* the rings each application is configured for
    stocked,    \* the rings of each that hold a version
    well,       \* the rings of each that answer their health check
    busy,       \* the applications with a job under way
    rows,       \* cached: the rings of each application
    running,    \* cached: the applications with a job under way
    news        \* what happened so far

worldVars == <<fitted, stocked, well, busy>>
lightsVars == <<worldVars, rows, running, news>>

NotAnswered == <<>>

LightsInit ==
    /\ fitted \in [App -> {{}, Slot}]
    /\ stocked = fitted
    /\ well \in {fitted, [fitted EXCEPT ![CHOOSE a \in App : TRUE] = {}]}
    /\ busy = {} /\ running = {}
    /\ rows = [a \in App |-> NotAnswered]
    /\ news = 0

-----------------------------------------------------------------------------
(* The servers                                                             *)

News ==
    /\ news < MaxNews /\ news' = news + 1
    /\ UNCHANGED <<rows, running>>

JobBegins(a) ==
    /\ News
    /\ busy' = busy \cup {a}
    /\ UNCHANGED <<fitted, stocked, well>>

\* It may end before it has deployed anything.
JobIsOver(a) ==
    /\ News /\ a \in busy
    /\ busy' = busy \ {a}
    /\ \E landed \in {{}} \cup {{r} : r \in fitted[a]} :
         stocked' = [stocked EXCEPT ![a] = @ \cup landed]
    /\ UNCHANGED <<fitted, well>>

HealthTurns(a, r) ==
    /\ News /\ r \in fitted[a]
    /\ well' = [well EXCEPT ![a] = IF r \in @ THEN @ \ {r} ELSE @ \cup {r}]
    /\ UNCHANGED <<fitted, stocked, busy>>

\* A server starts with a ring more or less: one that is new holds nothing, one
\* that is gone keeps the version on record, and nobody asks for its health.
Refit(a, r) ==
    /\ News
    /\ fitted' = [fitted EXCEPT ![a] = IF r \in @ THEN @ \ {r} ELSE @ \cup {r}]
    /\ well' = [well EXCEPT ![a] = @ \ {r}]
    /\ UNCHANGED <<stocked, busy>>

-----------------------------------------------------------------------------
(* The polls                                                               *)

RingViews(a) ==
    [r \in Slot |-> [configured |-> r \in fitted[a], version |-> r \in stocked[a],
                     healthy |-> r \in well[a]]]

\* useGroupRings and useRings share what they cache.
ReadRings(a) ==
    /\ rows' = [rows EXCEPT ![a] = RingViews(a)]
    /\ UNCHANGED <<worldVars, running, news>>

ReadRunning ==
    /\ running' = busy
    /\ UNCHANGED <<worldVars, rows, news>>

-----------------------------------------------------------------------------
(* What the pages make of the rings                                        *)

SummarizeConfigured(views) ==   \* fault: counts the rings that hold nothing
    LET active == {r \in DOMAIN views : views[r].configured}
    IN  [active |-> active, healthy |-> {r \in active : views[r].healthy}]

\* app-health.ts: one sum for the fleet page, the group page and the cards.
Summarize(views) ==
    LET active == {r \in DOMAIN views : views[r].configured /\ views[r].version}
    IN  [active |-> active, healthy |-> {r \in active : views[r].healthy}]

BaseStatus(a) ==
    LET sum == Summarize(rows[a])
    IN  IF rows[a] = NotAnswered THEN "loading"
        ELSE IF sum.active = {} THEN "empty"
        ELSE IF sum.healthy = sum.active THEN "healthy"
        ELSE IF sum.healthy = {} THEN "failed" ELSE "degraded"

Status(a) == IF a \in running THEN "deploying" ELSE BaseStatus(a)

FirstOf(priority, statuses) ==
    LET present == {i \in DOMAIN priority : priority[i] \in statuses}
    IN  IF present = {} THEN "empty"
        ELSE priority[CHOOSE i \in present : \A j \in present : i <= j]

FleetLight ==
    FirstOf(<<"failed", "degraded", "deploying", "loading", "healthy", "empty">>,
            {Status(a) : a \in App})

GroupLight(members) ==
    FirstOf(<<"failed", "degraded", "deploying", "loading", "healthy">>,
            {Status(a) : a \in members})

\* "n apps failing", below the name of the group or on the stage.
Failing(members) == {a \in members : Status(a) = "failed"}

\* status.tsx: the badge of a ring's card and the dot of the member list.
RingHealth(view) ==
    IF ~view.configured THEN "unconfigured"
    ELSE IF ~view.version THEN "empty"
    ELSE IF view.healthy THEN "healthy" ELSE "unhealthy"

\* The dots of the member list, for configured rings.
Dots(a, colour) ==
    {r \in DOMAIN rows[a] : rows[a][r].configured /\ RingHealth(rows[a][r]) = colour}

\* The circles of the spoke and the pills of its lane.
Pills(a, state) ==
    {r \in DOMAIN rows[a] :
        LET v == rows[a][r]
        IN  state = IF ~v.configured THEN "off" ELSE IF ~v.version THEN "empty"
                    ELSE IF v.healthy THEN "healthy" ELSE "failed"}

\* overview-cards.tsx adds up by itself.
Overview(a) ==
    LET active == {r \in DOMAIN rows[a] :
                     rows[a][r].configured /\ rows[a][r].version}
        healthy == {r \in active : rows[a][r].healthy}
    IN  [shown |-> active # {}, of |-> Cardinality(active),
         healthy |-> Cardinality(healthy),
         allHealthy |-> active # {} /\ healthy = active]

\* The row of an application's card, and of the member list.
CardCount(a) ==
    LET sum == Summarize(rows[a])
    IN  [shown |-> sum.active # {}, of |-> Cardinality(sum.active),
         healthy |-> Cardinality(sum.healthy)]

\* "Nothing deployed yet" above the pipeline.
NothingDeployed(a) ==
    \A r \in DOMAIN rows[a] : ~rows[a][r].configured \/ ~rows[a][r].version

-----------------------------------------------------------------------------
LightsNext ==
    \/ \E a \in App : JobBegins(a) \/ JobIsOver(a) \/ ReadRings(a)
    \/ \E a \in App, r \in Slot : HealthTurns(a, r) \/ Refit(a, r)
    \/ ReadRunning

LightsSpec == LightsInit /\ [][LightsNext]_lightsVars

-----------------------------------------------------------------------------
(* Properties                                                              *)

LightsTypeOK ==
    LET View == [configured : BOOLEAN, version : BOOLEAN, healthy : BOOLEAN]
    IN  /\ fitted \in [App -> SUBSET Slot] /\ stocked \in [App -> SUBSET Slot]
        /\ well \in [App -> SUBSET Slot]
        /\ busy \subseteq App /\ running \subseteq App
        /\ \A a \in App : rows[a] = NotAnswered \/ rows[a] \in [Slot -> View]
        /\ news \in 0..MaxNews

\* An application's dots, pills, badges and counts say the same of its rings.
RingsAgree(a) ==
    /\ Dots(a, "healthy") = Pills(a, "healthy")
    /\ Dots(a, "unhealthy") = Pills(a, "failed")
    /\ LET o == Overview(a)  c == CardCount(a)
       IN  /\ o.shown = c.shown /\ o.of = c.of /\ o.healthy = c.healthy
           /\ c.healthy = Cardinality(Dots(a, "healthy"))
           /\ c.of - c.healthy = Cardinality(Dots(a, "unhealthy"))
           /\ o.shown = ~NothingDeployed(a)
           /\ a \notin running => (Status(a) = "healthy" <=> o.allHealthy)

\* The light of some applications is that of the one that is worst off.
LightIsTheWorst(members) ==
    LET red == {a \in members \ running : \E r \in Slot : r \in Dots(a, "unhealthy")}
        light == GroupLight(members)
    IN  /\ light \in {"failed", "degraded"} <=> red # {}
        /\ light = "failed" <=> Failing(members) # {}
        /\ Failing(members) = {a \in red : Dots(a, "healthy") = {}}
        /\ light = "healthy" =>
             /\ members \cap running = {}
             /\ \A a \in members : rows[a] # NotAnswered
                                   /\ (Overview(a).allHealthy \/ NothingDeployed(a))

\* The pages "can never disagree about the same app's health" (app-health.ts,
\* and group-view.tsx of a ring's): every light, dot, badge and count is read off
\* the same answers alike, however old each is; the light of a group or of the
\* fleet is never better than that of a member, unless it deploys; and so is the
\* QA strip of the fleet, against those of the applications.
PagesAgree ==
    /\ \A a \in App : rows[a] # NotAnswered => RingsAgree(a)
    /\ \A members \in SUBSET App : LightIsTheWorst(members)
    /\ FleetLight = GroupLight(App)
    /\ StripIsTheWorst

=============================================================================
