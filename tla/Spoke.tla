-------------------------------- MODULE Spoke --------------------------------
(***************************************************************************)
(* One application's spoke on the stage of the fleet page, read off the    *)
(* answer that lists its rings (descent-layout.ts).  Rings change while    *)
(* that answer is put together: the server reads one row after the other.  *)
(***************************************************************************)
EXTENDS Naturals, FiniteSets, FiniteSetsExt

CONSTANTS
    Depth,      \* how many rings there are, the last one is production
    MaxBuilds,  \* bound on the versions that are built
    MaxTurns    \* bound on what operators and servers do

ASSUME SpokeAssumption ==
    Depth \in Nat \ {0} /\ MaxBuilds \in Nat /\ MaxTurns \in Nat

Ring == 1..Depth
Nowhere == 0        \* -1: no such ring
NoBuild == 0        \* no version; builds are numbered in their order

VARIABLES
    wired,      \* the rings the application is configured for
    held,       \* what each ring holds, and held before
    shut,       \* the rings whose gate is closed
    reading,    \* the rows read so far for the answer under way
    seenRings,  \* the cached answer
    strays,     \* history: how a version came where it was not promoted to
    turns       \* what operators and servers did so far

spokeVars == <<wired, held, shut, reading, seenRings, strays, turns>>

Row(r) == [version |-> held[r].cur, gate |-> r \in shut]

SpokeInit ==
    /\ wired \in SUBSET Ring
    /\ held = [r \in Ring |-> [cur |-> NoBuild, prev |-> NoBuild]]
    /\ shut = {}
    /\ reading = <<>>
    /\ seenRings = <<>>
    /\ strays = {}
    /\ turns = 0

Turn == turns < MaxTurns /\ turns' = turns + 1

-----------------------------------------------------------------------------
(* The rings, as the server moves versions between them                    *)

Holding == {r \in wired : held[r].cur # NoBuild}
Deployed == {held[r].cur : r \in Holding}
EntryRing == Min(wired)

\* The version strays as said, and when the answer under way has read the ring
\* already: it will then tell of two moments.
Deploy(r, v, stray) ==
    /\ held' = [held EXCEPT ![r] = [cur |-> v, prev |-> @.cur]]
    /\ strays' = strays \cup stray
                        \cup (IF r \in DOMAIN reading THEN {"torn"} ELSE {})
    /\ UNCHANGED <<wired, shut, reading, seenRings>>

\* Any version may be seeded into any ring: it strays when the ring is not the
\* first or the version is older than what is deployed.
SeedRing(r, v) ==
    /\ Turn
    /\ Deploy(r, v, IF r = EntryRing /\ \A w \in Deployed : w <= v THEN {}
                    ELSE {"seed"})

\* Only to the very next ring, and only if it is configured.
PromoteRing(r) ==
    /\ r \in Holding /\ r + 1 \in wired
    /\ Turn
    /\ Deploy(r + 1, held[r].cur, {})

RollbackRing(r) ==
    /\ r \in Holding /\ held[r].prev # NoBuild
    /\ Turn
    /\ Deploy(r, held[r].prev, {"rollback"})

\* A maintenance window opens or closes, Grafana says no-go or go.
TurnGate(r) ==
    /\ Turn
    /\ shut' = IF r \in shut THEN shut \ {r} ELSE shut \cup {r}
    /\ UNCHANGED <<wired, held, reading, seenRings, strays>>

\* The answer that lists the rings: one row after the other.
ReadRow ==
    LET next == Cardinality(DOMAIN reading) + 1
    IN  /\ next < Depth
        /\ reading' = [r \in 1..next |-> IF r < next THEN reading[r] ELSE Row(r)]
        /\ UNCHANGED <<wired, held, shut, seenRings, strays, turns>>

RingsAnswered ==
    /\ Cardinality(DOMAIN reading) = Depth - 1
    /\ seenRings' = [r \in Ring |-> IF r < Depth THEN reading[r] ELSE Row(r)]
    /\ reading' = <<>>
    /\ seenRings' # seenRings \/ reading # <<>>
    /\ UNCHANGED <<wired, held, shut, strays, turns>>

-----------------------------------------------------------------------------
(* The spoke: buildSpoke, nextRingIndex, summarizeRings                    *)

NodeState(rows, r) ==
    IF r \notin wired THEN "off"
    ELSE IF rows[r].version = NoBuild THEN "empty" ELSE "deployed"

OnSpoke(rows) == {r \in Ring : NodeState(rows, r) = "deployed"}

BuildSpokeInward(rows) ==   \* fault: looks from production outwards
    LET newest == IF OnSpoke(rows) = {} THEN NoBuild
                  ELSE rows[Max(OnSpoke(rows))].version
        frontier == Max({r \in OnSpoke(rows) : rows[r].version = newest} \cup {Nowhere})
    IN  [newest |-> newest, frontier |-> frontier, gateAt |-> Nowhere]

\* The outermost version is taken for the newest one; the frontier is the
\* deepest ring that holds it.
BuildSpoke(rows) ==
    LET newest == IF OnSpoke(rows) = {} THEN NoBuild
                  ELSE rows[Min(OnSpoke(rows))].version
        frontier == Max({r \in OnSpoke(rows) : rows[r].version = newest} \cup {Nowhere})
        after == {r \in Ring : r > frontier /\ NodeState(rows, r) # "off"}
        gated == frontier # Nowhere /\ after # {} /\ rows[Min(after)].gate
    IN  [newest |-> newest, frontier |-> frontier,
         gateAt |-> IF gated THEN Min(after) ELSE Nowhere]

\* The next ring of the spoke, configured for this application.
NextOnSpoke(rows, spoke) ==
    LET after == {r \in Ring : r > spoke.frontier /\ NodeState(rows, r) # "off"}
    IN  IF spoke.frontier = Nowhere \/ after = {} THEN Nowhere ELSE Min(after)

\* The applications counted as live in production.
InProduction(rows) ==
    LET spoke == BuildSpoke(rows)
    IN  spoke.frontier # Nowhere /\ NextOnSpoke(rows, spoke) = Nowhere

\* SpokeView: a trail out to the frontier, a bar for the gate that is closed, a
\* comet to the next ring when a deployment is under way, a circle per ring.
Drawn(rows, spoke) ==
    [trail |-> 1..spoke.frontier,
     bar |-> spoke.gateAt,
     comet |-> NextOnSpoke(rows, spoke),
     circle |-> [r \in {o \in Ring : NodeState(rows, o) # "off"} |->
                   IF NodeState(rows, r) = "empty" THEN "dot"
                   ELSE IF rows[r].version = spoke.newest THEN "filled"
                   ELSE "outlined"]]

\* NodeCard: the rings as rows, with the version and what is said of it.
CardRows(rows, spoke) ==
    [r \in {o \in Ring : NodeState(rows, o) # "off"} |->
        [version |-> rows[r].version,
         older |-> rows[r].version \notin {NoBuild, spoke.newest},
         closed |-> rows[r].gate]]

-----------------------------------------------------------------------------
SpokeNext ==
    \/ \E r \in wired : RollbackRing(r) \/ PromoteRing(r) \/ TurnGate(r)
    \/ \E r \in wired, v \in 1..MaxBuilds : SeedRing(r, v)
    \/ ReadRow \/ RingsAnswered

SpokeSpec == SpokeInit /\ [][SpokeNext]_spokeVars

-----------------------------------------------------------------------------
(* Properties                                                              *)

SpokeTypeOK ==
    LET View == [version : 0..MaxBuilds, gate : BOOLEAN]
    IN  /\ wired \in SUBSET Ring /\ shut \in SUBSET Ring
        /\ held \in [Ring -> [cur : 0..MaxBuilds, prev : 0..MaxBuilds]]
        /\ \E n \in 0..(Depth - 1) : reading \in [1..n -> View]
        /\ seenRings = <<>> \/ seenRings \in [Ring -> View]
        /\ strays \in SUBSET {"seed", "torn", "rollback"}
        /\ turns \in 0..MaxTurns

\* The drawing, the card and the count of live applications are computed apart and
\* tell one story of an answer, whatever was seeded, rolled back or read in two
\* moments: the rings that are filled lie on the trail, the card calls older what is
\* outlined, the bar is the closed gate of the ring the trail enters next, and live is
\* what holds the version in its last ring. The trail is wholly filled, and its version
\* the newest there is, as long as every version entered at the first ring, newer
\* than all, and went on by promotion, and the answer is of one moment
\* (descent-layout.ts: buildSpoke; descent-stage.tsx: SpokeView, NodeCard).
SpokeTellsTheTruth ==
    seenRings # <<>> =>
      LET spoke == BuildSpoke(seenRings)
          drawn == Drawn(seenRings, spoke)
          card == CardRows(seenRings, spoke)
          next == drawn.comet
      IN  /\ \A r \in wired : /\ drawn.circle[r] = "filled" => r \in drawn.trail
                              /\ card[r].older <=> drawn.circle[r] = "outlined"
          /\ drawn.bar = IF next # Nowhere /\ card[next].closed THEN next ELSE Nowhere
          /\ InProduction(seenRings)
               <=> /\ wired # {} /\ spoke.newest # NoBuild
                   /\ card[Max(wired)].version = spoke.newest
          /\ strays = {} =>
               \A r \in wired : /\ r \in drawn.trail => drawn.circle[r] = "filled"
                                /\ card[r].version <= spoke.newest

=============================================================================
