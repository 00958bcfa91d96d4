-------------------------------- MODULE Stage --------------------------------
(***************************************************************************)
(* The dependencies between applications on the stage of the fleet page:   *)
(* declared by the configuration, added and removed by operators through   *)
(* the stage's edit mode, and drawn as the console last read them.         *)
(***************************************************************************)
EXTENDS Fleet, Naturals, FiniteSets

CONSTANTS
    MaxStrokes  \* bound on what the operator and the servers do

VARIABLES
    declared,   \* the dependencies the configuration declares
    added,      \* the dependencies operators added
    suppressed, \* the declared ones operators removed
    drawn,      \* the cached dependencies
    editing,    \* the stage is in "Edit links" mode
    linkFrom,   \* the application a link is drawn from, as a set
    focused,    \* the application whose card is open, as a set
    links,      \* calls to add or remove a dependency in flight
    turnedDown, \* history: the dependencies whose last served call removed them
    redeclared, \* history: those whose declaration has changed
    strokes     \* what the operator and the servers did so far

edgeVars == <<declared, added, suppressed, turnedDown, redeclared>>
handVars == <<editing, linkFrom, focused>>
stageVars == <<edgeVars, links, drawn, handVars, strokes>>

Edge == {e \in App \X App : e[1] # e[2]}

StageInit ==
    /\ declared \in SUBSET Edge
    /\ added = {} /\ suppressed = {} /\ drawn = {}
    /\ editing = FALSE /\ linkFrom = {} /\ focused = {}
    /\ links = {}
    /\ turnedDown = {}
    /\ redeclared = {}
    /\ strokes = 0

Stroke == strokes < MaxStrokes /\ strokes' = strokes + 1

-----------------------------------------------------------------------------
(* The dependencies                                                        *)

\* Declared and added ones, less those removed.
Effective == (declared \cup added) \ suppressed

LinkedTwice(e, op) ==   \* fault: a suppression is never taken back
    /\ op = "remove" => e \in declared \cup added
    /\ IF op = "add" THEN added' = added \cup {e} /\ UNCHANGED suppressed
       ELSE IF e \in added THEN added' = added \ {e} /\ UNCHANGED suppressed
       ELSE suppressed' = suppressed \cup {e} /\ UNCHANGED added

Linked(e, op) ==
    /\ op = "remove" => e \in declared \cup added
    /\ IF op = "add"
       THEN IF e \in declared
            THEN suppressed' = suppressed \ {e} /\ UNCHANGED added
            ELSE added' = added \cup {e} /\ UNCHANGED suppressed
       ELSE IF e \in added
            THEN added' = added \ {e} /\ UNCHANGED suppressed
            ELSE suppressed' = suppressed \cup {e} /\ UNCHANGED added

\* The server restarts with another configuration.
Redeclare(e) ==
    /\ Stroke
    /\ declared' = IF e \in declared THEN declared \ {e} ELSE declared \cup {e}
    /\ redeclared' = redeclared \cup {e}
    /\ UNCHANGED <<added, suppressed, links, turnedDown, drawn, handVars>>

ReadTopology ==
    /\ drawn # Effective
    /\ drawn' = Effective
    /\ UNCHANGED <<edgeVars, links, handVars, strokes>>

SendLink(e, op) == links' = links \cup {[edge |-> e, op |-> op]}

LinkServed(l) ==
    /\ Linked(l.edge, l.op)
    /\ links' = links \ {l}
    /\ turnedDown' = IF l.op = "add" THEN turnedDown \ {l.edge}
                     ELSE turnedDown \cup {l.edge}
    /\ UNCHANGED <<declared, redeclared, drawn, handVars, strokes>>

LinkRefused(l) ==
    /\ links' = links \ {l}
    /\ UNCHANGED <<edgeVars, drawn, handVars, strokes>>

-----------------------------------------------------------------------------
(* The operator's hand on the stage                                        *)

Unmoved == UNCHANGED <<edgeVars, drawn>>

ToggleEditingOnly ==   \* fault: the link begun stays
    /\ Stroke
    /\ editing' = ~editing
    /\ UNCHANGED <<linkFrom, focused, links>>
    /\ Unmoved

ToggleEditing ==
    /\ Stroke
    /\ editing' = ~editing
    /\ linkFrom' = {}
    /\ UNCHANGED <<focused, links>>
    /\ Unmoved

\* A spoke's click: the ends of a link in edit mode, the card otherwise.
ClickSpoke(a) ==
    /\ Stroke
    /\ IF editing
       THEN /\ linkFrom' = IF linkFrom = {} THEN {a} ELSE {}
            /\ \/ /\ \E b \in linkFrom \ {a} : SendLink(<<b, a>>, "add")
               \/ linkFrom \subseteq {a} /\ UNCHANGED links
            /\ UNCHANGED focused
       ELSE /\ focused' = IF focused = {a} THEN {} ELSE {a}
            /\ UNCHANGED <<linkFrom, links>>
    /\ UNCHANGED editing
    /\ Unmoved

\* Of the drawn dependencies edit mode shows all, a card its application's.
ShownEdges == {e \in drawn : editing \/ \E a \in focused : a \in {e[1], e[2]}}

ClickEdge(e) ==
    /\ editing
    /\ Stroke
    /\ SendLink(e, "remove")
    /\ UNCHANGED handVars
    /\ Unmoved

\* The roster beside the stage opens cards in either mode.
ClickRoster(a) ==
    /\ Stroke
    /\ focused' = IF focused = {a} THEN {} ELSE {a}
    /\ UNCHANGED <<editing, linkFrom, links>>
    /\ Unmoved

\* A click beside everything. Escape and the card's button only close the card.
ClickAside ==
    /\ focused # {} \/ linkFrom # {}
    /\ Stroke
    /\ focused' = {}
    /\ linkFrom' \in {{}} \cup IF focused # {} THEN {linkFrom} ELSE {}
    /\ UNCHANGED <<editing, links>>
    /\ Unmoved

-----------------------------------------------------------------------------
StageNext ==
    \/ \E e \in Edge : Redeclare(e)
    \/ ReadTopology
    \/ \E l \in links : LinkServed(l) \/ LinkRefused(l)
    \/ ToggleEditing \/ ClickAside
    \/ \E a \in App : ClickSpoke(a) \/ ClickRoster(a)
    \/ \E e \in ShownEdges : ClickEdge(e)

StageSpec == StageInit /\ [][StageNext]_stageVars

-----------------------------------------------------------------------------
(* Properties                                                              *)

StageTypeOK ==
    /\ declared \in SUBSET Edge /\ added \in SUBSET Edge
    /\ suppressed \in SUBSET Edge /\ drawn \in SUBSET Edge
    /\ turnedDown \in SUBSET Edge /\ redeclared \in SUBSET Edge
    /\ linkFrom \in SUBSET App /\ focused \in SUBSET App
    /\ editing \in BOOLEAN /\ (linkFrom # {} => editing)
    /\ links \in SUBSET [edge : Edge, op : {"add", "remove"}]

\* An operator's last word on a dependency counts, whatever else is declared, added
\* or removed, in whatever order the calls are served, as long as the dependency's
\* own declaration stays (topology.go: AddTopologyEdge, RemoveTopologyEdge). Once it
\* has changed, what was said under the old one may outlive it: a removal then takes
\* back only the operator's own edge, and an addition does not lift a suppression.
LastWordCounts ==
    \A e \in (declared \cup added \cup turnedDown) \ redeclared :
        e \in Effective <=> e \notin turnedDown

=============================================================================
