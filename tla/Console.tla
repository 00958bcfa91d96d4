------------------------------- MODULE Console -------------------------------
(***************************************************************************)
(* The web console's parts side by side. A part is a state machine of its  *)
(* own: no variable of one is read or written by another, so a behaviour   *)
(* of the whole is an interleaving of theirs, and a property of one part   *)
(* is decided by that part's steps. A behaviour here plays one scene, the  *)
(* steps of one part, and leaves the others where they start.              *)
(***************************************************************************)
EXTENDS Session, Desk, Answers, Board, Groups, Spoke, Stage, RunDesk,
        Gates, Flow, Strip, Lights

CONSTANT Scenes   \* which parts are played

ASSUME SceneAssumption ==
    Scenes \subseteq {"session", "desk", "answers", "board", "groups", "spoke", "stage",
                      "runs", "gates", "flow", "strip", "lights"}

VARIABLE scene    \* the one that is

Off(s, atStart) == scene = s \/ atStart

\* A part that is not played starts in one of its initial states; the desk starts
\* on one cluster, since it treats all alike.
ConsoleInit ==
    /\ scene \in Scenes
    /\ SessionInit
    /\ DeskInit
    /\ site = CHOOSE s \in Site : TRUE
    /\ AnswersInit
    /\ Off("answers", kind = "job")
    /\ BoardInit
    /\ GroupsInit
    /\ SpokeInit
    /\ Off("spoke", wired = Ring)
    /\ StageInit
    /\ Off("stage", declared = {})
    /\ RunDeskInit
    /\ GatesInit
    /\ Off("gates", target = (CHOOSE r \in Targets : TRUE)
                    /\ source = (CHOOSE v \in Version : TRUE) /\ findings = {})
    /\ FlowInit
    /\ Off("flow", chart = "job" /\ guard = (CHOOSE r \in Asks : TRUE)
                   /\ needed = (CHOOSE n \in Shapes : \A m \in Shapes : Len(n) <= Len(m)))
    /\ StripInit
    /\ LightsInit
    /\ Off("lights", fitted = [x \in App |-> Slot] /\ well = fitted)

SessionScene ==
    /\ scene = "session"
    /\ SessionNext
    /\ UNCHANGED <<scene, deskVars, answersVars, boardVars, groupsVars, spokeVars,
                   stageVars, runDeskVars, gatesVars, flowVars, stripVars,
                   lightsVars>>

DeskScene ==
    /\ scene = "desk"
    /\ DeskNext
    /\ UNCHANGED <<scene, sessionVars, answersVars, boardVars, groupsVars, spokeVars,
                   stageVars, runDeskVars, gatesVars, flowVars, stripVars,
                   lightsVars>>

AnswersScene ==
    /\ scene = "answers"
    /\ AnswersNext
    /\ UNCHANGED <<scene, sessionVars, deskVars, boardVars, groupsVars, spokeVars,
                   stageVars, runDeskVars, gatesVars, flowVars, stripVars,
                   lightsVars>>

BoardScene ==
    /\ scene = "board"
    /\ BoardNext
    /\ UNCHANGED <<scene, sessionVars, deskVars, answersVars, groupsVars, spokeVars,
                   stageVars, runDeskVars, gatesVars, flowVars, stripVars,
                   lightsVars>>

GroupsScene ==
    /\ scene = "groups"
    /\ GroupsNext
    /\ UNCHANGED <<scene, sessionVars, deskVars, answersVars, boardVars, spokeVars,
                   stageVars, runDeskVars, gatesVars, flowVars, stripVars,
                   lightsVars>>

SpokeScene ==
    /\ scene = "spoke"
    /\ SpokeNext
    /\ UNCHANGED <<scene, sessionVars, deskVars, answersVars, boardVars, groupsVars,
                   stageVars, runDeskVars, gatesVars, flowVars, stripVars,
                   lightsVars>>

StageScene ==
    /\ scene = "stage"
    /\ StageNext
    /\ UNCHANGED <<scene, sessionVars, deskVars, answersVars, boardVars, groupsVars,
                   spokeVars, runDeskVars, gatesVars, flowVars, stripVars,
                   lightsVars>>

RunDeskScene ==
    /\ scene = "runs"
    /\ RunDeskNext
    /\ UNCHANGED <<scene, sessionVars, deskVars, answersVars, boardVars, groupsVars,
                   spokeVars, stageVars, gatesVars, flowVars, stripVars,
                   lightsVars>>

GatesScene ==
    /\ scene = "gates"
    /\ GatesNext
    /\ UNCHANGED <<scene, sessionVars, deskVars, answersVars, boardVars, groupsVars,
                   spokeVars, stageVars, runDeskVars, flowVars, stripVars,
                   lightsVars>>

FlowScene ==
    /\ scene = "flow"
    /\ FlowNext
    /\ UNCHANGED <<scene, sessionVars, deskVars, answersVars, boardVars, groupsVars,
                   spokeVars, stageVars, runDeskVars, gatesVars, stripVars,
                   lightsVars>>

StripScene ==
    /\ scene = "strip"
    /\ StripNext
    /\ UNCHANGED <<scene, sessionVars, deskVars, answersVars, boardVars, groupsVars,
                   spokeVars, stageVars, runDeskVars, gatesVars, flowVars,
                   lightsVars>>

LightsScene ==
    /\ scene = "lights"
    /\ LightsNext
    /\ UNCHANGED <<scene, sessionVars, deskVars, answersVars, boardVars, groupsVars,
                   spokeVars, stageVars, runDeskVars, gatesVars, flowVars,
                   stripVars>>

ConsoleNext ==
    \/ SessionScene \/ DeskScene \/ AnswersScene
    \/ BoardScene \/ GroupsScene \/ SpokeScene
    \/ StageScene \/ RunDeskScene \/ GatesScene
    \/ FlowScene \/ StripScene \/ LightsScene

consoleVars == <<scene, sessionVars, deskVars, answersVars, boardVars, groupsVars,
                 spokeVars, stageVars, runDeskVars, gatesVars, flowVars, stripVars,
                 lightsVars>>

ConsoleSpec ==
    /\ ConsoleInit
    /\ [][ConsoleNext]_consoleVars
    /\ scene = "session" => SessionFairness

\* Types of the part that is played; the others are as they started.
ConsoleTypeOK ==
    CASE scene = "session" -> SessionTypeOK  [] scene = "desk" -> DeskTypeOK
      [] scene = "answers" -> AnswersTypeOK  [] scene = "board" -> BoardTypeOK
      [] scene = "groups" -> GroupsTypeOK    [] scene = "spoke" -> SpokeTypeOK
      [] scene = "stage" -> StageTypeOK      [] scene = "runs" -> RunDeskTypeOK
      [] scene = "gates" -> GatesTypeOK      [] scene = "flow" -> FlowTypeOK
      [] scene = "strip" -> StripTypeOK      [] scene = "lights" -> LightsTypeOK

=============================================================================
