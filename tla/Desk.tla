--------------------------------- MODULE Desk ---------------------------------
(***************************************************************************)
(* The release desk of the web console: the page that is shown, the action *)
(* an operator asked for (the ui store's pendingAction), the dialog that   *)
(* confirms it and the calls it sends. Pages change under an open dialog,  *)
(* through the command palette, and answers arrive after their dialog is   *)
(* gone.                                                                   *)
(***************************************************************************)
EXTENDS Fleet, Naturals, FiniteSets

CONSTANTS
    Hop,          \* the rings an action can start from
    MaxGestures,  \* bound on what the operator does
    MaxPosts      \* bound on the calls in flight

VARIABLES
    site,      \* the active cluster
    page,      \* the application whose dashboard is shown
    pending,   \* the ui store's pendingAction, as a set of at most one
    typed,     \* what the open dialog's password and codes were typed for
    posts,     \* calls sent from dialogs, not answered yet
    sent,      \* history: the last call sent
    gestures   \* what the operator did so far

deskVars == <<site, page, pending, typed, posts, sent, gestures>>

Nothing == {}
ActionType == {"seed", "promote", "rollback", "autoPromote"}

DeskInit ==
    /\ site \in Site
    /\ page = NoPage
    /\ pending = Nothing
    /\ typed = Nothing
    /\ posts = {}
    /\ sent = Nothing
    /\ gestures = 0

Gesture == gestures < MaxGestures /\ gestures' = gestures + 1

\* Every action is tagged with its application and only honored on its page.
Aimed(actions, p) == {a \in actions : a.app = p}
Shown == Aimed(pending, page)

\* The component that shows an action: the promote dialog is keyed by its
\* ring, the others are mounted for as long as their kind of action is shown.
InstanceUnkeyed(a) == <<a.type, "any">>   \* fault: one dialog for all rings
Instance(a) == <<a.type, IF a.type = "promote" THEN a.ring ELSE "any">>
Instances(actions) == {Instance(a) : a \in actions}

\* What a change from the shown actions to others does to a dialog's fields and
\* to the callbacks of its calls: both go with the component. The rollback
\* dialog is always mounted on a dashboard, whatever the application.
Remount(before, after, p) ==
    /\ typed' = IF Instances(before) = Instances(after) THEN typed ELSE Nothing
    /\ posts' = {[m EXCEPT !.heard = @ /\ IF m.type = "rollback" THEN p # NoPage
                                          ELSE Instance(m) \in Instances(after)]
                   : m \in posts}

-----------------------------------------------------------------------------
(* Pages                                                                   *)

\* A dashboard drops an action aimed at another application.
SelectApp(a) ==
    /\ a # page
    /\ Gesture
    /\ page' = a
    /\ pending' = Aimed(pending, a)
    /\ Remount(Shown, pending', a)
    /\ UNCHANGED <<site, sent>>

\* The overview, a group's or a pipeline's page: no dialogs, no dropping.
Leave ==
    /\ page # NoPage
    /\ Gesture
    /\ page' = NoPage
    /\ Remount(Shown, Nothing, NoPage)
    /\ UNCHANGED <<site, pending, sent>>

\* useSwitchCluster returns to the overview of the other cluster.
SwitchSite(s) ==
    /\ s # site
    /\ Gesture
    /\ site' = s
    /\ page' = NoPage
    /\ Remount(Shown, Nothing, NoPage)
    /\ UNCHANGED <<pending, sent>>

-----------------------------------------------------------------------------
(* Actions and their dialogs                                               *)

\* A card, a details sheet or the palette asks for an action on this page.
Ask(type, ring) ==
    /\ page # NoPage
    /\ Gesture
    /\ pending' = {[type |-> type, app |-> page, ring |-> ring]}
    /\ Remount(Shown, pending', page)
    /\ UNCHANGED <<site, page, sent>>

\* The seed button of an application on the overview or on a group's page asks
\* first and shows that application's dashboard then; its ring is the first one.
SeedFromStage(a, ring) ==
    /\ page = NoPage
    /\ Gesture
    /\ pending' = {[type |-> "seed", app |-> a, ring |-> ring]}
    /\ page' = a
    /\ Remount(Shown, pending', a)
    /\ UNCHANGED <<site, sent>>

\* The operator types a password, a change-request code or a reason.
TypeCodes ==
    /\ typed = Nothing
    /\ \E a \in Shown :
         /\ a.type # "rollback"
         /\ typed' = {<<site, a.app, a.ring>>}
    /\ Gesture
    /\ UNCHANGED <<site, page, pending, posts, sent>>

Cancel ==
    /\ Shown # Nothing
    /\ Gesture
    /\ pending' = Nothing
    /\ Remount(Shown, Nothing, page)
    /\ UNCHANGED <<site, page, sent>>

\* The button is disabled while the dialog's own call is pending. The call
\* goes to the active cluster. Only the rollback dialog closes at once, and it
\* listens to the last call it made.
Confirm ==
    \E a \in Shown :
      LET post == [type |-> a.type, app |-> page, ring |-> a.ring, site |-> site,
                   codes |-> typed, heard |-> TRUE]
      IN  /\ Cardinality(posts) < MaxPosts
          /\ \A m \in posts : m.heard /\ m.type # "rollback" => m.type # a.type
          /\ Gesture
          /\ sent' = {post}
          /\ IF a.type = "rollback"
             THEN /\ pending' = Nothing
                  /\ typed' = Nothing
                  /\ posts' = {post} \cup
                       {[m EXCEPT !.heard = @ /\ m.type # "rollback"] : m \in posts}
             ELSE /\ posts' = posts \cup {post}
                  /\ UNCHANGED <<pending, typed>>
          /\ UNCHANGED <<site, page>>

\* Success closes the dialog, if the component that made the call is there.
PostSucceeded(m) ==
    /\ pending' = IF m.heard THEN Nothing ELSE pending
    /\ typed' = IF m.heard THEN Nothing ELSE typed
    /\ posts' = {[n EXCEPT !.heard = @ /\ (m.heard => n.type = "rollback")]
                   : n \in posts \ {m}}
    /\ UNCHANGED <<site, page, sent, gestures>>

\* An error is shown in the dialog, which stays to be corrected.
PostFailed(m) ==
    /\ posts' = posts \ {m}
    /\ UNCHANGED <<site, page, pending, typed, sent, gestures>>

DeskNext ==
    \/ \E a \in App : SelectApp(a)
    \/ Leave
    \/ \E s \in Site : SwitchSite(s)
    \/ \E type \in ActionType, ring \in Hop : Ask(type, ring)
    \/ \E a \in App, ring \in Hop : SeedFromStage(a, ring)
    \/ TypeCodes \/ Cancel \/ Confirm
    \/ \E m \in posts : PostSucceeded(m) \/ PostFailed(m)

DeskSpec == DeskInit /\ [][DeskNext]_deskVars

-----------------------------------------------------------------------------
(* Properties                                                              *)

DeskTypeOK ==
    LET Action == [type : ActionType, app : App, ring : Hop]
        Post == [type : ActionType, app : App, ring : Hop, site : Site,
                 codes : SUBSET (Site \X App \X Hop), heard : BOOLEAN]
    IN  /\ site \in Site
        /\ page \in App \cup {NoPage}
        /\ pending \in SUBSET Action /\ Cardinality(pending) <= 1
        /\ typed \in SUBSET (Site \X App \X Hop)
        /\ posts \in SUBSET Post
        /\ sent \in SUBSET Post

\* A production password, a change-request code or an override reason is only
\* sent with the promotion it was typed for: the application and the ring the
\* dialog showed then, on that cluster (action-dialogs.tsx: the dialogs are
\* mounted anew for another ring, and gone when the page changes).
CodesFitThePromotion ==
    \A m \in sent : m.type = "promote" =>
        m.codes \subseteq {<<m.site, m.app, m.ring>>}

=============================================================================
