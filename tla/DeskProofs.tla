----------------------------- MODULE DeskProofs -----------------------------
(***************************************************************************)
(* Proofs about the pages of one application, for any clusters,            *)
(* applications, rings and bounds: the dialogs send codes where they were  *)
(* typed for, the pipeline page shows runs as they ended, a green          *)
(* checklist is a go, panels watch AI answers to the end, and the          *)
(* dashboard announces its jobs and comes to show what the server has.     *)
(***************************************************************************)
EXTENDS Desk, RunDesk, Gates, Answers, Board, FiniteSetTheorems, TLAPS

Action == [type : ActionType, app : App, ring : Hop]
Posting == [type : ActionType, app : App, ring : Hop, site : Site,
            codes : SUBSET (Site \X App \X Hop), heard : BOOLEAN]

\* The types, with the one pending action said without counting.
DeskTypes ==
    /\ site \in Site
    /\ page \in App \cup {NoPage}
    /\ pending \in SUBSET Action
    /\ \A a, b \in pending : a = b
    /\ typed \in SUBSET (Site \X App \X Hop)
    /\ posts \in SUBSET Posting
    /\ sent \in SUBSET Posting

\* What makes it inductive: nothing is typed while no dialog is shown, and what
\* is typed in a promotion's is for the promotion it shows.
TypedFits ==
    /\ typed # {} => Shown # {}
    /\ \A a \in Shown : a.type = "promote" => typed \subseteq {<<site, a.app, a.ring>>}

DeskInv == DeskTypes /\ TypedFits /\ CodesFitThePromotion

-----------------------------------------------------------------------------
(* The helpers                                                             *)

\* A remount keeps the codes of a dialog that stays, and drops all others; the
\* calls stay what they are.
LEMMA RemountEffect ==
    ASSUME DeskTypes, NEW before, NEW after, NEW p, Remount(before, after, p)
    PROVE  /\ typed' = IF Instances(before) = Instances(after) THEN typed ELSE {}
           /\ posts' \subseteq Posting
  <1>1. typed' = IF Instances(before) = Instances(after) THEN typed ELSE {}
    BY Zenon DEF Remount, Nothing
  <1>2. ASSUME NEW q \in posts' PROVE q \in Posting
    <2> DEFINE heard(m) == m.heard /\ IF m.type = "rollback" THEN p # NoPage
                                      ELSE Instance(m) \in Instances(after)
    <2>1. PICK m \in posts : q = [m EXCEPT !.heard = heard(m)]
      BY Zenon DEF Remount
    <2>2. m \in Posting /\ heard(m) \in BOOLEAN
      BY DEF DeskTypes, Posting
    <2> HIDE DEF heard
    <2> QED BY <2>1, <2>2 DEF Posting
  <1> QED BY <1>1, <1>2

\* Off the dashboards no action is shown.
LEMMA NothingOffPage == ASSUME DeskTypes PROVE Aimed(pending, NoPage) = {}
  BY FleetAssumption DEF DeskTypes, Aimed, Action

\* A promotion is shown before and after with the same component only if its
\* ring is the same.
LEMMA SamePromotion ==
    ASSUME NEW before, NEW after, Instances(before) = Instances(after),
           NEW a \in after, a.type = "promote"
    PROVE  \E b \in before : b.type = "promote" /\ b.ring = a.ring
  <1>1. <<"promote", a.ring>> \in Instances(after)
    BY DEF Instances, Instance
  <1>2. PICK b \in before : Instance(b) = <<"promote", a.ring>>
    BY <1>1 DEF Instances
  <1> QED BY <1>2 DEF Instance

\* A step that shows other actions on this page and cluster.
LEMMA AskedFits ==
    ASSUME DeskInv, pending' \in SUBSET Action, \A a, b \in pending' : a = b,
           page' = page, site' = site, sent' = sent,
           Remount(Shown, Aimed(pending', page), page)
    PROVE  DeskInv'
  <1>1. /\ typed' = IF Instances(Shown) = Instances(Shown') THEN typed ELSE {}
        /\ posts' \subseteq Posting
    BY RemountEffect DEF DeskInv, Shown
  <1>2. DeskTypes'
    BY <1>1 DEF DeskInv, DeskTypes
  <1>3. typed' # {} => Shown' # {}
    <2> SUFFICES ASSUME typed' # {} PROVE Shown' # {}
      OBVIOUS
    <2>1. Instances(Shown) = Instances(Shown') /\ Shown # {}
      BY <1>1 DEF DeskInv, TypedFits
    <2> QED BY <2>1 DEF Instances
  <1>4. ASSUME NEW a \in Shown', a.type = "promote"
        PROVE  typed' \subseteq {<<site', a.app, a.ring>>}
    <2>1. CASE Instances(Shown) = Instances(Shown')
      <3>1. PICK b \in Shown : b.type = "promote" /\ b.ring = a.ring
        BY <2>1, <1>4, SamePromotion
      <3>2. a.app = page /\ b.app = page
        BY DEF Shown, Aimed
      <3> QED BY <3>1, <3>2, <2>1, <1>1 DEF DeskInv, TypedFits
    <2>2. CASE Instances(Shown) # Instances(Shown')
      BY <2>2, <1>1
    <2> QED BY <2>1, <2>2
  <1>5. TypedFits'
    BY <1>3, <1>4 DEF TypedFits
  <1>6. CodesFitThePromotion'
    BY DEF DeskInv, CodesFitThePromotion
  <1> QED BY <1>2, <1>5, <1>6 DEF DeskInv

\* A step to another page, which may show an action that was not shown before.
LEMMA MovedFits ==
    ASSUME DeskInv, NEW p \in App \cup {NoPage}, site' \in Site, page' = p,
           pending' \in SUBSET Action, \A a, b \in pending' : a = b, sent' = sent,
           Shown # {} => Aimed(pending', p) = {},
           Remount(Shown, Aimed(pending', p), p)
    PROVE  DeskInv'
  <1>1. /\ typed' = IF Instances(Shown) = Instances(Shown') THEN typed ELSE {}
        /\ posts' \subseteq Posting
    BY RemountEffect DEF DeskInv, Shown
  <1>2. Shown' = Aimed(pending', p)
    BY DEF Shown
  <1>3. typed' = {}
    <2>1. CASE Shown = {}
      BY <2>1, <1>1 DEF DeskInv, TypedFits
    <2>2. CASE Shown # {}
      <3>1. Instances(Shown) # Instances(Shown')
        BY <2>2, <1>2 DEF Instances
      <3> QED BY <3>1, <1>1
    <2> QED BY <2>1, <2>2
  <1>4. DeskTypes'
    BY <1>1, <1>3 DEF DeskInv, DeskTypes
  <1> QED BY <1>3, <1>4 DEF DeskInv, TypedFits, CodesFitThePromotion

-----------------------------------------------------------------------------
(* The actions                                                             *)

LEMMA InitFits == ASSUME DeskInit PROVE DeskInv
  BY FleetAssumption DEF DeskInit, Nothing, DeskInv, DeskTypes, TypedFits, CodesFitThePromotion,
     Shown, Aimed

\* A dashboard drops what is aimed elsewhere, and what was shown was aimed at
\* the page that is left.
LEMMA SelectAppFits == ASSUME DeskInv, NEW a \in App, SelectApp(a) PROVE DeskInv'
  <1>1. Aimed(pending', a) = pending' /\ pending' \subseteq pending
    BY DEF SelectApp, Aimed
  <1>2. Shown # {} => pending' = {}
    BY DEF DeskInv, DeskTypes, SelectApp, Shown, Aimed
  <1>3. /\ page' = a /\ site' \in Site /\ sent' = sent
        /\ pending' \in SUBSET Action /\ \A x, y \in pending' : x = y
        /\ Remount(Shown, Aimed(pending', a), a)
    BY <1>1 DEF DeskInv, DeskTypes, SelectApp
  <1> QED BY <1>1, <1>2, <1>3, MovedFits

LEMMA LeaveFits == ASSUME DeskInv, Leave PROVE DeskInv'
  <1>1. Aimed(pending', NoPage) = {}
    BY NothingOffPage DEF DeskInv, Leave, Aimed
  <1> QED BY <1>1, MovedFits DEF DeskInv, DeskTypes, Leave, Nothing

LEMMA SwitchSiteFits == ASSUME DeskInv, NEW s \in Site, SwitchSite(s) PROVE DeskInv'
  <1>1. Aimed(pending', NoPage) = {}
    BY NothingOffPage DEF DeskInv, SwitchSite, Aimed
  <1> QED BY <1>1, MovedFits DEF DeskInv, DeskTypes, SwitchSite, Nothing

LEMMA AskFits ==
    ASSUME DeskInv, NEW type \in ActionType, NEW ring \in Hop, Ask(type, ring)
    PROVE  DeskInv'
  <1>1. page \in App
    BY DEF DeskInv, DeskTypes, Ask
  <1>2. Aimed(pending', page) = pending' /\ pending' \in SUBSET Action
        /\ \A a, b \in pending' : a = b
    BY <1>1 DEF Ask, Aimed, Action
  <1> QED BY <1>2, AskedFits DEF Ask

\* Nothing is shown before: the overview has no dialogs.
LEMMA SeedFromStageFits ==
    ASSUME DeskInv, NEW a \in App, NEW ring \in Hop, SeedFromStage(a, ring)
    PROVE  DeskInv'
  <1>1. Aimed(pending', a) = pending' /\ pending' \in SUBSET Action
        /\ \A x, y \in pending' : x = y
    BY DEF SeedFromStage, Aimed, Action, ActionType
  <1>2. Shown = {}
    BY NothingOffPage DEF DeskInv, SeedFromStage, Shown
  <1> QED BY <1>1, <1>2, MovedFits DEF DeskInv, DeskTypes, SeedFromStage

LEMMA CancelFits == ASSUME DeskInv, Cancel PROVE DeskInv'
  <1>1. Aimed(pending', page) = {} /\ pending' = {}
    BY DEF Cancel, Nothing, Aimed
  <1> QED BY <1>1, AskedFits DEF Cancel, Nothing

\* Codes are typed for the one action that is shown.
LEMMA TypeCodesFits == ASSUME DeskInv, TypeCodes PROVE DeskInv'
  <1>1. PICK a \in Shown : typed' = {<<site, a.app, a.ring>>}
    BY DEF TypeCodes
  <1>2. /\ site' = site /\ page' = page /\ pending' = pending /\ posts' = posts
        /\ sent' = sent /\ Shown' = Shown
    BY DEF TypeCodes, Shown
  <1>3. a \in Action /\ \A b \in Shown : b = a
    BY DEF Shown, Aimed, DeskInv, DeskTypes
  <1>4. site \in Site
    BY DEF DeskInv, DeskTypes
  <1>5. DeskTypes'
    BY <1>1, <1>2, <1>3, <1>4 DEF DeskInv, DeskTypes, Action
  <1>6. TypedFits'
    BY <1>1, <1>2, <1>3 DEF TypedFits
  <1> QED BY <1>2, <1>5, <1>6 DEF DeskInv, CodesFitThePromotion

LEMMA ConfirmFits == ASSUME DeskInv, Confirm PROVE DeskInv'
  <1> DEFINE made(a) == [type |-> a.type, app |-> page, ring |-> a.ring, site |-> site,
                         codes |-> typed, heard |-> TRUE]
             muted == {[m EXCEPT !.heard = @ /\ m.type # "rollback"] : m \in posts}
  <1>1. PICK a \in Shown :
          /\ sent' = {made(a)}
          /\ site' = site /\ page' = page
          /\ IF a.type = "rollback"
             THEN pending' = {} /\ typed' = {} /\ posts' = {made(a)} \cup muted
             ELSE posts' = posts \cup {made(a)} /\ pending' = pending /\ typed' = typed
    BY Zenon DEF Confirm, Nothing
  <1>2. a \in Action /\ a.app = page /\ page \in App
    BY DEF Shown, Aimed, DeskInv, DeskTypes, Action
  <1>3. made(a) \in Posting
    BY <1>2 DEF Posting, Action, DeskInv, DeskTypes
  <1>4. made(a).type = a.type /\ made(a).site = site /\ made(a).app = a.app
        /\ made(a).ring = a.ring /\ made(a).codes = typed
    BY <1>2
  <1>5. ASSUME NEW q \in muted PROVE q \in Posting
    <2>1. PICK m \in posts : q = [m EXCEPT !.heard = m.heard /\ m.type # "rollback"]
      BY <1>5, Zenon
    <2>2. m \in Posting
      BY DEF DeskInv, DeskTypes
    <2> QED BY <2>1, <2>2 DEF Posting
  <1> HIDE DEF made, muted
  <1>6. DeskTypes'
    BY <1>1, <1>3, <1>5 DEF DeskInv, DeskTypes
  <1>7. TypedFits'
    BY <1>1 DEF DeskInv, TypedFits, Shown, Aimed
  <1>8. CodesFitThePromotion'
    <2>1. a.type = "promote" => typed \subseteq {<<site, a.app, a.ring>>}
      BY DEF DeskInv, TypedFits
    <2> QED BY <1>1, <1>4, <2>1 DEF CodesFitThePromotion
  <1> QED BY <1>6, <1>7, <1>8 DEF DeskInv

LEMMA PostSucceededFits ==
    ASSUME DeskInv, NEW m \in posts, PostSucceeded(m) PROVE DeskInv'
  <1>1. /\ pending' = IF m.heard THEN {} ELSE pending
        /\ typed' = IF m.heard THEN {} ELSE typed
        /\ site' = site /\ page' = page /\ sent' = sent
    BY Zenon DEF PostSucceeded, Nothing
  <1>2. ASSUME NEW q \in posts' PROVE q \in Posting
    <2>1. PICK n \in posts :
            q = [n EXCEPT !.heard = n.heard /\ (m.heard => n.type = "rollback")]
      BY Zenon DEF PostSucceeded
    <2>2. n \in Posting /\ m \in Posting
      BY DEF DeskInv, DeskTypes
    <2> QED BY <2>1, <2>2 DEF Posting
  <1>3. DeskTypes'
    BY <1>1, <1>2 DEF DeskInv, DeskTypes
  <1>4. TypedFits'
    BY <1>1 DEF DeskInv, TypedFits, Shown, Aimed
  <1> QED BY <1>1, <1>3, <1>4 DEF DeskInv, CodesFitThePromotion

LEMMA PostFailedFits == ASSUME DeskInv, NEW m \in posts, PostFailed(m) PROVE DeskInv'
  BY DEF DeskInv, DeskTypes, TypedFits, Shown, CodesFitThePromotion, PostFailed

\* The invariant is inductive.
LEMMA NextFits == ASSUME DeskInv, [DeskNext]_deskVars PROVE DeskInv'
  <1>1. CASE UNCHANGED deskVars
    BY <1>1 DEF deskVars, DeskInv, DeskTypes, TypedFits, Shown, CodesFitThePromotion
  <1>2. CASE DeskNext
    BY <1>2, SelectAppFits, LeaveFits, SwitchSiteFits, AskFits, SeedFromStageFits, TypeCodesFits,
       CancelFits, ConfirmFits, PostSucceededFits, PostFailedFits DEF DeskNext
  <1> QED BY <1>1, <1>2

-----------------------------------------------------------------------------
(* The theorems                                                            *)

LEMMA InvAlways == DeskSpec => []DeskInv
  BY InitFits, NextFits, PTL DEF DeskSpec

LEMMA OneIsFew == ASSUME NEW S, \A a, b \in S : a = b PROVE Cardinality(S) <= 1
  <1>1. CASE S = {}
    BY <1>1, FS_EmptySet
  <1>2. CASE S # {}
    <2>1. PICK a : S = {a}
      BY <1>2
    <2> QED BY <2>1, FS_Singleton
  <1> QED BY <1>1, <1>2

\* Every variable keeps its type and at most one action is pending (ui-store.ts).
THEOREM DeskTypeCorrect == DeskSpec => []DeskTypeOK
  <1>1. ASSUME DeskInv PROVE DeskTypeOK
    BY <1>1, OneIsFew DEF DeskInv, DeskTypes, DeskTypeOK, Action, Posting
  <1> QED BY <1>1, InvAlways, PTL

\* No code is sent with another promotion than it was typed for, whatever pages
\* and dialogs came between (action-dialogs.tsx).
THEOREM CodesFitAlways == DeskSpec => []CodesFitThePromotion
  <1>1. DeskInv => CodesFitThePromotion
    BY DEF DeskInv
  <1> QED BY <1>1, InvAlways, PTL

-----------------------------------------------------------------------------
(* The runs of a pipeline's page                                           *)

\* What was read of a run, whenever that was: of an earlier life of the server, or
\* of a run that is still there, and as it is if it was over by then.
Faithful(s) ==
    /\ s \in Snapshot /\ s.life <= life
    /\ s.life = life => /\ s.id \in DOMAIN runs
                        /\ s.phase \in Over => runs[s.id] = s.phase

RunPost == [op : {"start", "decide", "cancel", "rerun"}, id : 0..MaxRuns,
            answer : SUBSET Snapshot]

\* The page's own state, without the runs it shows.
HandTypes == picked \in SUBSET RunId /\ form \in SUBSET [ring : Target, secret : BOOLEAN]

ServerTypes == runs \in Seq(Phase) /\ Len(runs) <= MaxRuns /\ life \in 0..MaxLives

\* What makes it inductive: also what is on its way to the page, in answers to
\* reads and to the operator's calls, is faithful.
ShownFaithful ==
    /\ runShown \in [RunId -> SUBSET Snapshot]
    /\ \A i \in RunId : (\A q, r \in runShown[i] : q = r) /\ \A s \in runShown[i] : Faithful(s)

RunDeskInv ==
    /\ ServerTypes /\ HandTypes
    /\ ShownFaithful
    /\ \A s \in runsListed \cup runReads \cup evidence : Faithful(s)
    /\ \A p \in runPosts : p \in RunPost /\ \A s \in p.answer : Faithful(s)
    /\ \A s \in evidence : s.phase \in Over

\* The server either goes on, and what is over stays as it is, or starts over.
GoesOn ==
    \/ /\ life' = life
       /\ DOMAIN runs \subseteq DOMAIN runs'
       /\ \A i \in DOMAIN runs : runs[i] \in Over => runs'[i] = runs[i]
    \/ life' > life

LEMMA StaysFaithful ==
    ASSUME ServerTypes, ServerTypes', GoesOn, NEW s, Faithful(s)
    PROVE  Faithful(s)'
  BY DEF ServerTypes, GoesOn, Faithful, Snapshot

\* A read tells what is there.
LEMMA RunIsFaithful ==
    ASSUME ServerTypes, NEW i \in DOMAIN runs
    PROVE  Faithful(Run(i))
  BY RunDeskAssumption DEF ServerTypes, Faithful, Run, Snapshot, RunId

\* A step of the page, which leaves the server alone and reads what is there.
LEMMA PageFits ==
    ASSUME RunDeskInv, UNCHANGED <<runs, life>>, HandTypes', ShownFaithful',
           \A s \in runsListed' \cup runReads' \cup evidence' : Faithful(s),
           \A p \in runPosts' : p \in RunPost /\ \A s \in p.answer : Faithful(s),
           \A s \in evidence' : s.phase \in Over
    PROVE  RunDeskInv'
  <1>1. ServerTypes' /\ \A s : Faithful(s) => Faithful(s)'
    BY DEF RunDeskInv, ServerTypes, Faithful
  <1> QED BY <1>1 DEF RunDeskInv

\* A step of the server, which says nothing yet.
LEMMA ServerFits ==
    ASSUME RunDeskInv, ServerTypes', GoesOn,
           UNCHANGED <<runsListed, runShown, picked, form, evidence>>,
           runReads' \subseteq runReads,
           \A p \in runPosts' :
             p \in runPosts \/ (p \in RunPost /\ \A s \in p.answer : Faithful(s)')
    PROVE  RunDeskInv'
  <1>1. \A s : Faithful(s) => Faithful(s)'
    BY StaysFaithful DEF RunDeskInv
  <1>2. HandTypes' /\ ShownFaithful'
    BY <1>1 DEF RunDeskInv, HandTypes, ShownFaithful
  <1>3. /\ \A s \in runsListed' \cup runReads' \cup evidence' : Faithful(s)'
        /\ \A p \in runPosts' : p \in RunPost /\ \A s \in p.answer : Faithful(s)'
        /\ \A s \in evidence' : s.phase \in Over
    BY <1>1 DEF RunDeskInv
  <1> QED BY <1>2, <1>3 DEF RunDeskInv

LEMMA RunMovesFits ==
    ASSUME RunDeskInv, NEW i \in DOMAIN runs, RunMoves(i)
    PROVE  RunDeskInv'
  <1>1. PICK p \in Phase : runs' = [runs EXCEPT ![i] = p]
    BY DEF RunMoves, Phase, Over
  <1>2. runs[i] \notin Over /\ life' = life
    BY DEF RunMoves, Over
  <1>3. ServerTypes' /\ GoesOn
    BY <1>1, <1>2 DEF RunDeskInv, ServerTypes, GoesOn
  <1> QED BY <1>3, ServerFits DEF RunMoves, seenVars

LEMMA ServerLosesRunsFits == ASSUME RunDeskInv, ServerLosesRuns PROVE RunDeskInv'
  <1>1. ServerTypes' /\ GoesOn
    BY RunDeskAssumption DEF RunDeskInv, ServerTypes, GoesOn, ServerLosesRuns
  <1> QED BY <1>1, ServerFits DEF ServerLosesRuns

LEMMA PollRunListFits == ASSUME RunDeskInv, PollRunList PROVE RunDeskInv'
  <1>1. \A s \in runsListed' : Faithful(s)
    BY RunIsFaithful DEF RunDeskInv, PollRunList
  <1>2. HandTypes' /\ ShownFaithful'
    BY DEF RunDeskInv, PollRunList, HandTypes, ShownFaithful, Faithful
  <1> QED BY <1>1, <1>2, PageFits DEF RunDeskInv, PollRunList

LEMMA ReadRunFits ==
    ASSUME RunDeskInv, NEW i, ReadRun(i) PROVE RunDeskInv'
  <1>1. \A s \in runReads' : Faithful(s)
    BY RunIsFaithful DEF RunDeskInv, ReadRun
  <1>2. HandTypes' /\ ShownFaithful'
    BY DEF RunDeskInv, ReadRun, HandTypes, ShownFaithful, Faithful
  <1> QED BY <1>1, <1>2, PageFits DEF RunDeskInv, ReadRun

\* What arrives takes the place of what was shown.
LEMMA ShowFits ==
    ASSUME RunDeskInv, UNCHANGED <<runs, life>>, NEW r, Faithful(r),
           runShown' = [runShown EXCEPT ![r.id] = {r}]
    PROVE  ShownFaithful'
  <1>1. r \in Snapshot /\ r.id \in RunId
    BY DEF Faithful, Snapshot
  <1>2. \A s : Faithful(s) => Faithful(s)'
    BY DEF Faithful
  <1> QED BY <1>1, <1>2 DEF RunDeskInv, ShownFaithful

LEMMA RunArrivesFits ==
    ASSUME RunDeskInv, NEW r \in runReads, RunArrives(r) PROVE RunDeskInv'
  <1>1. ShownFaithful'
    BY ShowFits DEF RunDeskInv, RunArrives
  <1>2. HandTypes'
    BY DEF RunDeskInv, RunArrives, HandTypes
  <1> QED BY <1>1, <1>2, PageFits DEF RunDeskInv, RunArrives

\* What is on screen was read of a run.
LEMMA OnScreenFaithful ==
    ASSUME RunDeskInv, NEW r \in OnScreen PROVE Faithful(r)
  <1>1. PICK i \in Active : r \in IF runShown[i] # {} THEN runShown[i]
                                  ELSE {q \in runsListed : q.id = i}
    BY DEF OnScreen
  <1>2. i \in RunId
    BY DEF Active, RunDeskInv, HandTypes, Faithful, Snapshot
  <1> QED BY <1>1, <1>2 DEF RunDeskInv, ShownFaithful

\* The steps of the operator's hand: a call that is not answered yet, and what
\* is picked and filled in.
LEMMA HandFits ==
    ASSUME RunDeskInv, UNCHANGED <<runs, life, seenVars>>, HandTypes',
           \A s \in evidence' : Faithful(s) /\ s.phase \in Over,
           \A p \in runPosts' : p \in runPosts \/ (p \in RunPost /\ p.answer = {})
    PROVE  RunDeskInv'
  <1>1. ShownFaithful'
    BY DEF RunDeskInv, ShownFaithful, Faithful, seenVars
  <1> QED BY <1>1, PageFits DEF RunDeskInv, seenVars

LEMMA PressFits ==
    ASSUME RunDeskInv, NEW op \in {"start", "decide", "cancel", "rerun"},
           NEW i \in 0..MaxRuns, Press(Post(op, i))
    PROVE  RunDeskInv'
  <1>1. Post(op, i) \in RunPost /\ Post(op, i).answer = {}
    BY DEF Post, RunPost
  <1>2. HandTypes'
    BY DEF RunDeskInv, Press, HandTypes
  <1> QED BY <1>1, <1>2, HandFits DEF RunDeskInv, Press

LEMMA ButtonsFit ==
    ASSUME RunDeskInv, Decide \/ CancelRun \/ Rerun \/ StartRun PROVE RunDeskInv'
  <1>1. \A r \in OnScreen : r.id \in 0..MaxRuns
    BY OnScreenFaithful DEF Faithful, Snapshot, RunId
  <1>2. 0 \in 0..MaxRuns
    BY RunDeskAssumption
  <1> QED BY <1>1, <1>2, PressFits DEF Decide, CancelRun, Rerun, StartRun

LEMMA SaveEvidenceFits == ASSUME RunDeskInv, SaveEvidence PROVE RunDeskInv'
  <1>1. PICK r \in OnScreen : r.phase \in Over /\ evidence' = evidence \cup {r}
    BY DEF SaveEvidence
  <1>2. Faithful(r)
    BY OnScreenFaithful
  <1>3. HandTypes'
    BY DEF RunDeskInv, SaveEvidence, HandTypes
  <1> QED BY <1>1, <1>2, <1>3, HandFits DEF RunDeskInv, SaveEvidence

LEMMA ClicksFit ==
    ASSUME RunDeskInv,
           \/ \E r \in runsListed : PickRun(r.id)
           \/ OpenRunDialog \/ FillRunDialog \/ CloseRunDialog
    PROVE  RunDeskInv'
  <1>1. HandTypes'
    <2>1. CASE \E r \in runsListed : PickRun(r.id)
      BY <2>1 DEF RunDeskInv, Faithful, Snapshot, HandTypes, PickRun
    <2>2. CASE OpenRunDialog
      BY <2>2 DEF RunDeskInv, HandTypes, OpenRunDialog, Target
    <2>3. CASE FillRunDialog
      <3>1. PICK ring \in Target, secret \in BOOLEAN : form' = {[ring |-> ring, secret |-> secret]}
        BY <2>3 DEF FillRunDialog
      <3> QED BY <2>3, <3>1 DEF RunDeskInv, HandTypes, FillRunDialog
    <2>4. CASE CloseRunDialog
      BY <2>4 DEF RunDeskInv, HandTypes, CloseRunDialog
    <2> QED BY <2>1, <2>2, <2>3, <2>4
  <1> QED BY <1>1, HandFits DEF RunDeskInv, PickRun, OpenRunDialog, FillRunDialog, CloseRunDialog

\* A call that is served leaves what is over alone, and its answer tells what is
\* there then.
LEMMA ServePostFits ==
    ASSUME RunDeskInv, NEW p \in runPosts, ServePost(p) PROVE RunDeskInv'
  <1> DEFINE i == IF p.op \in {"start", "rerun"} THEN Len(runs') ELSE p.id
             answered(phase) == [id |-> i, life |-> life, phase |-> phase]
  <1>1. p \in RunPost
    BY DEF RunDeskInv
  <1>2. /\ ServerTypes' /\ GoesOn /\ i \in DOMAIN runs'
        /\ p.op = "decide" => runs'[i] = "running"
    <2>1. CASE p.op = "decide"
      BY <2>1 DEF ServePost, RunDeskInv, ServerTypes, GoesOn, Over, Phase
    <2>2. CASE p.op = "cancel"
      BY <2>2 DEF ServePost, RunDeskInv, ServerTypes, GoesOn, Over, Phase
    <2>3. CASE p.op \in {"start", "rerun"}
      <3>1. NewRun /\ life' = life
        BY <2>3 DEF ServePost
      <3>2. runs' = Append(runs, "running") /\ runs \in Seq(Phase) /\ Len(runs) < MaxRuns
            /\ "running" \in Phase
        BY <3>1 DEF NewRun, RunDeskInv, ServerTypes, Phase
      <3>3. runs' \in Seq(Phase) /\ Len(runs') = Len(runs) + 1
            /\ \A k \in DOMAIN runs : runs'[k] = runs[k]
            /\ DOMAIN runs = 1..Len(runs) /\ DOMAIN runs' = 1..(Len(runs) + 1)
        BY <3>2
      <3> QED BY <2>3, <3>1, <3>2, <3>3, RunDeskAssumption DEF RunDeskInv, ServerTypes, GoesOn
    <2> QED BY <1>1, <2>1, <2>2, <2>3 DEF RunPost
  <1>3. PICK phase \in {runs'[i]} \cup IF p.op = "decide" THEN {"waiting"} ELSE {} :
          runPosts' = (runPosts \ {p}) \cup {[p EXCEPT !.answer = {answered(phase)}]}
    BY DEF ServePost
  <1>4. phase \in Phase /\ (phase \in Over => phase = runs'[i])
    BY <1>2, <1>3 DEF ServerTypes, Phase, Over
  <1>5. life' = life /\ life \in 0..MaxLives
    BY DEF ServePost, RunDeskInv, ServerTypes
  <1>6. i \in RunId
    BY <1>2, RunDeskAssumption DEF ServerTypes, RunId
  <1>7. answered(phase) \in Snapshot
    BY <1>4, <1>5, <1>6 DEF Snapshot
  <1>8. PICK a \in Snapshot : a = answered(phase)
    BY <1>7
  <1>9. a.id = i /\ a.life = life' /\ a.phase = phase
    BY <1>5, <1>8
  <1>10. Faithful(a)'
    BY <1>9, <1>2, <1>4, <1>5 DEF Faithful, ServerTypes
  <1>11. [p EXCEPT !.answer = {a}] \in RunPost /\ [p EXCEPT !.answer = {a}].answer = {a}
    BY <1>1 DEF RunPost
  <1> HIDE DEF i, answered
  <1>12. \A q \in runPosts' :
           q \in runPosts \/ (q \in RunPost /\ \A s \in q.answer : Faithful(s)')
    BY <1>3, <1>8, <1>10, <1>11
  <1> QED BY <1>2, <1>12, ServerFits DEF ServePost, seenVars

LEMMA PostAnsweredFits ==
    ASSUME RunDeskInv, NEW p \in runPosts, PostAnswered(p) PROVE RunDeskInv'
  <1>1. PICK r \in p.answer :
          /\ runShown' = [runShown EXCEPT ![r.id] = {r}]
          /\ runPosts' = runPosts \ {p}
          /\ picked' = IF p.op \in {"start", "rerun"} THEN {r.id} ELSE picked
          /\ form' = IF p.op = "start" THEN {} ELSE form
          /\ UNCHANGED <<runs, life, runsListed, runReads, evidence, clicks>>
    BY DEF PostAnswered
  <1>2. Faithful(r)
    BY DEF RunDeskInv
  <1>3. ShownFaithful'
    BY <1>1, <1>2, ShowFits
  <1>4. HandTypes'
    BY <1>1, <1>2 DEF RunDeskInv, HandTypes, Faithful, Snapshot
  <1> QED BY <1>1, <1>3, <1>4, PageFits DEF RunDeskInv

LEMMA PostRefusedFits ==
    ASSUME RunDeskInv, NEW p \in runPosts, PostRefused(p) PROVE RunDeskInv'
  BY HandFits DEF RunDeskInv, HandTypes, PostRefused

LEMMA RunDeskNextFits == ASSUME RunDeskInv, [RunDeskNext]_runDeskVars PROVE RunDeskInv'
  <1>1. CASE UNCHANGED runDeskVars
    BY <1>1, HandFits DEF runDeskVars, seenVars, RunDeskInv, HandTypes
  <1>2. CASE \E i \in DOMAIN runs : RunMoves(i)
    BY <1>2, RunMovesFits
  <1>3. CASE PollRun \/ FocusWindow
    BY <1>3, ReadRunFits DEF PollRun, FocusWindow
  <1> QED BY <1>1, <1>2, <1>3, ServerLosesRunsFits, PollRunListFits, RunArrivesFits,
             ButtonsFit, SaveEvidenceFits, ClicksFit, ServePostFits, PostAnsweredFits,
             PostRefusedFits DEF RunDeskNext

LEMMA RunDeskInitFits == ASSUME RunDeskInit PROVE RunDeskInv
  BY RunDeskAssumption
  DEF RunDeskInit, RunDeskInv, ServerTypes, HandTypes, ShownFaithful

LEMMA RunDeskInvAlways == RunDeskSpec => []RunDeskInv
  BY RunDeskInitFits, RunDeskNextFits, PTL DEF RunDeskSpec

\* The pipeline's page keeps its types, and shows one snapshot of a run.
THEOREM RunDeskTypeCorrect == RunDeskSpec => []RunDeskTypeOK
  <1>1. ASSUME RunDeskInv PROVE RunDeskTypeOK
    <2>1. \A i \in RunId : runShown[i] \in SUBSET Snapshot /\ Cardinality(runShown[i]) <= 1
      BY <1>1, OneIsFew DEF RunDeskInv, ShownFaithful
    <2>2. \A s \in runsListed \cup runReads \cup evidence : s \in Snapshot
      BY <1>1 DEF RunDeskInv, Faithful
    <2> QED BY <1>1, <2>1, <2>2
            DEF RunDeskInv, ServerTypes, HandTypes, RunPost, RunDeskTypeOK
  <1> QED BY <1>1, RunDeskInvAlways, PTL

\* A run that is shown as over, and every run whose evidence was saved, is over
\* and as it is told, whichever answers came late, for as long as the server
\* remembers it (pipeline-view.tsx, queries.ts).
THEOREM EndedRunsStayFinal == RunDeskSpec => []EndedRunsAreFinal
  <1>1. ASSUME RunDeskInv PROVE EndedRunsAreFinal
    BY <1>1 DEF RunDeskInv, ShownFaithful, Faithful, EndedRunsAreFinal
  <1> QED BY <1>1, RunDeskInvAlways, PTL

-----------------------------------------------------------------------------
(* The gates in the dialogs                                                *)

\* What makes it inductive: a confirmed seed or promotion carries a reason exactly
\* when its operator had a no-go on screen, in flight and for as long as it runs.
GatesWrite == [what : {"signoff", "window"}, version : Version \cup {NotGiven},
               decision : {"go", "no_go", NotGiven}, heard : BOOLEAN]
Reasoned(p) == p \in Carried /\ p.saw = p.reason

GatesInv ==
    /\ target \in Targets /\ source \in Version
    /\ windowOpen \in BOOLEAN /\ waived \in BOOLEAN /\ signoffOpen \in BOOLEAN
    /\ onwardNoGo \in BOOLEAN
    /\ verdict \in {"go", "check", "no_go"}
    /\ failing \subseteq Rowless
    /\ findings \subseteq Version
    /\ signed \in Decisions /\ signoffView \in Decisions /\ scanView \in Decisions
    /\ ringView \in [version : Version, window : BOOLEAN, verdict : {"go", "check", "no_go"}]
    /\ dialog \in Form \cup {NotGiven}
    /\ write \in GatesWrite \cup {NotGiven}
    /\ posted = NotGiven \/ Reasoned(posted)
    /\ operation = NotGiven
         \/ (operation \in [ring : {"own", "next"}, request : Carried]
             /\ Reasoned(operation.request))
    /\ entered \subseteq Admissions
    /\ NoSilentOverrides
    /\ events \in 0 .. MaxEvents

LEMMA GatesInitFits == ASSUME GatesInit PROVE GatesInv
  <1>1. source \in Version
    BY GatesAssumption DEF GatesInit
  <1>2. Unseen \in Decisions
    BY DEF Unseen, Decisions
  <1>3. ringView \in [version : Version, window : BOOLEAN, verdict : {"go", "check", "no_go"}]
    BY <1>1 DEF GatesInit
  <1>4. events \in 0 .. MaxEvents /\ target \in Targets /\ findings \subseteq Version
    BY <1>1, GatesAssumption DEF GatesInit
  <1> QED BY <1>1, <1>2, <1>3, <1>4, Zenon DEF GatesInit, GatesInv, NoSilentOverrides

LEMMA EventType ==
    ASSUME GatesInv, Event PROVE events' \in 0 .. MaxEvents
  BY GatesAssumption DEF GatesInv, Event

\* The version a dialog is about.
LEMMA CandidateType ==
    ASSUME GatesInv, dialog # NotGiven
    PROVE  Candidate \in Version \cup {NotGiven}
  BY DEF GatesInv, Candidate, Form

\* A call is the same request, heard or not.
LEMMA UnheardWrite ==
    ASSUME write \in GatesWrite \cup {NotGiven}
    PROVE  Unheard(write) \in GatesWrite \cup {NotGiven}
  BY DEF Unheard, GatesWrite

LEMMA UnheardPost ==
    ASSUME posted = NotGiven \/ Reasoned(posted)
    PROVE  Unheard(posted) = NotGiven \/ Reasoned(Unheard(posted))
  <1>1. CASE posted = NotGiven
    BY <1>1 DEF Unheard
  <1>2. CASE posted # NotGiven
    <2>1. Unheard(posted) = [posted EXCEPT !.heard = FALSE]
      BY <1>2 DEF Unheard
    <2> QED BY <1>2, <2>1 DEF Reasoned, Carried
  <1> QED BY <1>1, <1>2

\* The request is refused, or becomes the job.
LEMMA ServePostedFits == ASSUME GatesInv, ServePosted PROVE GatesInv'
  <1>1. Reasoned(posted) /\ posted' = NotGiven
    BY DEF GatesInv, ServePosted
  <1>2. UNCHANGED <<policyVars, viewVars, entered, events>>
    BY DEF ServePosted
  <1>3. \/ UNCHANGED operation
        \/ operation' = [ring |-> "own", request |-> posted]
    BY DEF ServePosted
  <1>4. \/ operation' = NotGiven
        \/ /\ operation' \in [ring : {"own", "next"}, request : Carried]
           /\ Reasoned(operation'.request)
    BY <1>1, <1>3 DEF GatesInv, Reasoned
  <1>5. \/ UNCHANGED <<dialog, signoffOpen, write>>
        \/ dialog' = NotGiven /\ signoffOpen' = FALSE /\ write' = Unheard(write)
    BY DEF ServePosted, formVars
  <1>6. /\ dialog' \in Form \cup {NotGiven} /\ signoffOpen' \in BOOLEAN
        /\ write' \in GatesWrite \cup {NotGiven}
    BY <1>5, UnheardWrite DEF GatesInv
  <1> QED BY <1>1, <1>2, <1>4, <1>6
          DEF GatesInv, NoSilentOverrides, policyVars, viewVars, Reasoned

\* What enters over a no-go has a reason, and who gave it saw one.
LEMMA AdmissionFits ==
    ASSUME NEW ring \in {"own", "next"}, NEW policy \in SUBSET Gate,
           NEW blocks \in BOOLEAN, NEW p, Reasoned(p),
           "grafana" \in policy /\ blocks => p.reason
    PROVE  /\ Admission(ring, policy, blocks, p) \in Admissions
           /\ Admission(ring, policy, blocks, p).overruled
                => Admission(ring, policy, blocks, p).saw
  BY DEF Admission, Admissions, Reasoned, Carried

LEMMA EnterRingFits == ASSUME GatesInv, EnterRing PROVE GatesInv'
  <1> DEFINE p == operation.request
             entry == Admission("own", guards, verdict = "no_go", p)
  <1>1. /\ operation \in [ring : {"own", "next"}, request : Carried]
        /\ Reasoned(p)
    BY DEF GatesInv, EnterRing
  <1>2. /\ UNCHANGED <<policyVars, viewVars, formVars, callVars, events>>
        /\ \/ operation' = NotGiven
           \/ operation' = [operation EXCEPT !.ring = "next"]
        /\ \/ UNCHANGED entered
           \/ entered' = entered \cup {entry} /\ Refusing(p, Judged(p)) = {}
    BY DEF EnterRing
  <1>3. \/ operation' = NotGiven
        \/ /\ operation' \in [ring : {"own", "next"}, request : Carried]
           /\ Reasoned(operation'.request)
    BY <1>1, <1>2
  <1>4. CASE Refusing(p, Judged(p)) = {} /\ entered' = entered \cup {entry}
    <2>1. "grafana" \in guards /\ verdict = "no_go" => p.reason
      BY <1>4 DEF Refusing, Passes, Satisfied, Rowless
    <2>2. guards \in SUBSET Gate
      BY GatesAssumption DEF GatesInv, guards
    <2>3. entry \in Admissions /\ (entry.overruled => entry.saw)
      BY <1>1, <2>1, <2>2, AdmissionFits
    <2> HIDE DEF entry
    <2>4. entered' \subseteq Admissions /\ NoSilentOverrides'
      BY <1>4, <2>3 DEF GatesInv, NoSilentOverrides
    <2> QED BY <1>2, <1>3, <2>4
            DEF GatesInv, policyVars, viewVars, formVars, callVars, Reasoned
  <1>5. CASE UNCHANGED entered
    BY <1>2, <1>3, <1>5
       DEF GatesInv, NoSilentOverrides, policyVars, viewVars, formVars, callVars, Reasoned
  <1> QED BY <1>2, <1>4, <1>5

LEMMA EnterNextRingFits == ASSUME GatesInv, EnterNextRing PROVE GatesInv'
  <1> DEFINE p == operation.request
             entry == Admission("next", target.onward, onwardNoGo, p)
  <1>1. Reasoned(p)
    BY DEF GatesInv, EnterNextRing
  <1>2. /\ UNCHANGED <<policyVars, viewVars, formVars, callVars, events>>
        /\ operation' = NotGiven
        /\ \/ UNCHANGED entered
           \/ /\ \A g \in target.onward \cap InputGates : Satisfied(g, p, onwardNoGo)
              /\ entered' = entered \cup {entry}
    BY DEF EnterNextRing
  <1>3. CASE /\ \A g \in target.onward \cap InputGates : Satisfied(g, p, onwardNoGo)
             /\ entered' = entered \cup {entry}
    <2>1. "grafana" \in target.onward /\ onwardNoGo => p.reason
      BY <1>3 DEF Satisfied, InputGates
    <2>2. target.onward \in SUBSET Gate
      BY GatesAssumption DEF GatesInv
    <2>3. entry \in Admissions /\ (entry.overruled => entry.saw)
      BY <1>1, <2>1, <2>2, AdmissionFits DEF GatesInv
    <2> HIDE DEF entry
    <2>4. entered' \subseteq Admissions /\ NoSilentOverrides'
      BY <1>3, <2>3 DEF GatesInv, NoSilentOverrides
    <2> QED BY <1>2, <2>4
            DEF GatesInv, policyVars, viewVars, formVars, callVars, Reasoned
  <1>4. CASE UNCHANGED entered
    BY <1>2, <1>4
       DEF GatesInv, NoSilentOverrides, policyVars, viewVars, formVars, callVars, Reasoned
  <1> QED BY <1>2, <1>3, <1>4

\* The button is held back for the reason while a no-go is on screen.
LEMMA ConfirmedFits == ASSUME GatesInv, Confirmed PROVE GatesInv'
  <1>1. dialog \in Form
    BY DEF GatesInv, Confirmed
  <1>2. NeedsOverride \in BOOLEAN /\ SentReason \in BOOLEAN /\ SentReason = NeedsOverride
    BY <1>1 DEF Confirmed, Ready, SentReason, NeedsOverride, Form
  <1>3. Reasoned(posted)'
    BY <1>1, <1>2 DEF Confirmed, FormRequest, Reasoned, Carried, Form
  <1> QED BY <1>3, EventType
          DEF GatesInv, NoSilentOverrides, Confirmed, policyVars, viewVars, formVars,
              operationVars, Reasoned

LEMMA WriteServedFits == ASSUME GatesInv, WriteServed PROVE GatesInv'
  <1> USE DEF operationVars
  <1>1. write \in GatesWrite
    BY DEF GatesInv, WriteServed
  <1>2. CASE write.what = "signoff"
    <2>1. /\ signed' = [signed EXCEPT ![write.version] = write.decision]
          /\ signoffView' = signed' /\ signoffOpen' \in BOOLEAN
          /\ windowOpen' = windowOpen /\ ringView' = ringView
      BY <1>2 DEF WriteServed
    <2>2. signed' \in Decisions
      BY <1>1, <2>1 DEF GatesInv, Decisions, GatesWrite
    <2> QED BY <2>1, <2>2 DEF GatesInv, NoSilentOverrides, WriteServed
  <1>3. CASE write.what # "signoff"
    <2>1. windowOpen' = TRUE
          /\ ringView' = [version |-> source, window |-> TRUE, verdict |-> verdict]
          /\ UNCHANGED <<signed, signoffView, signoffOpen>>
      BY <1>3 DEF WriteServed
    <2>2. ringView' \in [version : Version, window : BOOLEAN, verdict : {"go", "check", "no_go"}]
      BY <2>1 DEF GatesInv
    <2> QED BY <2>1, <2>2 DEF GatesInv, NoSilentOverrides, WriteServed
  <1> QED BY <1>2, <1>3

\* The answers to queries.
LEMMA GatesReadsFit ==
    ASSUME GatesInv, ReadRingView \/ ReadSignoffs \/ ReadEvaluation PROVE GatesInv'
  <1> USE DEF GatesInv, NoSilentOverrides, policyVars, viewVars, formVars, callVars,
              operationVars
  <1>1. CASE ReadRingView
    BY <1>1 DEF ReadRingView
  <1>2. CASE ReadSignoffs
    BY <1>2 DEF ReadSignoffs
  <1>3. CASE ReadEvaluation
    <2>1. Scan(Candidate) \in {"go", "no_go"}
      BY DEF Scan
    <2>2. scanView' \in Decisions
      BY <1>3, <2>1 DEF ReadEvaluation, Decisions
    <2> QED BY <1>3, <2>2 DEF ReadEvaluation
  <1> QED BY <1>1, <1>2, <1>3

\* What others do, and what the operator fills in.
LEMMA GatesEventsFit ==
    ASSUME GatesInv,
           \/ \E v \in Version : SourceMoves(v) \/ PickVersion(v)
           \/ WorldChanges
           \/ \E k \in {"seed", "promote"} : OpenGates(k)
           \/ \E field \in {"cr", "sr", "reason"} : Fill(field)
    PROVE  GatesInv'
  <1> USE DEF GatesInv, NoSilentOverrides, policyVars, viewVars, formVars, callVars,
              operationVars
  <1>1. CASE \E v \in Version : SourceMoves(v)
    BY <1>1, EventType DEF SourceMoves
  <1>2. CASE \E v \in Version : PickVersion(v)
    <2>1. PICK v \in Version : PickVersion(v)
      BY <1>2
    <2>2. dialog' \in Form
      BY <2>1 DEF PickVersion, Form
    <2>3. events' \in 0 .. MaxEvents /\ signoffOpen' \in BOOLEAN
      BY <2>1, EventType DEF PickVersion
    <2> QED BY <2>1, <2>2, <2>3 DEF PickVersion
  <1>3. CASE WorldChanges
    <2>1. /\ events' \in 0 .. MaxEvents
          /\ windowOpen' \in BOOLEAN /\ waived' \in BOOLEAN /\ onwardNoGo' \in BOOLEAN
          /\ verdict' \in {"go", "check", "no_go"}
          /\ failing' \subseteq Rowless
      BY <1>3, EventType DEF WorldChanges
    <2> QED BY <1>3, <2>1 DEF WorldChanges
  <1>4. CASE \E k \in {"seed", "promote"} : OpenGates(k)
    <2>1. dialog' \in Form
      BY <1>4 DEF OpenGates, Form
    <2> QED BY <1>4, <2>1, EventType DEF OpenGates
  <1>5. CASE \E field \in {"cr", "sr", "reason"} : Fill(field)
    <2>1. PICK field \in {"cr", "sr", "reason"} : Fill(field)
      BY <1>5
    <2>2. dialog' \in Form
      BY <2>1 DEF Fill, Form
    <2> QED BY <2>1, <2>2 DEF Fill
  <1> QED BY <1>1, <1>2, <1>3, <1>4, <1>5

\* Closing the dialog, and what is opened and sent from inside it.
LEMMA GatesInsideFit ==
    ASSUME GatesInv,
           \/ CloseGates \/ OpenSignoff \/ SendWindow \/ WriteRefused
           \/ \E d \in {"go", "no_go"} : SendSignoff(d)
    PROVE  GatesInv'
  <1> USE DEF GatesInv, NoSilentOverrides, policyVars, viewVars, formVars, callVars,
              operationVars
  <1>1. CASE CloseGates
    <2>1. write' \in GatesWrite \cup {NotGiven}
      BY <1>1, UnheardWrite DEF CloseGates
    <2>2. posted' = NotGiven \/ Reasoned(posted')
      BY <1>1, UnheardPost DEF CloseGates
    <2>3. UNCHANGED <<policyVars, viewVars, operationVars, events>>
          /\ dialog' = NotGiven /\ signoffOpen' = FALSE
      BY <1>1 DEF CloseGates
    <2> QED BY <2>1, <2>2, <2>3 DEF Reasoned
  <1>2. CASE OpenSignoff
    BY <1>2 DEF OpenSignoff
  <1>3. CASE SendWindow
    <2>1. write' \in GatesWrite
      BY <1>3 DEF SendWindow, GatesWrite
    <2> QED BY <1>3, <2>1, EventType DEF SendWindow
  <1>4. CASE WriteRefused
    BY <1>4 DEF WriteRefused
  <1>5. CASE \E d \in {"go", "no_go"} : SendSignoff(d)
    <2>1. write' \in GatesWrite
      BY <1>5, CandidateType DEF SendSignoff, GatesWrite
    <2> QED BY <1>5, <2>1, EventType DEF SendSignoff
  <1> QED BY <1>1, <1>2, <1>3, <1>4, <1>5

LEMMA GatesNextFits == ASSUME GatesInv, [GatesNext]_gatesVars PROVE GatesInv'
  <1>1. CASE UNCHANGED gatesVars
    BY <1>1 DEF GatesInv, NoSilentOverrides, gatesVars, policyVars, viewVars, formVars,
                callVars, operationVars
  <1> QED BY <1>1, ServePostedFits, EnterRingFits, EnterNextRingFits, ConfirmedFits,
             WriteServedFits, GatesReadsFit, GatesEventsFit, GatesInsideFit DEF GatesNext

LEMMA GatesInvAlways == GatesSpec => []GatesInv
  BY GatesInitFits, GatesNextFits, PTL DEF GatesSpec

\* The dialogs' fields, the calls in flight, the job and the three caches keep
\* their types.
THEOREM GatesTypeCorrect == GatesSpec => []GatesTypeOK
  <1>1. ASSUME GatesInv PROVE GatesTypeOK
    BY <1>1 DEF GatesInv, GatesTypeOK, GatesWrite, Reasoned
  <1> QED BY <1>1, GatesInvAlways, PTL

\* Whatever a dialog read when: once its rows are all green over caches that are
\* up to date, no gate that has a row refuses what it would send, unless the ring
\* pins another ref than the one that was picked, where the rows of that version
\* say nothing of the ref (gate-controls.tsx:49-123 against gate.go:60-185,
\* custom_gate.go:22-211 and promoter.go:409-416).
THEOREM GreenRowsAlwaysHold == GatesSpec => []GreenRowsHold
  <1>1. ASSUME GatesInv PROVE GreenRowsHold
    <2> SUFFICES ASSUME dialog # NotGiven, UpToDate, Ready, Green,
                        NEW p, p = FormRequest,
                        NEW g, g \in Refusing(p, Judged(p)), g \notin NotShown(p)
                 PROVE  FALSE
      BY DEF GreenRowsHold
    <2>1. dialog \in Form /\ dialog.kind \in {"seed", "promote"}
      BY <1>1 DEF GatesInv, Form
    <2>2. /\ p.kind = dialog.kind /\ p.pick = dialog.pick /\ p.cr = dialog.cr
          /\ p.sr = dialog.sr /\ p.reason = SentReason
      BY DEF FormRequest
    <2>3. g \in guards /\ g \in Gate /\ ~Passes(g, p, Judged(p)) /\ g \notin Rowless
      BY <1>1, GatesAssumption DEF GatesInv, Refusing, guards, NotShown
    <2>4. Candidate \in Version
      BY <1>1, <2>1 DEF GatesInv, Candidate, Form, Ready
    <2>5. /\ windowOpen = ringView.window /\ verdict = ringView.verdict
          /\ source = ringView.version
      BY DEF UpToDate
    <2>6. g \in {"signoff", "security"} => Judged(p) = Candidate
      <3>1. CASE dialog.kind = "seed"
        BY <2>2, <3>1 DEF Judged, Candidate, NotShown
      <3>2. CASE dialog.kind = "promote"
        BY <2>2, <2>5, <3>2 DEF Judged, Candidate
      <3> QED BY <2>1, <3>1, <3>2
    <2>7. "security" \in guards => Scan(Candidate) = "go"
      BY <2>4, GatesAssumption DEF UpToDate, Green
    <2>8. "signoff" \in guards => signed[Candidate] = "go"
      BY DEF UpToDate, Green, SignoffRow
    <2>9. "grafana" \in guards => (verdict = "no_go" => p.reason)
      BY <2>2, <2>5 DEF Green, NeedsOverride, SentReason
    <2>10. CASE g \in {"signoff", "security"}
      BY <2>3, <2>6, <2>7, <2>8, <2>10 DEF Passes
    <2>11. CASE g = "window"
      BY <2>3, <2>5, <2>11 DEF Passes, Green
    <2>12. CASE g \in InputGates
      <3>1. ~Satisfied(g, p, verdict = "no_go")
        BY <2>3, <2>12 DEF Passes, InputGates
      <3> QED BY <2>2, <2>3, <2>9, <2>12, <3>1
              DEF Satisfied, InputGates, Green, ShowsChange, ShowsService
    <2> QED BY <2>3, <2>10, <2>11, <2>12 DEF Gate
  <1> QED BY <1>1, GatesInvAlways, PTL

\* No no-go is overruled, neither the dialog's ring's nor that of the ring its
\* operation goes on into, unless the operator had a no-go on screen when
\* confirming (action-dialogs.tsx:448-466, gates.go:54-56).
THEOREM OverridesNeverSilent == GatesSpec => []NoSilentOverrides
  <1>1. GatesInv => NoSilentOverrides
    BY DEF GatesInv
  <1> QED BY <1>1, GatesInvAlways, PTL

-----------------------------------------------------------------------------
(* The answers of the language model                                       *)

\* A call to the server, wherever it is.
AnswersCall == [at : {"idle", "sent"}] \cup [at : {"read"}, stored : BOOLEAN]
                 \cup [at : {"answered"}, status : AnswerStatus]

AnswersTypes ==
    /\ kind \in Kind
    /\ stored \in BOOLEAN /\ progress \in Progress
    /\ working \in {"no", "thinking", "saving"}
    /\ open \in BOOLEAN /\ started \in BOOLEAN /\ listed \in BOOLEAN
    /\ data \in AnswerStatus \cup {"unknown"} /\ fresh \in BOOLEAN
    /\ fetch \in AnswersCall /\ ask \in AnswersCall
    /\ asked \in BOOLEAN
    /\ misled \subseteq {"split", "restart", "overtaken", "refused", "unread"}

\* The server has something to say: an answer, or what it remembers of the work.
Known == stored \/ progress # "none"

\* Nothing has misled the console since it asked.
Clean ==
    /\ "split" \notin misled /\ "refused" \notin misled /\ "restart" \notin misled
    /\ kind = "plan" => "overtaken" \notin misled
    /\ kind # "plan" => "unread" \notin misled

\* An answer once stored stays, also for those who read it earlier, and is there
\* when the two reads of one status came apart.
StoredStays ==
    /\ "split" \in misled => stored
    /\ fetch.at = "read" /\ fetch.stored => stored
    /\ ask.at = "read" /\ ask.stored => stored
    /\ working = "saving" => stored

\* A question that was served has set the server to work, or found its answer.
AskWasServed ==
    /\ ask.at # "idle" => asked
    /\ ask.at = "answered" => ask.status # "none" /\ (Clean => Known)
    /\ kind = "history" /\ asked => data # "unknown"

\* A test plan's panel never shows less than that afterwards.
PlanIsWatched ==
    kind = "plan" /\ asked /\ Clean /\ ask.at = "idle" =>
        /\ Known /\ data \notin {"unknown", "none"}
        /\ fetch.at = "answered" => fetch.status # "none"

\* A history row that has asked reads the status again, and then knows better.
HistoryIsWatched ==
    kind = "history" /\ started /\ open /\ ~listed /\ Clean /\ ask.at = "idle" =>
        /\ Known
        /\ fetch.at = "answered" => fetch.status # "none"
        /\ fetch.at = "idle" => data # "none"

AnswersInv ==
    AnswersTypes /\ StoredStays /\ AskWasServed /\ PlanIsWatched /\ HistoryIsWatched

\* Which of its forms a call has.
LEMMA CallForms ==
    ASSUME NEW c \in AnswersCall
    PROVE  /\ c.at \in {"idle", "sent", "read", "answered"}
           /\ c = Idle <=> c.at = "idle"
           /\ c = Sent <=> c.at = "sent"
           /\ c.at = "read" => c.stored \in BOOLEAN
           /\ c.at = "answered" => c.status \in AnswerStatus
  BY DEF AnswersCall, Idle, Sent

LEMMA NewCalls ==
    /\ Idle \in AnswersCall /\ Idle.at = "idle"
    /\ Sent \in AnswersCall /\ Sent.at = "sent"
    /\ stored \in BOOLEAN => /\ ReadStore \in AnswersCall
                             /\ ReadStore.at = "read" /\ ReadStore.stored = stored
    /\ \A status \in AnswerStatus : /\ Answered(status) \in AnswersCall
                                    /\ Answered(status).at = "answered"
                                    /\ Answered(status).status = status
  BY DEF AnswersCall, Idle, Sent, ReadStore, Answered

\* Nothing is said of a question only while nothing is known.
LEMMA StatusSaysAll ==
    ASSUME kind \in Kind, NEW has \in BOOLEAN, NEW track \in Progress
    PROVE  /\ StatusOf(has, track) \in AnswerStatus
           /\ StatusOf(has, track) = "none" <=> (~has /\ track = "none")
  BY DEF StatusOf, AnswerStatus, Progress, Kind

LEMMA AnswersInitFits == ASSUME AnswersInit PROVE AnswersInv
  BY NewCalls DEF AnswersInit, AnswersInv, AnswersTypes, StoredStays, AskWasServed,
     PlanIsWatched, HistoryIsWatched, Progress, AnswerStatus

LEMMA ServeFetchFits == ASSUME AnswersInv, ServeFetch PROVE AnswersInv'
  <1> USE DEF AnswersInv
  <1>1. /\ UNCHANGED <<kind, serverSide, open, started, listed, data, fresh, ask, asked>>
        /\ fetch.at \in {"sent", "read"}
    BY CallForms DEF ServeFetch, AnswersTypes
  <1>2. CASE fetch.at = "sent" /\ kind # "job"
    <2>1. fetch' = ReadStore /\ misled' = misled
      BY <1>2, CallForms DEF ServeFetch, AnswersTypes
    <2>2. fetch' \in AnswersCall /\ fetch'.at = "read" /\ fetch'.stored = stored
      BY <2>1, NewCalls DEF AnswersTypes
    <2> QED BY <1>1, <2>1, <2>2
            DEF AnswersTypes, StoredStays, AskWasServed, PlanIsWatched, HistoryIsWatched, Clean,
                Known, serverSide
  <1>3. CASE ~(fetch.at = "sent" /\ kind # "job")
    <2> DEFINE has == IF fetch.at = "read" THEN fetch.stored ELSE stored
    <2>1. /\ fetch' = Answered(StatusOf(has, progress))
          /\ misled \subseteq misled'
          /\ misled' \subseteq misled \cup {"split"}
          /\ has # stored => "split" \in misled'
          /\ "split" \in misled' => "split" \in misled \/ has # stored
      BY <1>1, <1>3, CallForms DEF ServeFetch, AnswersTypes
    <2>2. has \in BOOLEAN /\ (has => stored)
      BY CallForms DEF AnswersTypes, StoredStays
    <2>3. /\ StatusOf(has, progress) \in AnswerStatus
          /\ StatusOf(has, progress) = "none" <=> (~has /\ progress = "none")
      BY <2>2, StatusSaysAll DEF AnswersTypes
    <2>4. /\ fetch' \in AnswersCall /\ fetch'.at = "answered"
          /\ fetch'.status = "none" <=> (~has /\ progress = "none")
      BY <2>1, <2>3, NewCalls
    <2>5. "split" \in misled' => stored
      BY <2>1, <2>2 DEF AnswersTypes, StoredStays
    <2> HIDE DEF has
    <2> QED BY <1>1, <2>1, <2>4, <2>5
            DEF AnswersTypes, StoredStays, AskWasServed, PlanIsWatched, HistoryIsWatched, Clean,
                Known, serverSide
  <1> QED BY <1>2, <1>3

\* Joined or begun, the work is under way.
LEMMA BegunIsKnown ==
    ASSUME AnswersTypes, Begin
    PROVE  /\ stored' = stored /\ progress' = "running"
           /\ working' = working \/ working' = "thinking"
  BY DEF AnswersTypes, Begin, serverSide

LEMMA ServeAskFits == ASSUME AnswersInv, ServeAsk PROVE AnswersInv'
  <1> USE DEF AnswersInv
  <1> DEFINE has == IF ask.at = "read" THEN ask.stored ELSE stored
  <1>1. /\ UNCHANGED <<kind, open, started, listed, data, fresh, fetch, asked, misled>>
        /\ ask.at \in {"sent", "read"}
    BY DEF ServeAsk
  <1>2. has \in BOOLEAN /\ (has => stored)
    BY CallForms DEF AnswersTypes, StoredStays
  <1>3. CASE ask' = ReadStore /\ UNCHANGED serverSide
    <2>1. ask' \in AnswersCall /\ ask'.at = "read" /\ ask'.stored = stored
      BY <1>3, NewCalls DEF AnswersTypes
    <2> QED BY <1>1, <1>3, <2>1
            DEF AnswersTypes, StoredStays, AskWasServed, PlanIsWatched, HistoryIsWatched, Clean,
                Known, serverSide
  <1>4. CASE has /\ UNCHANGED serverSide /\ ask' = Answered(StatusOf(has, progress))
    <2>1. StatusOf(has, progress) \in AnswerStatus /\ StatusOf(has, progress) # "none"
      BY <1>2, <1>4, StatusSaysAll DEF AnswersTypes
    <2>2. ask' \in AnswersCall /\ ask'.at = "answered" /\ ask'.status # "none"
      BY <1>4, <2>1, NewCalls
    <2> HIDE DEF has
    <2> QED BY <1>1, <1>2, <1>4, <2>2
            DEF AnswersTypes, StoredStays, AskWasServed, PlanIsWatched, HistoryIsWatched, Clean,
                Known, serverSide
  <1>5. CASE Begin /\ ask' = Answered("running")
    <2>1. /\ stored' = stored /\ progress' = "running"
          /\ working' = working \/ working' = "thinking"
      BY <1>5, BegunIsKnown
    <2>2. "running" \in AnswerStatus /\ "running" \in Progress
      BY DEF AnswerStatus, Progress
    <2>3. ask' \in AnswersCall /\ ask'.at = "answered" /\ ask'.status = "running"
      BY <1>5, <2>2, NewCalls
    <2> QED BY <1>1, <2>1, <2>2, <2>3
            DEF AnswersTypes, StoredStays, AskWasServed, PlanIsWatched, HistoryIsWatched, Clean,
                Known
  <1>6. \/ ask' = ReadStore /\ UNCHANGED serverSide
        \/ has /\ UNCHANGED serverSide /\ ask' = Answered(StatusOf(has, progress))
        \/ Begin /\ ask' = Answered("running")
    BY Zenon DEF ServeAsk
  <1> QED BY <1>3, <1>4, <1>5, <1>6

\* The server at work: what is known stays known.
LEMMA WorkFits ==
    ASSUME AnswersInv, UNCHANGED <<kind, consoleSide, misled>>,
           stored' \in BOOLEAN, progress' \in Progress,
           working' \in {"no", "thinking", "saving"},
           stored => stored', Known => Known', working' = "saving" => stored'
    PROVE  AnswersInv'
  BY DEF AnswersInv, AnswersTypes, StoredStays, AskWasServed, PlanIsWatched, HistoryIsWatched,
     Clean, consoleSide

LEMMA OtherAsksFits == ASSUME AnswersInv, OtherAsks PROVE AnswersInv'
  <1>1. /\ stored' = stored /\ progress' = "running"
        /\ working' = working \/ working' = "thinking"
    BY BegunIsKnown DEF AnswersInv, OtherAsks
  <1>2. progress' \in Progress /\ Known'
    BY <1>1 DEF Progress, Known
  <1> QED BY <1>1, <1>2, WorkFits DEF AnswersInv, AnswersTypes, StoredStays, OtherAsks

LEMMA GeneratedFits == ASSUME AnswersInv, Generated PROVE AnswersInv'
  <1>1. /\ stored' \in BOOLEAN /\ progress' \in Progress
        /\ working' \in {"no", "thinking", "saving"}
        /\ stored => stored'
        /\ Known'
        /\ working' = "saving" => stored'
    BY DEF AnswersInv, AnswersTypes, StoredStays, Generated, Known, Progress
  <1> QED BY <1>1, WorkFits DEF Generated

LEMMA RestartFits == ASSUME AnswersInv, Restart PROVE AnswersInv'
  <1>1. "none" \in Progress
    BY DEF Progress
  <1> QED BY <1>1 DEF AnswersInv, AnswersTypes, StoredStays, AskWasServed, PlanIsWatched,
                  HistoryIsWatched, Clean, consoleSide, Restart

LEMMA OpenPanelFits == ASSUME AnswersInv, OpenPanel PROVE AnswersInv'
  <1>1. fetch' = fetch \/ fetch' = Sent
    BY DEF OpenPanel
  <1>2. fetch' \in AnswersCall /\ (fetch' = fetch \/ fetch'.at = "sent")
    BY <1>1, NewCalls DEF AnswersInv, AnswersTypes
  <1>3. /\ open' = TRUE /\ started' = FALSE
        /\ UNCHANGED <<kind, serverSide, listed, data, fresh, ask, asked, misled>>
    BY DEF OpenPanel
  <1>4. AnswersTypes'
    BY <1>2, <1>3 DEF AnswersInv, AnswersTypes, serverSide
  <1>5. StoredStays'
    BY <1>2, <1>3 DEF AnswersInv, StoredStays, serverSide
  <1>6. AskWasServed'
    BY <1>3 DEF AnswersInv, AskWasServed, Clean, Known, serverSide
  <1>7. PlanIsWatched'
    BY <1>2, <1>3 DEF AnswersInv, PlanIsWatched, Clean, Known, serverSide
  <1>8. HistoryIsWatched'
    BY <1>3 DEF HistoryIsWatched
  <1> QED BY <1>4, <1>5, <1>6, <1>7, <1>8 DEF AnswersInv

LEMMA ClosePanelFits == ASSUME AnswersInv, ClosePanel PROVE AnswersInv'
  <1>1. /\ open' = FALSE
        /\ UNCHANGED <<kind, serverSide, started, listed, data, fresh, fetch, ask, asked, misled>>
    BY DEF ClosePanel
  <1>2. AnswersTypes'
    BY <1>1 DEF AnswersInv, AnswersTypes, serverSide
  <1>3. StoredStays'
    BY <1>1 DEF AnswersInv, StoredStays, serverSide
  <1>4. AskWasServed'
    BY <1>1 DEF AnswersInv, AskWasServed, Clean, Known, serverSide
  <1>5. PlanIsWatched'
    BY <1>1 DEF AnswersInv, PlanIsWatched, Clean, Known, serverSide
  <1>6. HistoryIsWatched'
    BY <1>1 DEF HistoryIsWatched
  <1> QED BY <1>2, <1>3, <1>4, <1>5, <1>6 DEF AnswersInv

LEMMA PollStatusFits == ASSUME AnswersInv, PollStatus PROVE AnswersInv'
  <1>1. fetch' \in AnswersCall /\ fetch'.at = "sent"
    BY NewCalls DEF PollStatus
  <1> QED BY <1>1 DEF AnswersInv, AnswersTypes, StoredStays, AskWasServed, PlanIsWatched,
                  HistoryIsWatched, Clean, Known, serverSide, PollStatus

LEMMA FetchAnsweredFits == ASSUME AnswersInv, FetchAnswered PROVE AnswersInv'
  <1>1. fetch' \in AnswersCall /\ fetch'.at = "idle"
    BY NewCalls DEF FetchAnswered
  <1>2. data' = fetch.status /\ fetch.at = "answered" /\ data' \in AnswerStatus
        /\ "unknown" \notin AnswerStatus
    BY CallForms DEF AnswersInv, AnswersTypes, FetchAnswered, AnswerStatus, Progress
  <1> QED BY <1>1, <1>2 DEF AnswersInv, AnswersTypes, StoredStays, AskWasServed, PlanIsWatched,
                  HistoryIsWatched, Clean, Known, serverSide, FetchAnswered

LEMMA FetchFailedFits == ASSUME AnswersInv, FetchFailed PROVE AnswersInv'
  <1>1. fetch' \in AnswersCall /\ fetch'.at = "idle"
    BY NewCalls DEF FetchFailed
  <1>2. misled' = misled \cup {"unread"}
    BY DEF FetchFailed
  <1> QED BY <1>1, <1>2 DEF AnswersInv, AnswersTypes, StoredStays, AskWasServed, PlanIsWatched,
                  HistoryIsWatched, Clean, Known, serverSide, FetchFailed

LEMMA AskForItFits == ASSUME AnswersInv, AskForIt PROVE AnswersInv'
  <1>1. ask' \in AnswersCall /\ ask'.at = "sent"
    BY NewCalls DEF AskForIt
  <1>2. kind = "history" => data # "unknown"
    BY DEF AskForIt, AsksByItself
  <1>3. /\ asked' = TRUE /\ misled' = {} /\ started' \in BOOLEAN
        /\ UNCHANGED <<kind, serverSide, open, listed, data, fresh, fetch>>
    BY DEF AskForIt, AnswersInv, AnswersTypes
  <1> QED BY <1>1, <1>2, <1>3 DEF AnswersInv, AnswersTypes, StoredStays, AskWasServed,
                  PlanIsWatched, HistoryIsWatched, serverSide

\* A plan's answer is shown; a history row reads the status again.
LEMMA AskAnsweredFits == ASSUME AnswersInv, AskAnswered PROVE AnswersInv'
  <1> USE DEF AnswersInv
  <1>1. /\ ask' \in AnswersCall /\ ask'.at = "idle" /\ ask.at = "answered"
        /\ ask.status \in AnswerStatus /\ ask.status # "none" /\ (Clean => Known) /\ asked
        /\ "unknown" \notin AnswerStatus
        /\ UNCHANGED <<kind, serverSide, open, started, listed, asked>>
    BY NewCalls, CallForms DEF AskAnswered, AnswersTypes, AskWasServed, AnswerStatus, Progress
  <1>2. CASE kind = "plan"
    <2>1. /\ data' = ask.status /\ fresh' = TRUE /\ fetch' = fetch
          /\ misled' = IF fetch # Idle THEN misled \cup {"overtaken"} ELSE misled
      BY <1>2 DEF AskAnswered
    <2>2. fetch.at # "idle" => "overtaken" \in misled'
      BY <2>1, NewCalls
    <2>3. misled \subseteq misled'
          /\ misled' \subseteq {"split", "restart", "overtaken", "refused", "unread"}
      BY <2>1 DEF AnswersTypes
    <2> QED BY <1>1, <1>2, <2>1, <2>2, <2>3
            DEF AnswersTypes, StoredStays, AskWasServed, PlanIsWatched, HistoryIsWatched, Clean,
                Known, serverSide
  <1>3. CASE kind = "history"
    <2>1. /\ fresh' = FALSE /\ data' = data /\ misled' = misled
          /\ fetch' = IF ~Watching \/ (fetch # Idle /\ data = "unknown") THEN fetch ELSE Sent
      BY <1>3 DEF AskAnswered, Invalidate
    <2>2. data # "unknown"
      BY <1>1, <1>3 DEF AskWasServed
    <2>3. /\ fetch' \in AnswersCall /\ (fetch' = fetch \/ fetch'.at = "sent")
          /\ open /\ ~listed => fetch'.at = "sent"
      BY <2>1, <2>2, NewCalls DEF AnswersTypes, Watching
    <2> QED BY <1>1, <1>3, <2>1, <2>2, <2>3
            DEF AnswersTypes, StoredStays, AskWasServed, PlanIsWatched, HistoryIsWatched, Clean,
                Known, serverSide
  <1>4. CASE kind \notin {"plan", "history"}
    <2>1. /\ fresh' = FALSE /\ misled' = misled
          /\ data' = IF data = "unknown" THEN data ELSE ask.status
          /\ fetch' = IF ~Watching \/ (fetch # Idle /\ data = "unknown") THEN fetch ELSE Sent
      BY <1>4 DEF AskAnswered, Invalidate
    <2>2. fetch' \in AnswersCall /\ (fetch' = fetch \/ fetch'.at = "sent")
      BY <2>1, NewCalls DEF AnswersTypes
    <2> QED BY <1>1, <1>4, <2>1, <2>2
            DEF AnswersTypes, StoredStays, AskWasServed, PlanIsWatched, HistoryIsWatched, Clean,
                Known, serverSide
  <1> QED BY <1>2, <1>3, <1>4

LEMMA AskFailedFits == ASSUME AnswersInv, AskFailed PROVE AnswersInv'
  <1>1. ask' \in AnswersCall /\ ask'.at = "idle"
    BY NewCalls DEF AskFailed
  <1>2. misled' = misled \cup {"refused"}
    BY DEF AskFailed
  <1> QED BY <1>1, <1>2 DEF AnswersInv, AnswersTypes, StoredStays, AskWasServed, PlanIsWatched,
                  HistoryIsWatched, Clean, Known, serverSide, AskFailed

LEMMA HistoryListedFits == ASSUME AnswersInv, HistoryListed PROVE AnswersInv'
  BY DEF AnswersInv, AnswersTypes, StoredStays, AskWasServed, PlanIsWatched, HistoryIsWatched,
     Clean, Known, serverSide, HistoryListed

LEMMA AnswersNextFits == ASSUME AnswersInv, [AnswersNext]_answersVars PROVE AnswersInv'
  <1>1. CASE UNCHANGED answersVars
    BY <1>1 DEF AnswersInv, AnswersTypes, StoredStays, AskWasServed, PlanIsWatched,
       HistoryIsWatched, Clean, Known, answersVars
  <1> QED BY <1>1, ServeFetchFits, ServeAskFits, OtherAsksFits, GeneratedFits, RestartFits,
             OpenPanelFits, ClosePanelFits, PollStatusFits, FetchAnsweredFits, FetchFailedFits,
              AskForItFits,
             AskAnsweredFits, AskFailedFits, HistoryListedFits DEF AnswersNext

LEMMA AnswersInvAlways == AnswersSpec => []AnswersInv
  BY AnswersInitFits, AnswersNextFits, PTL DEF AnswersSpec

\* The server's tracker, the console's caches and both calls keep their types.
THEOREM AnswersTypeCorrect == AnswersSpec => []AnswersTypeOK
  <1>1. ASSUME AnswersInv PROVE AnswersTypeOK
    BY <1>1 DEF AnswersInv, AnswersTypes, AnswersCall, AnswersTypeOK
  <1> QED BY <1>1, AnswersInvAlways, PTL

\* However it is closed and opened and whoever else asks, the panel of a history
\* entry or a plan that has asked reads on until it has an answer or a failure to
\* show, unless its call was lost, the server restarted, a read overtook the answer
\* to a plan's question or a read of an entry's status failed; where the server's
\* two reads of one status came apart, the answer it stops without is in store
\* (queries.ts:309-338 against diagnose.go and testkit.go).
THEOREM WatchedToTheEndAlways == AnswersSpec => []WatchedToTheEnd
  <1>1. ASSUME AnswersInv, asked, kind # "job", Stopped, Clean PROVE FALSE
    <2>1. /\ open /\ ~listed /\ kind # "job" /\ data \in {"unknown", "none"}
          /\ ~(kind = "history" /\ data = "none" /\ ~started)
      BY <1>1 DEF AnswersInv, AnswersTypes, AnswerStatus, Progress, Stopped, Watching, Polls,
         AsksByItself
    <2>2. fetch.at = "idle" /\ ask.at = "idle"
      BY <1>1, NewCalls DEF Stopped
    <2> QED BY <1>1, <2>1, <2>2
            DEF AnswersInv, AnswersTypes, Kind, AskWasServed, PlanIsWatched, HistoryIsWatched
  <1>2. ASSUME AnswersInv, asked, kind # "job", Stopped
        PROVE  misled \cap Excuses # {} \/ ("split" \in misled /\ stored)
    <2>1. "split" \in misled => stored
      BY <1>2 DEF AnswersInv, StoredStays
    <2>2. ~Clean
      BY <1>1, <1>2
    <2> QED BY <2>1, <2>2 DEF Clean, Excuses
  <1>3. AnswersInv => WatchedToTheEnd
    BY <1>2 DEF WatchedToTheEnd
  <1> QED BY <1>3, AnswersInvAlways, PTL

-----------------------------------------------------------------------------
(* The dashboard's jobs and rings                                          *)

Job == [app : App, id : 1..MaxJobs, era : 0..MaxMoves, status : {"running", "ended"}]
RingsSeen == [deployed : SUBSET Identities, on : BOOLEAN]
RingsCall == [at : {"idle", "asked"}] \cup [at : {"answered"}, rings : SUBSET RingsSeen]
SwitchClick == [n : Nat, app : App, aim : App, on : BOOLEAN,
           at : {"cancelled", "sent", "done", "refused"}, prev : SUBSET RingsSeen]

AtMostOne(S) == \A x, y \in S : x = y

\* The server numbers its jobs, and forgets them all in a restart.
JobsFit ==
    /\ moves \in 0..MaxMoves /\ era \in 0..moves
    /\ jobs \in SUBSET Job /\ IsFiniteSet(jobs)
    /\ \A j \in jobs : j.era = era /\ j.id <= Cardinality(jobs)
    /\ \A j, k \in jobs : j.id = k.id => j = k

\* A job that is over stays so: it is the server's, or from before a restart.
IsOver(k) ==
    \/ k[3] < era
    \/ /\ k[3] = era /\ k[2] <= Cardinality(jobs)
       /\ \A j \in jobs : Identity(j) = k => JobEnded(j)

\* What is listed of an application is a job of it, which may have ended since.
IsListed(a, j) ==
    /\ j \in Job /\ j.app = a
    /\ \/ j.era < era
       \/ j.era = era /\ j.id <= Cardinality(jobs) /\ (JobEnded(j) => j \in jobs)

ListFits ==
    /\ listing \in [App -> SUBSET Job]
    /\ \A a \in App : AtMostOne(listing[a]) /\ \A j \in listing[a] : IsListed(a, j)

\* The page announces the end of exactly those jobs that it has seen running and
\* seen over; what it has seen over, or dismissed, does not run.
SeenFits ==
    /\ shown \in App \cup {NoPage}
    /\ seen = watched /\ toasts = handled \cap seen
    /\ "repeated" \notin slips
    /\ seen \cup handled \cup dismissed \subseteq Identities
    /\ \A k \in handled \cup dismissed : IsOver(k)
    /\ \A a \in App : \A j \in listing[a] :
         ~JobEnded(j) => Identity(j) \notin handled \cup dismissed
    /\ shown \in App => \A j \in listing[shown] : JobEnded(j) => Identity(j) \in handled

RingTypes ==
    /\ deployed \in [App -> SUBSET Identities]
    /\ \A a \in App : \A k \in deployed[a] : k[1] = a
    /\ switch \in [App -> BOOLEAN]
    /\ rings \in [App -> SUBSET RingsSeen] /\ \A a \in App : AtMostOne(rings[a])
    /\ ringsRead \in [App -> RingsCall]
    /\ \A a \in App : ringsRead[a].at = "answered" => AtMostOne(ringsRead[a].rings)
    /\ outdated \subseteq App
    /\ toggles \subseteq SwitchClick /\ \A t \in toggles : AtMostOne(t.prev)

\* The rings as they are: the switch, and what the announced jobs have deployed.
IsTrue(a, r) == r.on = switch[a] /\ toasts \cap deployed[a] \subseteq r.deployed

Unsettled(a) == \E t \in toggles : t.app = a

\* As long as nothing slipped, the cached rings are true, or they will be read
\* again: a click is not settled, a call will be or was answered with what is
\* true, or they are known to be outdated and the page is not shown.
RingsFit ==
    slips = {} =>
        /\ \A t \in toggles : t.aim = t.app
        /\ \A a \in App :
             \/ Unsettled(a)
             \/ ringsRead[a].at = "asked"
             \/ ringsRead[a].at = "answered" /\ \A r \in ringsRead[a].rings : IsTrue(a, r)
             \/ ringsRead[a].at = "idle" /\ (a \in outdated \/ \A r \in rings[a] : IsTrue(a, r))
        /\ shown \in App /\ shown \in outdated /\ ~Unsettled(shown) =>
             ringsRead[shown].at # "idle"

BoardInv == JobsFit /\ ListFits /\ SeenFits /\ RingTypes /\ RingsFit

-----------------------------------------------------------------------------
LEMMA RingsCallForms ==
    /\ NotRead \in RingsCall /\ NotRead.at = "idle"
    /\ Asking \in RingsCall /\ Asking.at = "asked"
    /\ \A c \in RingsCall : /\ c.at \in {"idle", "asked", "answered"}
                            /\ c = NotRead <=> c.at = "idle"
                            /\ c = Asking <=> c.at = "asked"
                            /\ c.at = "answered" => c.rings \in SUBSET RingsSeen
  BY DEF RingsCall, NotRead, Asking

LEMMA MovesFit ==
    ASSUME BoardInv, Move \/ UNCHANGED moves
    PROVE  moves' \in 0..MaxMoves /\ moves \in Nat /\ moves' >= moves
  BY BoardAssumption DEF BoardInv, JobsFit, Move

LEMMA IdentityType ==
    ASSUME NEW j \in Job
    PROVE  /\ Identity(j) \in Identities
           /\ Identity(j)[1] = j.app /\ Identity(j)[2] = j.id /\ Identity(j)[3] = j.era
           /\ JobKey(j) = Identity(j)
  BY DEF Job, Identity, Identities, JobKey

LEMMA BoardInitFits == ASSUME BoardInit PROVE BoardInv
  <1>1. JobsFit
    BY BoardAssumption, FS_EmptySet DEF BoardInit, JobsFit
  <1>2. ListFits
    BY DEF BoardInit, ListFits, AtMostOne
  <1>3. shown \in App \cup {NoPage}
    BY BoardAssumption DEF BoardInit
  <1>4. SeenFits
    BY <1>3 DEF BoardInit, SeenFits
  <1>5. /\ ringsRead \in [App -> RingsCall]
        /\ \A a \in App : ringsRead[a].at \in {"idle", "asked"}
    BY RingsCallForms DEF BoardInit
  <1>6. RingTypes
    BY <1>5 DEF BoardInit, RingTypes, AtMostOne, Unread
  <1>7. RingsFit
    BY <1>5 DEF BoardInit, RingsFit, Unread
  <1> QED BY <1>1, <1>2, <1>4, <1>6, <1>7 DEF BoardInv

-----------------------------------------------------------------------------
(* The server                                                              *)

\* What one of its steps does to the jobs: none that is over runs again.
LEMMA ServerStepFits ==
    ASSUME BoardInv, JobsFit',
           era' >= era,
           era' = era => Cardinality(jobs') >= Cardinality(jobs),
           era' = era => \A j \in jobs : JobEnded(j) => j \in jobs',
           era' = era => \A j \in jobs' : ~JobEnded(j) =>
               j \in jobs \/ j.id > Cardinality(jobs),
           UNCHANGED <<listing, pageVars, shown, slips>>
    PROVE  ListFits' /\ SeenFits'
  <1>1. /\ era \in Nat /\ era' \in Nat /\ Cardinality(jobs) \in Nat /\ Cardinality(jobs') \in Nat
    BY FS_CardinalityType DEF BoardInv, JobsFit
  <1>2. \A a, j : IsListed(a, j) => IsListed(a, j)'
    BY <1>1 DEF IsListed, Job
  <1>3. ASSUME NEW k \in Identities, IsOver(k) PROVE IsOver(k)'
    <2>1. k[2] \in Nat /\ k[3] \in Nat
      BY BoardAssumption DEF Identities
    <2>2. CASE k[3] < era
      BY <2>1, <2>2, <1>1 DEF IsOver
    <2>3. CASE ~(k[3] < era) /\ era' > era
      BY <2>1, <2>3, <1>1, <1>3 DEF IsOver
    <2>4. CASE ~(k[3] < era) /\ era' = era
      <3>1. k[3] = era /\ k[2] <= Cardinality(jobs)
            /\ \A j \in jobs : Identity(j) = k => JobEnded(j)
        BY <2>4, <1>3 DEF IsOver
      <3>2. ASSUME NEW j \in jobs', Identity(j) = k PROVE JobEnded(j)
        <4>1. j \in Job /\ j.id = k[2] /\ j.id \in Nat
          BY <3>2, <2>1, IdentityType DEF JobsFit
        <4> QED BY <4>1, <3>1, <3>2, <2>4, <1>1
      <3> QED BY <3>1, <3>2, <2>1, <2>4, <1>1 DEF IsOver
    <2> QED BY <2>2, <2>3, <2>4, <1>1
  <1>4. ListFits'
    BY <1>2 DEF BoardInv, ListFits
  <1>5. SeenFits'
    BY <1>3 DEF BoardInv, SeenFits, pageVars
  <1> QED BY <1>4, <1>5

\* The rings and the page stay as they are.
LEMMA RingsUntouched ==
    ASSUME BoardInv,
           UNCHANGED <<deployed, switch, rings, ringsRead, outdated, toggles, toasts, shown, slips>>
    PROVE  RingTypes' /\ RingsFit'
  BY DEF BoardInv, RingTypes, RingsFit, IsTrue, Unsettled

LEMMA StartJobFits == ASSUME BoardInv, NEW a \in App, StartJob(a) PROVE BoardInv'
  <1> DEFINE new == [app |-> a, id |-> Cardinality(jobs) + 1, era |-> era, status |-> "running"]
  <1>1. Cardinality(jobs) \in Nat /\ era \in Nat /\ moves' \in 0..MaxMoves /\ era \in 0..moves'
        /\ era \in 0..MaxMoves
    BY FS_CardinalityType, BoardAssumption DEF BoardInv, JobsFit, StartJob, Move
  <1>2. new \in Job /\ new.id = Cardinality(jobs) + 1 /\ new.era = era
    BY <1>1, BoardAssumption DEF Job, StartJob
  <1>3. jobs' = jobs \cup {new} /\ era' = era
    BY DEF StartJob
  <1>4. new \notin jobs
    BY <1>1, <1>2 DEF BoardInv, JobsFit
  <1> HIDE DEF new
  <1>5. IsFiniteSet(jobs') /\ Cardinality(jobs') = Cardinality(jobs) + 1
    BY <1>3, <1>4, FS_AddElement DEF BoardInv, JobsFit
  <1>6. \A j \in jobs : j.id <= Cardinality(jobs) /\ j.id \in Nat
    BY BoardAssumption DEF BoardInv, JobsFit, Job
  <1>7. JobsFit'
    <2>1. moves' \in 0..MaxMoves /\ era' \in 0..moves' /\ jobs' \in SUBSET Job
      BY <1>1, <1>2, <1>3 DEF BoardInv, JobsFit
    <2>2. \A j \in jobs' : j.era = era' /\ j.id <= Cardinality(jobs')
      BY <1>1, <1>2, <1>3, <1>5, <1>6 DEF BoardInv, JobsFit
    <2>3. \A j, k \in jobs' : j.id = k.id => j = k
      BY <1>1, <1>2, <1>3, <1>6 DEF BoardInv, JobsFit
    <2> QED BY <2>1, <2>2, <2>3, <1>5 DEF JobsFit
  <1>8. ListFits' /\ SeenFits'
    BY <1>1, <1>2, <1>3, <1>5, <1>7, ServerStepFits DEF StartJob, pageVars
  <1>9. RingTypes' /\ RingsFit'
    BY RingsUntouched DEF StartJob, pageVars
  <1> QED BY <1>7, <1>8, <1>9 DEF BoardInv

LEMMA JobEndsFits == ASSUME BoardInv, NEW j \in jobs, JobEnds(j) PROVE BoardInv'
  <1> DEFINE new == [j EXCEPT !.status = "ended"]
  <1>1. j \in Job /\ ~JobEnded(j)
    BY DEF BoardInv, JobsFit, JobEnds
  <1>2. /\ new \in Job /\ new.id = j.id /\ new.era = j.era /\ new.app = j.app /\ JobEnded(new)
        /\ new # j
    BY <1>1 DEF Job, JobEnded
  <1>3. jobs' = (jobs \ {j}) \cup {new} /\ era' = era /\ moves' = moves
    BY DEF JobEnds, jobVars
  <1>4. new \notin jobs
    BY <1>2 DEF BoardInv, JobsFit
  <1> HIDE DEF new
  <1>5. IsFiniteSet(jobs') /\ Cardinality(jobs') = Cardinality(jobs)
    <2> DEFINE rest == jobs \ {j}
    <2>1. IsFiniteSet(rest) /\ Cardinality(rest) = Cardinality(jobs) - 1
      BY FS_RemoveElement DEF BoardInv, JobsFit
    <2>2. Cardinality(jobs) \in Nat
      BY FS_CardinalityType DEF BoardInv, JobsFit
    <2>3. jobs' = rest \cup {new} /\ new \notin rest
      BY <1>3, <1>4
    <2> HIDE DEF rest
    <2>4. IsFiniteSet(rest \cup {new}) /\ Cardinality(rest \cup {new}) = Cardinality(rest) + 1
      BY <2>1, <2>3, FS_AddElement
    <2> QED BY <2>1, <2>2, <2>3, <2>4
  <1>6. JobsFit'
    BY <1>1, <1>2, <1>3, <1>5 DEF BoardInv, JobsFit
  <1>7. era' >= era /\ Cardinality(jobs') >= Cardinality(jobs)
    BY <1>3, <1>5, FS_CardinalityType DEF BoardInv, JobsFit
  <1>8. ListFits' /\ SeenFits'
    <2>1. \A i \in jobs : JobEnded(i) => i \in jobs'
      BY <1>1, <1>3
    <2>2. \A i \in jobs' : ~JobEnded(i) => i \in jobs
      BY <1>2, <1>3
    <2> QED BY <2>1, <2>2, <1>6, <1>7, ServerStepFits DEF JobEnds, pageVars
  <1>9. RingTypes' /\ RingsFit'
    BY RingsUntouched DEF JobEnds, pageVars
  <1> QED BY <1>6, <1>8, <1>9 DEF BoardInv

LEMMA ServerRestartFits == ASSUME BoardInv, ServerRestart PROVE BoardInv'
  <1>1. JobsFit' /\ era' > era
    BY FS_EmptySet, BoardAssumption DEF BoardInv, JobsFit, ServerRestart, Move
  <1>2. era' \in Nat /\ era \in Nat
    BY <1>1 DEF BoardInv, JobsFit
  <1>3. ListFits' /\ SeenFits'
    BY <1>1, <1>2, ServerStepFits DEF ServerRestart, pageVars
  <1>4. RingTypes' /\ RingsFit'
    BY RingsUntouched DEF ServerRestart, pageVars
  <1> QED BY <1>1, <1>3, <1>4 DEF BoardInv

\* The jobs and what is listed and seen of them stay as they are.
LEMMA JobsUntouched ==
    ASSUME BoardInv, UNCHANGED <<jobs, era, listing, pageVars, shown>>,
           moves' \in 0..MaxMoves, moves' >= moves,
           "repeated" \notin slips'
    PROVE  JobsFit' /\ ListFits' /\ SeenFits'
  BY DEF BoardInv, JobsFit, ListFits, IsListed, SeenFits, IsOver, pageVars

\* A job that runs is not announced, so nothing that is announced changes.
LEMMA JobDeploysFits == ASSUME BoardInv, NEW j \in jobs, JobDeploys(j) PROVE BoardInv'
  <1>1. j \in Job /\ ~JobEnded(j) /\ j.app \in App
    BY DEF BoardInv, JobsFit, JobDeploys, Job
  <1>2. Identity(j) \in Identities /\ Identity(j)[1] = j.app /\ Identity(j)[3] = j.era
    BY <1>1, IdentityType
  <1>3. Identity(j) \notin toasts
    <2>1. j.era = era /\ era \in Nat
      BY DEF BoardInv, JobsFit
    <2>2. ~IsOver(Identity(j))
      BY <2>1, <1>1, <1>2 DEF IsOver
    <2> QED BY <2>2 DEF BoardInv, SeenFits
  <1>4. deployed' = [deployed EXCEPT ![j.app] = @ \cup {Identity(j)}]
        /\ toasts' = toasts /\ deployed \in [App -> SUBSET Identities]
    BY DEF BoardInv, RingTypes, JobDeploys, pageVars
  <1>5. \A a \in App : toasts' \cap deployed'[a] = toasts \cap deployed[a]
    BY <1>1, <1>3, <1>4
  <1>6. RingTypes'
    BY <1>1, <1>2 DEF BoardInv, RingTypes, JobDeploys
  <1>7. RingsFit'
    <2>1. \A a \in App : \A r : IsTrue(a, r) => IsTrue(a, r)'
      BY <1>5 DEF IsTrue, JobDeploys
    <2> QED BY <2>1 DEF BoardInv, RingsFit, Unsettled, JobDeploys
  <1>8. JobsFit' /\ ListFits' /\ SeenFits'
    BY JobsUntouched DEF BoardInv, JobsFit, SeenFits, JobDeploys
  <1> QED BY <1>6, <1>7, <1>8 DEF BoardInv

-----------------------------------------------------------------------------
(* What is seen of the jobs                                                *)

LEMMA ListedIsOver ==
    ASSUME BoardInv, NEW a \in App, NEW j, IsListed(a, j), JobEnded(j)
    PROVE  IsOver(Identity(j))
  <1>1. j \in Job /\ Identity(j)[1] = j.app /\ Identity(j)[2] = j.id /\ Identity(j)[3] = j.era
    BY IdentityType DEF IsListed
  <1>2. CASE j.era < era
    BY <1>1, <1>2 DEF IsOver
  <1>3. CASE j.era = era /\ j.id <= Cardinality(jobs) /\ j \in jobs
    <2>1. ASSUME NEW i \in jobs, Identity(i) = Identity(j) PROVE i = j
      <3>1. i.id = j.id
        BY <2>1, <1>1, IdentityType DEF BoardInv, JobsFit
      <3> QED BY <3>1, <1>3 DEF BoardInv, JobsFit
    <2> QED BY <2>1, <1>1, <1>3 DEF IsOver
  <1> QED BY <1>2, <1>3 DEF IsListed

LEMMA RunningIsNotOver ==
    ASSUME BoardInv, NEW j \in jobs, ~JobEnded(j)
    PROVE  Identity(j) \notin handled \cup dismissed
  <1>1. Identity(j)[3] = j.era /\ j.era = era /\ era \in Nat
    BY IdentityType DEF BoardInv, JobsFit
  <1>2. ~IsOver(Identity(j))
    BY <1>1 DEF IsOver
  <1> QED BY <1>2 DEF BoardInv, SeenFits

\* The effect, for the list and the calls it is given: a job that it finds over for
\* the first time, and that ran here, is announced and the rings are read again.
LEMMA WatchJobFits ==
    ASSUME BoardInv, UNCHANGED <<jobs, era>>, shown' \in App \cup {NoPage},
           NEW list \in [App -> SUBSET Job], listing' = list,
           \A a \in App : AtMostOne(list[a]) /\ \A j \in list[a] :
               IsListed(a, j) /\ (~JobEnded(j) => Identity(j) \notin handled \cup dismissed),
           NEW reads \in [App -> RingsCall], NEW slipped, "repeated" \notin slipped,
           WatchJob(list, reads, slipped)
    PROVE  /\ ListFits' /\ SeenFits'
           /\ slips' = {} => slipped = {}
           /\ \A a \in App :
                /\ ringsRead'[a] \in {reads[a], Asking}
                /\ a # shown' => /\ ringsRead'[a] = reads[a]
                                 /\ toasts' \cap deployed[a] = toasts \cap deployed[a]
                /\ a = shown' /\ slips' = {} /\ ringsRead'[a] # Asking =>
                      ringsRead'[a] = reads[a] /\ toasts' = toasts
           /\ ringsRead' \in [App -> RingsCall]
  <1> DEFINE current == IF shown' \in App THEN list[shown'] ELSE {}
             ids == {Identity(j) : j \in current}
             over == \E j \in current : JobEnded(j)
             news == over /\ ids \cap handled = {} /\ ids \subseteq seen
  <1>1. /\ AtMostOne(current)
        /\ \A j \in current : /\ j \in Job /\ j.app = shown' /\ IsListed(shown', j)
                              /\ ~JobEnded(j) => Identity(j) \notin handled \cup dismissed
    BY DEF IsListed, AtMostOne
  <1>2. {JobKey(j) : j \in current} = ids
    BY DEF JobKey, Identity
  <1>3. /\ seen' = IF over THEN seen ELSE seen \cup ids
        /\ handled' = IF over THEN handled \cup ids ELSE handled
        /\ watched' = IF over THEN watched ELSE watched \cup ids
        /\ toasts' = IF news THEN toasts \cup ids ELSE toasts
        /\ dismissed' = dismissed
    BY <1>2 DEF WatchJob
  <1>4. /\ seen = watched /\ toasts = handled \cap seen
        /\ \A k \in handled \cup dismissed : k \in Identities /\ IsOver(k)
        /\ seen \subseteq Identities
    BY DEF BoardInv, SeenFits
  <1>5. ASSUME NEW k PROVE IsOver(k)' <=> IsOver(k)
    BY DEF IsOver
  <1>6. over => \A k \in ids : IsOver(k)
    <2> SUFFICES ASSUME over, NEW j \in current PROVE IsOver(Identity(j))
      OBVIOUS
    <2>1. JobEnded(j) /\ shown' \in App
      BY <1>1 DEF AtMostOne
    <2> QED BY <1>1, <2>1, ListedIsOver
  <1>7. ids \subseteq Identities /\ (~over => ids \cap handled = {} /\ ids \cap dismissed = {})
    BY <1>1, IdentityType
  <1>8. news \/ toasts' = toasts
    BY <1>3
  <1>9. ~(news /\ ids \cap toasts # {})
    BY <1>4
  <1>10. /\ IF news THEN Refetch(reads, rings[shown'], slipped)
                    ELSE ringsRead' = reads /\ slips' = slipped
         /\ news => shown' \in App
    <2>1. IF news THEN Refetch(reads, rings[shown'], slipped)
                  ELSE ringsRead' = reads /\ slips' = slipped
      BY <1>2, <1>9 DEF WatchJob
    <2>2. over => shown' \in App
      BY <1>1
    <2> QED BY <2>1, <2>2
  <1>11. ListFits'
    BY DEF ListFits, IsListed
  <1>12. "repeated" \notin slips' /\ (slips' = {} => slipped = {})
    BY <1>10 DEF Refetch
  <1>13. SeenFits'
    <2>1. seen' = watched' /\ seen' \cup handled' \cup dismissed' \subseteq Identities
      <3> HIDE DEF ids, over, news
      <3> QED BY <1>3, <1>4, <1>7
    <2>2. toasts' = handled' \cap seen'
      <3>1. CASE ~over
        BY <3>1, <1>3, <1>4, <1>7
      <3>2. CASE news
        BY <3>2, <1>3, <1>4
      <3>3. CASE over /\ ~news
        <4>1. \A x, y \in ids : x = y
          BY <1>1 DEF AtMostOne
        <4> QED BY <4>1, <3>3, <1>3, <1>4
      <3> QED BY <3>1, <3>2, <3>3
    <2>3. \A k \in handled' \cup dismissed' : IsOver(k)'
      BY <1>3, <1>4, <1>5, <1>6
    <2>4. ASSUME NEW a \in App, NEW j \in list[a], ~JobEnded(j)
          PROVE  Identity(j) \notin handled' \cup dismissed'
      <3>1. Identity(j) \notin handled \cup dismissed
        BY <2>4
      <3>2. CASE over /\ Identity(j) \in ids
        <4>1. PICK i \in current : Identity(i) = Identity(j)
          BY <3>2
        <4>2. j \in Job /\ j.app = a /\ i.app = shown' /\ i.app = j.app /\ shown' \in App
          BY <4>1, <1>1, IdentityType DEF IsListed
        <4>3. j \in current
          BY <4>2
        <4> QED BY <4>3, <3>2, <2>4, <1>1 DEF AtMostOne
      <3> QED BY <3>1, <3>2, <1>3
    <2>5. shown' \in App => \A j \in list[shown'] : JobEnded(j) => Identity(j) \in handled'
      BY <1>3
    <2> QED BY <2>1, <2>2, <2>3, <2>4, <2>5, <1>12 DEF SeenFits
  <1>14. /\ ringsRead' \in [App -> RingsCall]
         /\ \A a \in App : /\ ringsRead'[a] \in {reads[a], Asking}
                           /\ a # shown' => ringsRead'[a] = reads[a]
                           /\ a = shown' /\ slips' = {} /\ ringsRead'[a] # Asking =>
                                ringsRead'[a] = reads[a] /\ ~news
    BY <1>10, RingsCallForms DEF Refetch
  <1>15. ASSUME NEW a \in App, a # shown' PROVE toasts' \cap deployed[a] = toasts \cap deployed[a]
    <2>1. \A k \in ids : k[1] = shown'
      BY <1>1, IdentityType
    <2>2. \A k \in deployed[a] : k[1] = a
      BY DEF BoardInv, RingTypes
    <2> QED BY <2>1, <2>2, <1>3, <1>15
  <1> QED BY <1>8, <1>11, <1>12, <1>13, <1>14, <1>15

\* What is announced of a job on screen has its rings read again.
LEMMA WatchJobRings ==
    ASSUME BoardInv, UNCHANGED <<deployed, switch, rings, outdated>>,
           NEW reads, ringsRead' \in [App -> RingsCall],
           slips' = {} => slips = {} /\ toggles' = toggles,
           \A a \in App : reads[a] \in {ringsRead[a], Asking},
           slips = {} /\ shown' \in App /\ shown' \in outdated /\ ~Unsettled(shown') =>
               reads[shown'].at # "idle",
           \A a \in App :
               /\ ringsRead'[a] \in {reads[a], Asking}
               /\ a # shown' => toasts' \cap deployed[a] = toasts \cap deployed[a]
               /\ a = shown' /\ slips' = {} /\ ringsRead'[a] # Asking => toasts' = toasts
    PROVE  RingsFit' /\ \A a \in App : ringsRead'[a].at = "answered" => AtMostOne(ringsRead'[a].rings)
  <1>1. \A a \in App : ringsRead'[a] = ringsRead[a] \/ ringsRead'[a] = Asking
    OBVIOUS
  <1>2. Asking.at = "asked"
    BY RingsCallForms
  <1>3. \A a \in App : ringsRead'[a].at = "answered" => AtMostOne(ringsRead'[a].rings)
    BY <1>1, <1>2 DEF BoardInv, RingTypes
  <1>4. ASSUME slips' = {} PROVE RingsFit'
    <2>1. slips = {} /\ toggles' = toggles
      BY <1>4
    <2>2. \A a \in App : Unsettled(a)' <=> Unsettled(a)
      BY <2>1 DEF Unsettled
    <2>3. ASSUME NEW a \in App, ringsRead'[a].at # "asked"
          PROVE  \A r : IsTrue(a, r) <=> IsTrue(a, r)'
      <3>1. ringsRead'[a] # Asking
        BY <2>3, <1>2
      <3>2. toasts' \cap deployed[a] = toasts \cap deployed[a]
        BY <3>1, <1>4
      <3> QED BY <3>2 DEF IsTrue
    <2>4. ASSUME NEW a \in App
          PROVE  \/ Unsettled(a)'
                 \/ ringsRead'[a].at = "asked"
                 \/ ringsRead'[a].at = "answered" /\ \A r \in ringsRead'[a].rings : IsTrue(a, r)'
                 \/ /\ ringsRead'[a].at = "idle"
                    /\ a \in outdated' \/ \A r \in rings'[a] : IsTrue(a, r)'
      BY <1>1, <1>2, <2>1, <2>2, <2>3 DEF BoardInv, RingsFit
    <2>5. \A a \in App : a = shown' /\ a \in outdated' /\ ~Unsettled(a)' =>
             ringsRead'[a].at # "idle"
      <3> SUFFICES ASSUME NEW a \in App, a = shown', a \in outdated, ~Unsettled(a)
                   PROVE  ringsRead'[a].at # "idle"
        BY <2>2
      <3>1. reads[a].at # "idle"
        BY <2>1
      <3> QED BY <3>1, <1>2
    <2>6. \A t \in toggles' : t.aim = t.app
      BY <2>1 DEF BoardInv, RingsFit
    <2> QED BY <2>4, <2>5, <2>6 DEF RingsFit, Unsettled, IsTrue
  <1> QED BY <1>3, <1>4 DEF RingsFit

LEMMA PollJobsFits == ASSUME BoardInv, PollJobs PROVE BoardInv'
  <1> DEFINE list == [a \in App |-> Newest(a)]
  <1>1. /\ UNCHANGED <<jobVars, switch, shown, rings, outdated, toggles, moves>>
        /\ listing' = list /\ WatchJob(list, ringsRead, slips)
    BY DEF PollJobs
  <1>2. \A a \in App : Newest(a) \subseteq jobs /\ \A j \in Newest(a) : j.app = a
    BY DEF Newest
  <1>3. ASSUME NEW a \in App PROVE AtMostOne(Newest(a))
    <2> SUFFICES ASSUME NEW j \in Newest(a), NEW k \in Newest(a) PROVE j = k
      BY DEF AtMostOne
    <2>1. j \in jobs /\ k \in jobs /\ j.id <= k.id /\ k.id <= j.id /\ j.id \in Nat /\ k.id \in Nat
      BY DEF Newest, BoardInv, JobsFit, Job
    <2> QED BY <2>1 DEF BoardInv, JobsFit
  <1>4. \A a \in App : \A j \in Newest(a) :
           IsListed(a, j) /\ (~JobEnded(j) => Identity(j) \notin handled \cup dismissed)
    BY <1>2, RunningIsNotOver DEF BoardInv, JobsFit, IsListed
  <1>5. list \in [App -> SUBSET Job]
    BY <1>2 DEF BoardInv, JobsFit
  <1>6. ringsRead \in [App -> RingsCall] /\ "repeated" \notin slips /\ shown \in App \cup {NoPage}
    BY DEF BoardInv, SeenFits, RingTypes
  <1>7. \A a \in App : list[a] = Newest(a)
    OBVIOUS
  <1> HIDE DEF list
  <1>8. /\ ListFits' /\ SeenFits' /\ ringsRead' \in [App -> RingsCall]
        /\ slips' = {} => slips = {}
        /\ \A a \in App :
             /\ ringsRead'[a] \in {ringsRead[a], Asking}
             /\ a # shown' => toasts' \cap deployed[a] = toasts \cap deployed[a]
             /\ a = shown' /\ slips' = {} /\ ringsRead'[a] # Asking => toasts' = toasts
    BY <1>1, <1>3, <1>4, <1>5, <1>6, <1>7, WatchJobFits DEF jobVars
  <1>9. RingsFit' /\ \A a \in App : ringsRead'[a].at = "answered" => AtMostOne(ringsRead'[a].rings)
    <2>1. slips = {} /\ shown' \in App /\ shown' \in outdated /\ ~Unsettled(shown') =>
             ringsRead[shown'].at # "idle"
      BY <1>1 DEF BoardInv, RingsFit
    <2> QED BY <1>1, <1>8, <2>1, WatchJobRings DEF jobVars
  <1>10. JobsFit' /\ RingTypes'
    BY <1>1, <1>8, <1>9 DEF BoardInv, JobsFit, RingTypes, jobVars
  <1> QED BY <1>8, <1>9, <1>10 DEF BoardInv

\* The list and the calls are what they were, but one more may be under way.
LEMMA ShownFits ==
    ASSUME BoardInv, NEW a \in App, shown' = a, Move, NEW slipped,
           "repeated" \notin slipped, slipped = {} => slips = {},
           UNCHANGED <<jobVars, switch, listing, rings, outdated>>,
           slipped = {} => toggles' = toggles,
           toggles' \subseteq SwitchClick, \A t \in toggles' : AtMostOne(t.prev),
           WatchJob(listing, OnShow(a), slipped)
    PROVE  BoardInv'
  <1> DEFINE reads == OnShow(a)
  <1>1. /\ listing \in [App -> SUBSET Job]
        /\ \A b \in App : AtMostOne(listing[b]) /\ \A j \in listing[b] :
             IsListed(b, j) /\ (~JobEnded(j) => Identity(j) \notin handled \cup dismissed)
    BY DEF BoardInv, ListFits, SeenFits
  <1>2. ringsRead \in [App -> RingsCall]
    BY DEF BoardInv, RingTypes
  <1>3. /\ reads \in [App -> RingsCall]
        /\ \A b \in App : reads[b] \in {ringsRead[b], Asking}
        /\ a \in outdated => reads[a].at # "idle"
    BY <1>2, RingsCallForms DEF OnShow
  <1>4. WatchJob(listing, reads, slipped)
    OBVIOUS
  <1> HIDE DEF reads
  <1>5. /\ ListFits' /\ SeenFits' /\ ringsRead' \in [App -> RingsCall]
        /\ slips' = {} => slipped = {}
        /\ \A b \in App :
             /\ ringsRead'[b] \in {reads[b], Asking}
             /\ b # shown' => toasts' \cap deployed[b] = toasts \cap deployed[b]
             /\ b = shown' /\ slips' = {} /\ ringsRead'[b] # Asking => toasts' = toasts
    BY <1>1, <1>3, <1>4, WatchJobFits DEF jobVars
  <1>6. RingsFit' /\ \A b \in App : ringsRead'[b].at = "answered" => AtMostOne(ringsRead'[b].rings)
    BY <1>3, <1>5, WatchJobRings DEF jobVars
  <1>7. JobsFit'
    BY MovesFit DEF BoardInv, JobsFit, jobVars
  <1>8. RingTypes'
    BY <1>5, <1>6 DEF BoardInv, RingTypes, jobVars
  <1> QED BY <1>5, <1>6, <1>7, <1>8 DEF BoardInv

LEMMA ShowAppFits == ASSUME BoardInv, NEW a \in App, ShowApp(a) PROVE BoardInv'
  BY ShownFits DEF ShowApp, BoardInv, RingTypes, SeenFits

LEMMA ShowAppBehindSheetFits ==
    ASSUME BoardInv, NEW a \in App, ShowAppBehindSheet(a) PROVE BoardInv'
  <1>1. PICK current \in SUBSET toggles :
           toggles' = (toggles \ current) \cup {[t EXCEPT !.aim = a] : t \in current}
    BY DEF ShowAppBehindSheet
  <1>2. toggles' \subseteq SwitchClick /\ \A t \in toggles' : AtMostOne(t.prev)
    BY <1>1 DEF BoardInv, RingTypes, SwitchClick
  <1>3. "repeated" \notin slips \cup {"retargeted"}
    BY DEF BoardInv, SeenFits
  <1> QED BY <1>2, <1>3, ShownFits DEF ShowAppBehindSheet

LEMMA DismissFits == ASSUME BoardInv, Dismiss PROVE BoardInv'
  <1>1. PICK j \in listing[shown] : JobEnded(j) /\ dismissed' = dismissed \cup {JobKey(j)}
    BY DEF Dismiss
  <1>2. shown \in App /\ IsListed(shown, j) /\ j \in Job /\ j.app = shown
    BY DEF Dismiss, BoardInv, ListFits, IsListed
  <1>3. JobKey(j) = Identity(j) /\ Identity(j) \in Identities /\ IsOver(Identity(j))
    BY <1>1, <1>2, IdentityType, ListedIsOver
  <1>4. \A a \in App : \A i \in listing[a] : ~JobEnded(i) => Identity(i) # Identity(j)
    <2> SUFFICES ASSUME NEW a \in App, NEW i \in listing[a], Identity(i) = Identity(j)
                 PROVE  i = j
      BY <1>1
    <2>1. i \in Job /\ i.app = a /\ a = shown
      BY <1>2, IdentityType DEF BoardInv, ListFits, IsListed
    <2> QED BY <2>1, <1>1, <1>2 DEF BoardInv, ListFits, AtMostOne
  <1>5. JobsFit' /\ ListFits'
    BY DEF Dismiss, BoardInv, JobsFit, ListFits, IsListed, jobVars
  <1>6. SeenFits'
    <2>1. \A k : IsOver(k) => IsOver(k)'
      BY DEF Dismiss, IsOver, jobVars
    <2> QED BY <1>1, <1>3, <1>4, <2>1 DEF Dismiss, BoardInv, SeenFits
  <1>7. RingTypes' /\ RingsFit'
    BY RingsUntouched DEF Dismiss, jobVars
  <1> QED BY <1>5, <1>6, <1>7 DEF BoardInv

-----------------------------------------------------------------------------
(* Reading the rings, and changing their switch                            *)

LEMMA ServeRingsFits == ASSUME BoardInv, NEW a \in App, ServeRings(a) PROVE BoardInv'
  <1> DEFINE now == [deployed |-> deployed[a], on |-> switch[a]]
             answer == [at |-> "answered", rings |-> {now}]
  <1>1. now \in RingsSeen /\ IsTrue(a, now)
    BY DEF BoardInv, RingTypes, RingsSeen, IsTrue
  <1>2. /\ ringsRead' = [ringsRead EXCEPT ![a] = answer]
        /\ UNCHANGED <<jobVars, switch, shown, listing, rings, outdated,
                       pageVars, toggles, slips, moves>>
    BY DEF ServeRings
  <1>3. answer.at = "answered" /\ answer.rings = {now} /\ AtMostOne({now})
    BY DEF AtMostOne
  <1> HIDE DEF now
  <1>4. answer \in RingsCall
    BY <1>1 DEF RingsCall
  <1> HIDE DEF answer
  <1>5. JobsFit' /\ ListFits' /\ SeenFits'
    BY <1>2, JobsUntouched, MovesFit DEF BoardInv, SeenFits, jobVars
  <1>6. RingTypes'
    BY <1>2, <1>3, <1>4 DEF BoardInv, RingTypes, jobVars
  <1>7. \A b, r : IsTrue(b, r)' <=> IsTrue(b, r)
    BY <1>2 DEF IsTrue, jobVars, pageVars
  <1>8. \A b : Unsettled(b)' <=> Unsettled(b)
    BY <1>2 DEF Unsettled
  <1>9. RingsFit'
    <2>1. ringsRead'[a].at = "answered" /\ \A r \in ringsRead'[a].rings : IsTrue(a, r)
      BY <1>1, <1>2, <1>3 DEF BoardInv, RingTypes
    <2>2. \A b \in App : b # a => ringsRead'[b] = ringsRead[b]
      BY <1>2
    <2> QED BY <1>2, <1>7, <1>8, <2>1, <2>2 DEF BoardInv, RingsFit
  <1> QED BY <1>5, <1>6, <1>9 DEF BoardInv

LEMMA RingsArriveFits == ASSUME BoardInv, NEW a \in App, RingsArrive(a) PROVE BoardInv'
  <1>1. /\ ringsRead[a].at = "answered"
        /\ rings' = [rings EXCEPT ![a] = ringsRead[a].rings]
        /\ ringsRead' = [ringsRead EXCEPT ![a] = NotRead] /\ outdated' = outdated \ {a}
        /\ UNCHANGED <<jobVars, switch, shown, listing, pageVars, toggles, slips, moves>>
    BY DEF RingsArrive
  <1>2. JobsFit' /\ ListFits' /\ SeenFits'
    BY <1>1, JobsUntouched, MovesFit DEF BoardInv, SeenFits, jobVars
  <1>3. ringsRead[a].rings \in SUBSET RingsSeen /\ AtMostOne(ringsRead[a].rings)
    BY <1>1, RingsCallForms DEF BoardInv, RingTypes
  <1>4. RingTypes'
    BY <1>1, <1>3, RingsCallForms DEF BoardInv, RingTypes, jobVars
  <1>5. \A b, r : IsTrue(b, r)' <=> IsTrue(b, r)
    BY <1>1 DEF IsTrue, jobVars, pageVars
  <1>6. \A b : Unsettled(b)' <=> Unsettled(b)
    BY <1>1 DEF Unsettled
  <1>7. RingsFit'
    <2>1. ringsRead'[a].at = "idle" /\ rings'[a] = ringsRead[a].rings /\ a \notin outdated'
      BY <1>1, RingsCallForms DEF BoardInv, RingTypes
    <2>2. \A b \in App : b # a => /\ ringsRead'[b] = ringsRead[b] /\ rings'[b] = rings[b]
                                  /\ b \in outdated' <=> b \in outdated
      BY <1>1
    <2> QED BY <1>1, <1>5, <1>6, <2>1, <2>2 DEF BoardInv, RingsFit
  <1> QED BY <1>2, <1>4, <1>7 DEF BoardInv

LEMMA PollRingsFits == ASSUME BoardInv, PollRings PROVE BoardInv'
  <1>1. /\ shown \in App /\ Move /\ ringsRead' = [ringsRead EXCEPT ![shown] = Asking]
        /\ UNCHANGED <<jobVars, switch, shown, listing, rings, outdated, pageVars, toggles, slips>>
    BY DEF PollRings
  <1>2. JobsFit' /\ ListFits' /\ SeenFits'
    BY <1>1, JobsUntouched, MovesFit DEF BoardInv, SeenFits, jobVars
  <1>3. RingTypes'
    BY <1>1, RingsCallForms DEF BoardInv, RingTypes, jobVars
  <1>4. RingsFit'
    <2>1. ringsRead'[shown].at = "asked"
      BY <1>1, RingsCallForms DEF BoardInv, RingTypes
    <2>2. \A b \in App : b # shown => ringsRead'[b] = ringsRead[b]
      BY <1>1
    <2> QED BY <1>1, <2>1, <2>2 DEF BoardInv, RingsFit, IsTrue, Unsettled, jobVars, pageVars
  <1> QED BY <1>2, <1>3, <1>4 DEF BoardInv

LEMMA LeaveBoardFits == ASSUME BoardInv, LeaveBoard PROVE BoardInv'
  <1>1. shown' = NoPage /\ NoPage \notin App
    BY FleetAssumption DEF LeaveBoard
  <1>2. JobsFit'
    BY MovesFit DEF LeaveBoard, BoardInv, JobsFit, jobVars
  <1>3. ListFits' /\ SeenFits'
    BY <1>1 DEF LeaveBoard, BoardInv, ListFits, IsListed, SeenFits, IsOver, jobVars, pageVars
  <1>4. RingTypes' /\ RingsFit'
    BY <1>1 DEF LeaveBoard, BoardInv, RingTypes, RingsFit, IsTrue, Unsettled, jobVars, pageVars
  <1> QED BY <1>2, <1>3, <1>4 DEF BoardInv

LEMMA ReloadBoardFits == ASSUME BoardInv, ReloadBoard PROVE BoardInv'
  <1>1. JobsFit'
    BY MovesFit DEF ReloadBoard, BoardInv, JobsFit, jobVars
  <1>2. ListFits' /\ SeenFits'
    BY DEF ReloadBoard, BoardInv, ListFits, AtMostOne, SeenFits, IsOver, jobVars
  <1>3. /\ ringsRead' \in [App -> RingsCall]
        /\ \A a \in App : ringsRead'[a] = IF a = shown THEN Asking ELSE NotRead
    BY RingsCallForms DEF ReloadBoard
  <1>4. RingTypes'
    BY <1>3, RingsCallForms
       DEF ReloadBoard, BoardInv, RingTypes, AtMostOne, Unread, jobVars
  <1>5. RingsFit'
    BY <1>3, RingsCallForms DEF ReloadBoard, BoardInv, RingsFit, Unread
  <1> QED BY <1>1, <1>2, <1>4, <1>5 DEF BoardInv

LEMMA ToggleFits == ASSUME BoardInv, Toggle PROVE BoardInv'
  <1>1. /\ shown \in App /\ Move /\ ringsRead' = [ringsRead EXCEPT ![shown] = NotRead]
        /\ UNCHANGED <<jobVars, switch, shown, listing, rings, outdated, pageVars, slips>>
    BY DEF Toggle
  <1>2. PICK r \in rings[shown] : toggles' = toggles \cup
           {[n |-> moves, app |-> shown, aim |-> shown, on |-> ~r.on,
             at |-> "cancelled", prev |-> Unread]}
    BY DEF Toggle
  <1> DEFINE click == [n |-> moves, app |-> shown, aim |-> shown, on |-> ~r.on,
                       at |-> "cancelled", prev |-> Unread]
  <1>3. click \in SwitchClick /\ AtMostOne(click.prev) /\ click.app = shown /\ click.aim = shown
    BY <1>1, MovesFit DEF SwitchClick, AtMostOne, Unread
  <1> HIDE DEF click
  <1>4. toggles' = toggles \cup {click}
    BY <1>2 DEF click
  <1>5. JobsFit' /\ ListFits' /\ SeenFits'
    BY <1>1, JobsUntouched, MovesFit DEF BoardInv, SeenFits, jobVars
  <1>6. RingTypes'
    BY <1>1, <1>3, <1>4, RingsCallForms DEF BoardInv, RingTypes, jobVars
  <1>7. RingsFit'
    <2>1. /\ Unsettled(shown)' /\ \A a \in App : Unsettled(a) => Unsettled(a)'
          /\ slips = {} => \A t \in toggles' : t.aim = t.app
      BY <1>1, <1>3, <1>4 DEF BoardInv, RingsFit, Unsettled
    <2>2. \A a \in App : a # shown => ringsRead'[a] = ringsRead[a]
      BY <1>1
    <2> QED BY <1>1, <2>1, <2>2 DEF BoardInv, RingsFit, IsTrue, jobVars, pageVars
  <1> QED BY <1>5, <1>6, <1>7 DEF BoardInv

\* A click that moves on stays the click of its application.
LEMMA ClickMovesOn ==
    ASSUME BoardInv, NEW t \in toggles, NEW u \in SwitchClick, AtMostOne(u.prev),
           u.app = t.app, u.aim = t.aim, toggles' = (toggles \ {t}) \cup {u}
    PROVE  /\ toggles' \subseteq SwitchClick /\ \A v \in toggles' : AtMostOne(v.prev)
           /\ \A a : Unsettled(a)' <=> Unsettled(a)
           /\ slips = {} => \A v \in toggles' : v.aim = v.app
           /\ Unsettled(t.app)
  <1>1. \A a : Unsettled(a)' <=> Unsettled(a)
    BY DEF Unsettled
  <1> QED BY <1>1 DEF BoardInv, RingTypes, RingsFit, Unsettled

LEMMA OptimisticFits == ASSUME BoardInv, NEW t \in toggles, Optimistic(t) PROVE BoardInv'
  <1> DEFINE u == [t EXCEPT !.at = "sent", !.prev = rings[t.app]]
             shownRings == {[r EXCEPT !.on = t.on] : r \in rings[t.app]}
  <1>1. t \in SwitchClick /\ t.app \in App /\ t.on \in BOOLEAN
    BY DEF BoardInv, RingTypes, SwitchClick
  <1>2. rings[t.app] \in SUBSET RingsSeen /\ AtMostOne(rings[t.app])
    BY <1>1 DEF BoardInv, RingTypes
  <1>3. u \in SwitchClick /\ AtMostOne(u.prev) /\ u.app = t.app /\ u.aim = t.aim
    BY <1>1, <1>2 DEF SwitchClick
  <1>4. shownRings \in SUBSET RingsSeen /\ AtMostOne(shownRings)
    BY <1>1, <1>2 DEF RingsSeen, AtMostOne
  <1>5. /\ toggles' = (toggles \ {t}) \cup {u} /\ rings' = [rings EXCEPT ![t.app] = shownRings]
        /\ UNCHANGED <<jobVars, switch, shown, listing, ringsRead, outdated,
                       pageVars, slips, moves>>
    BY DEF Optimistic
  <1> HIDE DEF u, shownRings
  <1>6. /\ toggles' \subseteq SwitchClick /\ \A v \in toggles' : AtMostOne(v.prev)
        /\ \A a : Unsettled(a)' <=> Unsettled(a)
        /\ slips = {} => \A v \in toggles' : v.aim = v.app
        /\ Unsettled(t.app)
    BY <1>3, <1>5, ClickMovesOn
  <1>7. JobsFit' /\ ListFits' /\ SeenFits'
    BY <1>5, JobsUntouched, MovesFit DEF BoardInv, SeenFits, jobVars
  <1>8. RingTypes'
    BY <1>1, <1>4, <1>5, <1>6 DEF BoardInv, RingTypes, jobVars
  <1>9. RingsFit'
    <2>1. \A a \in App : a # t.app => rings'[a] = rings[a]
      BY <1>5
    <2> QED BY <1>5, <1>6, <2>1 DEF BoardInv, RingsFit, IsTrue, jobVars, pageVars
  <1> QED BY <1>7, <1>8, <1>9 DEF BoardInv

LEMMA ServeToggleFits == ASSUME BoardInv, NEW t \in toggles, ServeToggle(t) PROVE BoardInv'
  <1>1. /\ t \in SwitchClick /\ t.app \in App /\ t.on \in BOOLEAN /\ AtMostOne(t.prev)
        /\ switch \in [App -> BOOLEAN]
    BY DEF BoardInv, RingTypes, SwitchClick
  <1>2. PICK at \in {"done", "refused"} : toggles' = (toggles \ {t}) \cup {[t EXCEPT !.at = at]}
    BY DEF ServeToggle
  <1> DEFINE u == [t EXCEPT !.at = at]
  <1>3. u \in SwitchClick /\ AtMostOne(u.prev) /\ u.app = t.app /\ u.aim = t.aim
    BY <1>1 DEF SwitchClick
  <1>4. toggles' = (toggles \ {t}) \cup {u}
    BY <1>2
  <1> HIDE DEF u
  <1>5. /\ switch' \in [App -> BOOLEAN] /\ \A a \in App : a # t.app => switch'[a] = switch[a]
        /\ UNCHANGED <<jobVars, shown, listing, rings, ringsRead, outdated,
                       pageVars, slips, moves>>
    BY <1>1 DEF ServeToggle
  <1>6. /\ toggles' \subseteq SwitchClick /\ \A v \in toggles' : AtMostOne(v.prev)
        /\ \A a : Unsettled(a)' <=> Unsettled(a)
        /\ slips = {} => \A v \in toggles' : v.aim = v.app
        /\ Unsettled(t.app)
    BY <1>3, <1>4, ClickMovesOn
  <1>7. JobsFit' /\ ListFits' /\ SeenFits'
    BY <1>5, JobsUntouched, MovesFit DEF BoardInv, SeenFits, jobVars
  <1>8. RingTypes'
    BY <1>5, <1>6 DEF BoardInv, RingTypes, jobVars
  <1>9. RingsFit'
    BY <1>5, <1>6 DEF BoardInv, RingsFit, IsTrue, jobVars, pageVars
  <1> QED BY <1>7, <1>8, <1>9 DEF BoardInv

\* What an error puts back may be outdated, so the rings are read again.
LEMMA SettleFits == ASSUME BoardInv, NEW t \in toggles, Settle(t) PROVE BoardInv'
  <1>1. t \in SwitchClick /\ t.app \in App /\ t.aim \in App /\ t.prev \in SUBSET RingsSeen
        /\ AtMostOne(t.prev)
    BY DEF BoardInv, RingTypes, SwitchClick
  <1>2. /\ toggles' = toggles \ {t}
        /\ UNCHANGED <<jobVars, switch, shown, listing, pageVars, moves>>
        /\ rings' = IF t.at = "refused" THEN [rings EXCEPT ![t.aim] = t.prev] ELSE rings
    BY DEF Settle
  <1>3. /\ rings' \in [App -> SUBSET RingsSeen] /\ \A a \in App : AtMostOne(rings'[a])
        /\ \A a \in App : a # t.aim => rings'[a] = rings[a]
    BY <1>1, <1>2 DEF BoardInv, RingTypes
  <1>4. /\ slips \subseteq slips' /\ "repeated" \notin slips'
        /\ outdated \subseteq outdated' /\ outdated' \subseteq outdated \cup {t.aim}
        /\ ringsRead' \in [App -> RingsCall]
        /\ \A a \in App : /\ ringsRead'[a] \in {ringsRead[a], Asking}
                          /\ a # t.aim => ringsRead'[a] = ringsRead[a]
        /\ slips' = {} => \/ t.aim = shown /\ ringsRead'[t.aim] = Asking
                          \/ t.aim # shown /\ ringsRead'[t.aim] = NotRead /\ t.aim \in outdated'
    BY SMTT(40), <1>1, RingsCallForms DEF Settle, Refetch, BoardInv, SeenFits, RingTypes
  <1>5. JobsFit' /\ ListFits' /\ SeenFits'
    BY <1>2, <1>4, JobsUntouched, MovesFit DEF jobVars
  <1>6. RingTypes'
    BY <1>1, <1>2, <1>3, <1>4, RingsCallForms DEF BoardInv, RingTypes, jobVars
  <1>7. ASSUME slips' = {} PROVE RingsFit'
    <2>1. slips = {} /\ t.aim = t.app /\ \A v \in toggles' : v.aim = v.app
      BY <1>2, <1>4, <1>7 DEF BoardInv, RingsFit
    <2>2. \A a : a # t.aim => (Unsettled(a)' <=> Unsettled(a))
      BY <1>2, <2>1 DEF Unsettled
    <2>3. \A a, r : IsTrue(a, r)' <=> IsTrue(a, r)
      BY <1>2 DEF IsTrue, jobVars, pageVars
    <2>4. /\ \/ ringsRead'[t.aim].at = "asked"
             \/ ringsRead'[t.aim].at = "idle" /\ t.aim \in outdated'
          /\ t.aim = shown => ringsRead'[t.aim].at = "asked"
      BY <1>4, <1>7, RingsCallForms
    <2>5. \A a \in App : a # t.aim =>
             /\ ringsRead'[a] = ringsRead[a] /\ rings'[a] = rings[a]
             /\ a \in outdated' <=> a \in outdated
      BY <1>3, <1>4
    <2> QED BY <1>2, <2>1, <2>2, <2>3, <2>4, <2>5 DEF BoardInv, RingsFit
  <1> QED BY <1>5, <1>6, <1>7 DEF BoardInv, RingsFit

-----------------------------------------------------------------------------
LEMMA BoardNextFits == ASSUME BoardInv, [BoardNext]_boardVars PROVE BoardInv'
  <1>1. CASE UNCHANGED boardVars
    <2>1. JobsFit' /\ ListFits' /\ SeenFits'
      BY <1>1, JobsUntouched, MovesFit DEF BoardInv, SeenFits, boardVars, jobVars
    <2>2. RingTypes' /\ RingsFit'
      BY <1>1, RingsUntouched DEF boardVars, jobVars, pageVars
    <2> QED BY <2>1, <2>2 DEF BoardInv
  <1> QED BY <1>1, StartJobFits, ServeRingsFits, RingsArriveFits, ShowAppFits,
             ShowAppBehindSheetFits, JobDeploysFits, JobEndsFits, ServerRestartFits,
             PollJobsFits, DismissFits, PollRingsFits, LeaveBoardFits, ReloadBoardFits,
             ToggleFits, OptimisticFits, ServeToggleFits, SettleFits DEF BoardNext

LEMMA BoardInvAlways == BoardSpec => []BoardInv
  BY BoardInitFits, BoardNextFits, PTL DEF BoardSpec

\* The server's jobs and rings, and what the dashboard has cached, keep their types.
THEOREM BoardTypeCorrect == BoardSpec => []BoardTypeOK
  <1>1. ASSUME NEW S, AtMostOne(S) PROVE Cardinality(S) <= 1
    <2>1. CASE S = {}
      BY <2>1, FS_EmptySet
    <2>2. CASE \E x : S = {x}
      BY <2>2, FS_Singleton
    <2> QED BY <1>1, <2>1, <2>2 DEF AtMostOne
  <1>2. ASSUME BoardInv PROVE BoardTypeOK
    <2>1. jobs \subseteq Job /\ era \in 0..MaxMoves
      BY <1>2, BoardAssumption DEF BoardInv, JobsFit
    <2>2. /\ shown \in App \cup {NoPage}
          /\ seen \subseteq Identities /\ handled \subseteq Identities
          /\ dismissed \subseteq Identities /\ watched \subseteq Identities
          /\ \A t \in toggles : t.app \in App /\ t.aim \in App /\ t.on \in BOOLEAN
      BY <1>2 DEF BoardInv, SeenFits, RingTypes, SwitchClick
    <2>3. ASSUME NEW a \in App
          PROVE  /\ deployed[a] \subseteq Identities /\ switch[a] \in BOOLEAN
                 /\ listing[a] \subseteq Job /\ Cardinality(listing[a]) <= 1
                 /\ rings[a] \in SUBSET RingsSeen /\ Cardinality(rings[a]) <= 1
                 /\ ringsRead[a].at \in {"idle", "asked", "answered"}
      BY <1>1, <1>2, RingsCallForms DEF BoardInv, ListFits, RingTypes
    <2> QED BY <2>1, <2>2, <2>3 DEF BoardTypeOK, Job, RingsSeen
  <1> QED BY <1>2, BoardInvAlways, PTL

\* Whatever restarts, page changes and dismissed cards come between, a running job
\* has its card and the end of one seen running is announced, once (job-progress.tsx).
THEOREM WatchedJobsReported == BoardSpec => []WatchedJobsAreReported
  <1>1. ASSUME BoardInv PROVE WatchedJobsAreReported
    <2>1. toasts \subseteq watched /\ "repeated" \notin slips
      BY <1>1 DEF BoardInv, SeenFits
    <2>2. ASSUME shown \in App, NEW j \in listing[shown]
          PROVE  /\ ~JobEnded(j) => CardVisible(shown)
                 /\ JobEnded(j) /\ Identity(j) \in watched => Identity(j) \in toasts
      <3>1. JobKey(j) = Identity(j)
        BY DEF JobKey, Identity
      <3> QED BY <1>1, <2>2, <3>1 DEF BoardInv, SeenFits, CardVisible
    <2> QED BY <2>1, <2>2 DEF WatchedJobsAreReported
  <1> QED BY <1>1, BoardInvAlways, PTL

\* With every click settled and every read back, the rings on screen are the
\* server's, whatever an error has put back, unless the page changed under a pending
\* click or a refresh joined the first read (queries.ts).
THEOREM QuietBoardTrue == BoardSpec => []QuietBoardIsTrue
  <1>1. ASSUME BoardInv, Quiet, slips = {}
        PROVE  \A r \in rings[shown] :
                 r.on = switch[shown] /\ toasts \cap deployed[shown] \subseteq r.deployed
    <2>1. shown \in App /\ ringsRead[shown].at = "idle" /\ ~Unsettled(shown)
      BY <1>1, RingsCallForms DEF Quiet, Unsettled
    <2> QED BY <1>1, <2>1 DEF BoardInv, RingsFit, IsTrue
  <1>2. BoardInv => QuietBoardIsTrue
    BY <1>1 DEF QuietBoardIsTrue
  <1> QED BY <1>2, BoardInvAlways, PTL
=============================================================================
