-------------------------------- MODULE Groups --------------------------------
(***************************************************************************)
(* Application groups: stored by each server and shared by its operators,  *)
(* edited from one console through the group dialog, an application's row  *)
(* and a group's menu, each of which sends the whole list of members as    *)
(* the console last read it; the one-time migration of the groups an older *)
(* console kept in the browser; and the order in which the stage draws the *)
(* applications.                                                           *)
(***************************************************************************)
EXTENDS Fleet, Naturals, Sequences, SequencesExt

CONSTANTS
    HomeSite,    \* the server the console came from
    Configured,  \* the applications each server knows
    Legacy,      \* the members of the groups kept in the browser
    MaxGroups,   \* bound on the groups of a server
    MaxEdits     \* bound on what the operators do

ASSUME GroupsAssumption ==
    /\ HomeSite \in Site
    /\ Configured \in [Site -> SUBSET App]
    /\ \A s \in Site : IsFiniteSet(Configured[s])
    /\ Legacy \in Seq(Seq(App))

VARIABLES
    groupsAt,   \* each server's groups, in the order it lists them
    here,       \* the active cluster
    sidebar,    \* the cached list, <<>> until it is read
    groupPage,  \* the group whose page is selected, as a set of at most one
    draft,      \* the group dialog, as a set of at most one
    writes,     \* calls in flight
    legacy,     \* the groups still kept in the browser
    migrated,   \* migratedLegacyGroups: the page's migration is done or under way
    loops,      \* the migrations under way
    made,       \* history: groups each server has made
    created,    \* history: how often home has made each legacy group
    restarts,   \* history: migrations that failed or lost their page
    moved,      \* history: the cluster was switched during a migration
    edits       \* what the operators did so far

groupsVars == <<groupsAt, here, sidebar, groupPage, draft, writes, legacy,
                migrated, loops, made, created, restarts, moved, edits>>
serverVars == <<groupsAt, made, created>>
migrationVars == <<legacy, migrated, loops, restarts, moved>>

NoDialog == {}
NewGroup == <<HomeSite, 0>>

MigrationEachTime(s, kept, done) ==   \* fault: on every render
    IF s = HomeSite /\ kept # <<>> THEN {[next |-> 0, to |-> s, known |-> {}]} ELSE {}

\* The effect of the shell: on this server only, once per page.
Migration(s, kept, done) ==
    IF s = HomeSite /\ kept # <<>> /\ ~done
    THEN {[next |-> 0, to |-> s, known |-> {}]}
    ELSE {}

GroupsInit ==
    /\ groupsAt = [s \in Site |-> <<>>]
    /\ here = HomeSite
    /\ sidebar = <<>>
    /\ groupPage = {}
    /\ draft = NoDialog
    /\ writes = {}
    /\ legacy = Legacy
    /\ loops = Migration(HomeSite, Legacy, FALSE)
    /\ migrated = (Legacy # <<>>)
    /\ made = [s \in Site |-> 0]
    /\ created = [k \in DOMAIN Legacy |-> 0]
    /\ restarts = 0
    /\ moved = FALSE
    /\ edits = 0

Edit == edits < MaxEdits /\ edits' = edits + 1

Ids(groups) == {g.id : g \in ToSet(groups)}

\* What of a list is in S; and what is, each once, where it is first.
Kept(kept, x, S) == IF x \in S THEN Append(kept, x) ELSE kept
Only(list, S) == FoldLeft(LAMBDA kept, x : Kept(kept, x, S), <<>>, list)
Distinct(list, S) ==
    FoldLeft(LAMBDA kept, x : Kept(kept, x, S \ ToSet(kept)), <<>>, list)

Toggled(members, a) ==
    IF a \in ToSet(members) THEN Only(members, App \ {a}) ELSE Append(members, a)

-----------------------------------------------------------------------------
(* The server                                                              *)

\* validateGroup refuses a member it does not know, and keeps each once.
CanCreate(s, members) ==
    Len(groupsAt[s]) < MaxGroups /\ ToSet(members) \subseteq Configured[s]

Created(s, members, k) ==
    /\ CanCreate(s, members)
    /\ made' = [made EXCEPT ![s] = @ + 1]
    /\ groupsAt' = [groupsAt EXCEPT ![s] =
         Append(@, [id |-> <<s, made'[s]>>, apps |-> Distinct(members, App)])]
    /\ created' = IF s = HomeSite /\ k \in DOMAIN created
                  THEN [created EXCEPT ![k] = @ + 1] ELSE created

\* UpdateGroup replaces the whole list; it and DeleteGroup need the group.
Updated(s, id, members) ==
    /\ id \in Ids(groupsAt[s]) /\ ToSet(members) \subseteq Configured[s]
    /\ groupsAt' = [groupsAt EXCEPT ![s] =
         [i \in DOMAIN @ |-> IF @[i].id = id THEN [@[i] EXCEPT !.apps = Distinct(members, App)]
                             ELSE @[i]]]
    /\ UNCHANGED <<made, created>>

Deleted(s, id) ==
    /\ id \in Ids(groupsAt[s])
    /\ groupsAt' = [groupsAt EXCEPT ![s] = Only(@, {g \in ToSet(@) : g.id # id})]
    /\ UNCHANGED <<made, created>>

Serve(w) ==
    CASE w.op = "create" -> Created(w.to, w.apps, 0)
      [] w.op = "update" -> Updated(w.to, w.id, w.apps)
      [] w.op = "delete" -> Deleted(w.to, w.id)

\* Another operator's console.
EditElsewhere(s) ==
    /\ Edit
    /\ \/ \E a \in App : Created(s, <<a>>, 0)
       \/ \E g \in ToSet(groupsAt[s]) :
            Deleted(s, g.id) \/ \E a \in App : Updated(s, g.id, Toggled(g.apps, a))
    /\ UNCHANGED <<here, sidebar, groupPage, draft, writes, migrationVars>>

-----------------------------------------------------------------------------
(* The console                                                             *)

\* The poll or a refetch: a selected group that is gone falls back.
ReadGroups ==
    /\ sidebar # groupsAt[here]
    /\ sidebar' = groupsAt[here]
    /\ groupPage' = groupPage \cap Ids(groupsAt[here])
    /\ UNCHANGED <<serverVars, here, draft, writes, migrationVars, edits>>

OpenGroupPage(g) ==
    /\ groupPage # {g.id}
    /\ Edit
    /\ groupPage' = {g.id}
    /\ UNCHANGED <<serverVars, here, sidebar, draft, writes, migrationVars>>

\* The dialog takes the members it is opened with, and nothing refreshes them.
OpenGroupDialog(id, members) ==
    /\ draft = NoDialog
    /\ Edit
    /\ draft' = {[id |-> id, apps |-> members]}
    /\ UNCHANGED <<serverVars, here, sidebar, groupPage, writes, migrationVars>>

ToggleMember(a) ==
    /\ draft # NoDialog
    /\ Edit
    /\ draft' = {[d EXCEPT !.apps = Toggled(@, a)] : d \in draft}
    /\ UNCHANGED <<serverVars, here, sidebar, groupPage, writes, migrationVars>>

CloseGroupDialog ==
    /\ draft # NoDialog
    /\ Edit
    /\ draft' = NoDialog
    /\ UNCHANGED <<serverVars, here, sidebar, groupPage, writes, migrationVars>>

SendWrite(w) ==
    /\ Edit
    /\ writes' = writes \cup {w}
    /\ UNCHANGED <<serverVars, here, sidebar, groupPage, draft, migrationVars>>

\* save(): disabled while the dialog's own call is pending.
SaveDraft ==
    \E d \in draft :
      /\ \A w \in writes : w.by # "dialog"
      /\ SendWrite([op |-> IF d.id = NewGroup THEN "create" ELSE "update",
                    id |-> d.id, apps |-> d.apps, to |-> here, by |-> "dialog"])

\* A row's checkbox sends the members the console last read, changed by one
\* application; the group's menu deletes it.
ToggleRow(g, a) ==
    SendWrite([op |-> "update", id |-> g.id, apps |-> Toggled(g.apps, a),
               to |-> here, by |-> "row"])

DeleteFromMenu(g) ==
    SendWrite([op |-> "delete", id |-> g.id, apps |-> <<>>, to |-> here,
               by |-> "row"])

\* Success closes the dialog that saved, and leaves the page of a group that is
\* deleted. A call whose dialog is gone is known to no component any more.
WriteSucceeded(w) ==
    /\ Serve(w)
    /\ writes' = writes \ {w}
    /\ draft' = IF w.by = "dialog" THEN NoDialog ELSE draft
    /\ groupPage' = IF w.op = "delete" THEN groupPage \ {w.id} ELSE groupPage
    /\ UNCHANGED <<here, sidebar, migrationVars, edits>>

\* The server refused it, or the answer was lost.
WriteFailed(w) ==
    /\ Serve(w) \/ UNCHANGED serverVars
    /\ writes' = writes \ {w}
    /\ UNCHANGED <<here, sidebar, groupPage, draft, migrationVars, edits>>

\* The dialog goes with the cluster; calls in flight go on without it.
Orphaned == {[w EXCEPT !.by = "row"] : w \in writes}

SwitchGroups(s) ==
    /\ s # here
    /\ Edit
    /\ here' = s
    /\ sidebar' = <<>> /\ groupPage' = {} /\ draft' = NoDialog
    /\ writes' = Orphaned
    /\ moved' = (moved \/ loops # {})
    /\ loops' = loops \cup Migration(s, legacy, migrated)
    /\ migrated' = (migrated \/ Migration(s, legacy, migrated) # {})
    /\ UNCHANGED <<serverVars, legacy, restarts>>

\* Reloading keeps the active cluster and the browser's groups.
ReloadGroups ==
    /\ Edit
    /\ sidebar' = <<>> /\ groupPage' = {} /\ draft' = NoDialog /\ writes' = {}
    /\ loops' = Migration(here, legacy, FALSE)
    /\ migrated' = (loops' # {})
    /\ restarts' = IF loops # {} THEN restarts + 1 ELSE restarts
    /\ UNCHANGED <<serverVars, here, legacy, moved>>

-----------------------------------------------------------------------------
(* The migration                                                           *)

\* The list of applications has arrived: the first group is sent. Every call
\* of the loop goes to the cluster that is active when it is sent.
MigrationStarts(l) ==
    /\ l.next = 0
    /\ loops' = (loops \ {l}) \cup
         {[next |-> 1, to |-> here, known |-> Configured[l.to]]}
    /\ UNCHANGED <<serverVars, here, sidebar, groupPage, draft, writes, legacy,
                   migrated, restarts, moved, edits>>

Offered(l) == Only(Legacy[l.next], l.known)

\* One group is made; after the last, the browser's groups are cleared.
MigrationAdvances(l) ==
    /\ l.next > 0
    /\ Created(l.to, Offered(l), l.next)
    /\ IF l.next = Len(Legacy)
       THEN loops' = loops \ {l} /\ legacy' = <<>>
       ELSE /\ loops' = (loops \ {l}) \cup
                 {[l EXCEPT !.next = @ + 1, !.to = here]}
            /\ UNCHANGED legacy
    /\ UNCHANGED <<here, sidebar, groupPage, draft, writes, migrated, restarts,
                   moved, edits>>

\* A refusal or a lost answer ends the loop; the next effect starts over.
MigrationFails(l) ==
    /\ \/ l.next > 0 /\ Created(l.to, Offered(l), l.next)
       \/ UNCHANGED serverVars
    /\ loops' = loops \ {l}
    /\ migrated' = FALSE
    /\ restarts' = restarts + 1
    /\ UNCHANGED <<here, sidebar, groupPage, draft, writes, legacy, moved, edits>>

-----------------------------------------------------------------------------
GroupsNext ==
    \/ \E s \in Site : EditElsewhere(s) \/ SwitchGroups(s)
    \/ ReadGroups \/ ReloadGroups
    \/ \E g \in ToSet(sidebar) :
         \/ OpenGroupPage(g) \/ DeleteFromMenu(g)
         \/ OpenGroupDialog(g.id, g.apps)
         \/ \E a \in App : ToggleRow(g, a)
    \/ OpenGroupDialog(NewGroup, <<>>)
    \/ CloseGroupDialog \/ SaveDraft
    \/ \E a \in Configured[here] : ToggleMember(a)
    \/ \E w \in writes : WriteSucceeded(w) \/ WriteFailed(w)
    \/ \E l \in loops : MigrationStarts(l) \/ MigrationAdvances(l) \/ MigrationFails(l)

GroupsSpec == GroupsInit /\ [][GroupsNext]_groupsVars

-----------------------------------------------------------------------------
(* The stage's order of applications                                       *)

PlacedAgain(placed, g) ==   \* fault: in every group it is a member of
    LET members == Distinct(g.apps, Configured[here])
        from == Len(placed.ordered) + 1
    IN  IF members = <<>> THEN placed
        ELSE [ordered |-> placed.ordered \o members,
              spans |-> Append(placed.spans,
                 [id |-> g.id, from |-> from, to |-> from + Len(members) - 1])]

\* orderByGroup: the members of each group that are not placed yet, then the
\* applications of no group. A span is where a group's members stand.
Placed(placed, g) ==
    LET members == Distinct(g.apps, Configured[here] \ ToSet(placed.ordered))
        from == Len(placed.ordered) + 1
    IN  IF members = <<>> THEN placed
        ELSE [ordered |-> placed.ordered \o members,
              spans |-> Append(placed.spans,
                 [id |-> g.id, from |-> from, to |-> from + Len(members) - 1])]

OrderByGroup(groups) ==
    LET placed == FoldLeft(Placed, [ordered |-> <<>>, spans |-> <<>>], groups)
        loose == Configured[here] \ ToSet(placed.ordered)
    IN  [placed EXCEPT !.ordered = @ \o SetToSeq(loose)]

\* Where the lanes put the header "Ungrouped".
FirstUngrouped(spans) == IF spans = <<>> THEN 0 ELSE spans[Len(spans)].to + 1

-----------------------------------------------------------------------------
(* Properties                                                              *)

GroupsTypeOK ==
    LET Id == Site \X Nat
        Group == [id : Id, apps : Seq(App)]
    IN  /\ groupsAt \in [Site -> Seq(Group)]
        /\ here \in Site
        /\ sidebar \in Seq(Group)
        /\ groupPage \in SUBSET Id
        /\ draft \in SUBSET Group
        /\ writes \in SUBSET [op : {"create", "update", "delete"}, id : Id,
                              apps : Seq(App), to : Site, by : {"dialog", "row"}]
        /\ legacy \in {Legacy, <<>>}
        /\ loops \in SUBSET [next : 0..Len(Legacy), to : Site, known : SUBSET App]
        /\ created \in [DOMAIN Legacy -> Nat]
        /\ restarts \in Nat /\ migrated \in BOOLEAN /\ moved \in BOOLEAN

\* The browser's groups reach the server they came from, all of them before
\* the browser forgets them, and each once but for the migrations that failed
\* or lost their page (app-shell.tsx: the one-time migration), unless the
\* operator left that cluster while the loop was running.
MigratedOnce ==
    /\ \A k \in DOMAIN Legacy : created[k] <= restarts + 1
    /\ moved \/ legacy # <<>> \/ \A k \in DOMAIN Legacy : created[k] >= 1

\* Whatever the groups have in common, every application has one place on the
\* stage, and every group's span holds members of that group only: all of them
\* that no earlier group has taken (descent-layout.ts: orderByGroup).
GroupsStandTogether ==
    LET placed == OrderByGroup(sidebar)
        span(g) == {s \in ToSet(placed.spans) : s.id = g.id}
        stand(s) == {placed.ordered[i] : i \in s.from .. s.to}
        earlier(i) == UNION {ToSet(sidebar[j].apps) : j \in 1..(i - 1)}
    IN  /\ ToSet(placed.ordered) = Configured[here]
        /\ IsInjective(placed.ordered)
        /\ \A i \in DOMAIN sidebar :
             LET mine == (ToSet(sidebar[i].apps) \cap Configured[here]) \ earlier(i)
             IN  UNION {stand(s) : s \in span(sidebar[i])} = mine
        /\ \A i \in DOMAIN placed.ordered :
             (placed.spans # <<>> /\ i >= FirstUngrouped(placed.spans))
               => \A g \in ToSet(sidebar) : placed.ordered[i] \notin ToSet(g.apps)

=============================================================================
