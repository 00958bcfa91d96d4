-------------------------------- MODULE Board --------------------------------
(***************************************************************************)
(* The dashboard's view of an application's rings and of its newest job:   *)
(* what is polled and cached, the toast and the refresh when a job ends,   *)
(* the card that shows it, and the auto-promote switch, which the console  *)
(* writes to its cache before the server has answered.                     *)
(***************************************************************************)
EXTENDS Fleet, Naturals, FiniteSets

CONSTANTS
    MaxMoves,   \* bound on jobs, clicks, page changes and restarts
    MaxJobs     \* bound on the jobs a server starts before it restarts

ASSUME BoardAssumption == App # {} /\ MaxMoves \in Nat /\ MaxJobs \in Nat

VARIABLES
    deployed,   \* server: the jobs whose effect the rings of each application show
    switch,     \* server: the auto-promote switch of one ring of each application
    jobs,       \* server: the jobs it remembers
    era,        \* server: how often it was restarted
    shown,      \* the application whose dashboard is on screen
    listing,    \* cached: the newest job of each application, if any
    rings,      \* cached: the rings of each application
    ringsRead,  \* the calls that read them
    outdated,   \* the cached rings that were invalidated off screen
    seen,       \* seenRunning: the keys of jobs seen running
    handled,    \* handledJobs: the keys of jobs seen to have ended
    dismissed,  \* the keys of the cards this browser dismissed
    toggles,    \* clicks on a switch that are not settled
    toasts,     \* history: the jobs whose end was announced
    watched,    \* history: the jobs this page showed running
    slips,      \* history: what went wrong on the way
    moves       \* what happened so far

jobVars == <<deployed, jobs, era>>
pageVars == <<seen, handled, dismissed, toasts, watched>>
boardVars == <<jobVars, switch, shown, listing, rings, ringsRead,
               outdated, pageVars, toggles, slips, moves>>

NotRead == [at |-> "idle"]
Asking == [at |-> "asked"]
Unread == {}

\* ids start again with the server; the time a job started does not.
Identity(j) == <<j.app, j.id, j.era>>
JobKeyById(j) == <<j.app, j.id, 0>>   \* fault: ids are taken for unique
JobKey(j) == <<j.app, j.id, j.era>>
Identities == App \X (1..MaxJobs) \X (0..MaxMoves)
JobEnded(j) == j.status # "running"

BoardInit ==
    /\ deployed = [a \in App |-> {}]
    /\ switch = [a \in App |-> FALSE]
    /\ jobs = {} /\ era = 0
    /\ shown = CHOOSE a \in App : TRUE      \* they are alike
    /\ listing = [a \in App |-> {}]
    /\ rings = [a \in App |-> Unread]
    /\ ringsRead = [a \in App |-> IF a = shown THEN Asking ELSE NotRead]
    /\ outdated = {}
    /\ seen = {} /\ handled = {} /\ dismissed = {}
    /\ toggles = {}
    /\ toasts = {} /\ watched = {} /\ slips = {}
    /\ moves = 0

Move == moves < MaxMoves /\ moves' = moves + 1

-----------------------------------------------------------------------------
(* The server                                                              *)

StartJob(a) ==
    /\ Cardinality(jobs) < MaxJobs
    /\ Move
    /\ jobs' = jobs \cup {[app |-> a, id |-> Cardinality(jobs) + 1, era |-> era,
                           status |-> "running"]}
    /\ UNCHANGED <<deployed, switch, era, shown, listing, rings, ringsRead,
                   outdated, pageVars, toggles, slips>>

\* A job changes the rings before it says it has ended, or fails before it does.
JobDeploys(j) ==
    /\ j \in jobs /\ ~JobEnded(j)
    /\ deployed' = [deployed EXCEPT ![j.app] = @ \cup {Identity(j)}]
    /\ UNCHANGED <<switch, jobs, era, shown, listing, rings, ringsRead,
                   outdated, pageVars, toggles, slips, moves>>

JobEnds(j) ==
    /\ j \in jobs /\ ~JobEnded(j)
    /\ jobs' = (jobs \ {j}) \cup {[j EXCEPT !.status = "ended"]}
    /\ UNCHANGED <<deployed, switch, era, shown, listing, rings, ringsRead,
                   outdated, pageVars, toggles, slips, moves>>

\* The job list lives in memory.
ServerRestart ==
    /\ Move
    /\ jobs' = {} /\ era' = era + 1
    /\ UNCHANGED <<deployed, switch, shown, listing, rings, ringsRead,
                   outdated, pageVars, toggles, slips>>

Newest(a) == {j \in jobs : j.app = a /\ \A k \in jobs : k.app = a => k.id <= j.id}

ServeRings(a) ==
    /\ ringsRead[a] = Asking
    /\ ringsRead' = [ringsRead EXCEPT ![a] =
         [at |-> "answered", rings |-> {[deployed |-> deployed[a], on |-> switch[a]]}]]
    /\ UNCHANGED <<jobVars, switch, shown, listing, rings, outdated,
                   pageVars, toggles, slips, moves>>

-----------------------------------------------------------------------------
(* Jobs on the dashboard                                                   *)

\* invalidateQueries on screen: a read in flight is given up for a new one,
\* except the very first, which may have missed what has changed.
Refetch(reads, cached, slipped) ==
    IF reads[shown'] # NotRead /\ cached = Unread
    THEN ringsRead' = reads /\ slips' = slipped \cup {"joined"}
    ELSE ringsRead' = [reads EXCEPT ![shown'] = Asking] /\ slips' = slipped

\* The effect of useActiveJob for the application on screen, with the jobs that
\* are cached and the reads in flight: once per job, and only for one that was
\* seen running.
WatchJob(list, reads, slipped) ==
    LET current == IF shown' \in App THEN list[shown'] ELSE {}
        keys == {JobKey(j) : j \in current}
        ids == {Identity(j) : j \in current}
        over == \E j \in current : JobEnded(j)
        news == over /\ keys \cap handled = {} /\ keys \subseteq seen
    IN  /\ seen' = IF over THEN seen ELSE seen \cup keys
        /\ handled' = IF over THEN handled \cup keys ELSE handled
        /\ watched' = IF over THEN watched ELSE watched \cup ids
        /\ toasts' = IF news THEN toasts \cup ids ELSE toasts
        /\ IF news /\ ids \cap toasts # {}
           THEN ringsRead' = reads /\ slips' = slipped \cup {"repeated"}
           ELSE IF news THEN Refetch(reads, rings[shown'], slipped)
           ELSE ringsRead' = reads /\ slips' = slipped
        /\ UNCHANGED dismissed

\* The list is read every two seconds. That it may be older when it arrives adds
\* nothing: the next poll waits for it.
PollJobs ==
    /\ listing' = [a \in App |-> Newest(a)]
    /\ UNCHANGED <<jobVars, switch, shown, rings, outdated, toggles, moves>>
    /\ WatchJob(listing', ringsRead, slips)

\* The card of a job is hidden once dismissed; a job that runs has a card, and so
\* has one that was seen running (or ended a short while ago).
CardVisible(a) ==
    \E j \in listing[a] :
        JobKey(j) \notin dismissed /\ (~JobEnded(j) \/ JobKey(j) \in seen)

Dismiss ==
    /\ shown \in App
    /\ \E j \in listing[shown] :
         /\ CardVisible(shown) /\ JobEnded(j)
         /\ dismissed' = dismissed \cup {JobKey(j)}
    /\ UNCHANGED <<jobVars, switch, shown, listing, rings, ringsRead,
                   outdated, seen, handled, toasts, watched, toggles, slips, moves>>

-----------------------------------------------------------------------------
(* Pages and polls                                                         *)

PollRings ==
    /\ shown \in App
    /\ ringsRead[shown] = NotRead
    /\ Move
    /\ ringsRead' = [ringsRead EXCEPT ![shown] = Asking]
    /\ UNCHANGED <<jobVars, switch, shown, listing, rings, outdated,
                   pageVars, toggles, slips>>

RingsArrive(a) ==
    /\ ringsRead[a].at = "answered"
    /\ rings' = [rings EXCEPT ![a] = ringsRead[a].rings]
    /\ ringsRead' = [ringsRead EXCEPT ![a] = NotRead]
    /\ outdated' = outdated \ {a}
    /\ UNCHANGED <<jobVars, switch, shown, listing, pageVars, toggles,
                   slips, moves>>

\* A dashboard reads rings that are unknown or outdated. Its details sheet stays
\* open when the new rings are there at once, and then its last pending click has
\* the new application's callbacks.
OnShow(a) ==
    IF ringsRead[a] = NotRead /\ (rings[a] = Unread \/ a \in outdated)
    THEN [ringsRead EXCEPT ![a] = Asking] ELSE ringsRead

ShowApp(a) ==
    /\ a # shown
    /\ Move
    /\ shown' = a
    /\ UNCHANGED <<jobVars, switch, listing, rings, outdated, toggles>>
    /\ WatchJob(listing, OnShow(a), slips)

ShowAppBehindSheet(a) ==
    LET current == {t \in toggles : t.aim = shown /\ \A u \in toggles : u.n <= t.n}
    IN  /\ a # shown /\ rings[a] # Unread /\ current # {}
        /\ Move
        /\ shown' = a
        /\ toggles' = (toggles \ current) \cup {[t EXCEPT !.aim = a] : t \in current}
        /\ UNCHANGED <<jobVars, switch, listing, rings, outdated>>
        /\ WatchJob(listing, OnShow(a), slips \cup {"retargeted"})

LeaveBoard ==
    /\ shown # NoPage
    /\ Move
    /\ shown' = NoPage
    /\ UNCHANGED <<jobVars, switch, listing, rings, ringsRead, outdated,
                   pageVars, toggles, slips>>

\* Reloading the page forgets all but the dismissed cards; calls already sent
\* are served.
ReloadBoard ==
    /\ toggles = {}
    /\ Move
    /\ listing' = [a \in App |-> {}]
    /\ rings' = [a \in App |-> Unread]
    /\ ringsRead' = [a \in App |-> IF a = shown THEN Asking ELSE NotRead]
    /\ outdated' = {}
    /\ seen' = {} /\ handled' = {} /\ watched' = {}
    /\ toasts' = {}
    /\ UNCHANGED <<jobVars, switch, shown, dismissed, toggles, slips>>

-----------------------------------------------------------------------------
(* The auto-promote switch                                                 *)

\* onMutate: reads in flight are cancelled first ...
Toggle ==
    /\ shown \in App
    /\ rings[shown] # Unread
    /\ Move
    /\ \E r \in rings[shown] :
         toggles' = toggles \cup
           {[n |-> moves, app |-> shown, aim |-> shown, on |-> ~r.on,
             at |-> "cancelled", prev |-> Unread]}
    /\ ringsRead' = [ringsRead EXCEPT ![shown] = NotRead]
    /\ UNCHANGED <<jobVars, switch, shown, listing, rings, outdated,
                   pageVars, slips>>

\* ... then the cached rings are kept for an error and changed, and the call goes.
Optimistic(t) ==
    /\ t.at = "cancelled"
    /\ toggles' = (toggles \ {t}) \cup {[t EXCEPT !.at = "sent", !.prev = rings[t.app]]}
    /\ rings' = [rings EXCEPT ![t.app] = {[r EXCEPT !.on = t.on] : r \in @}]
    /\ UNCHANGED <<jobVars, switch, shown, listing, ringsRead, outdated,
                   pageVars, slips, moves>>

\* The server changes the switch, or refuses: config owns it, or the password
\* of a switch into production is wrong. Its answer may be lost.
ServeToggle(t) ==
    /\ t.at = "sent"
    /\ \E ok \in BOOLEAN, heard \in BOOLEAN :
         /\ toggles' = (toggles \ {t}) \cup
              {[t EXCEPT !.at = IF ok /\ heard THEN "done" ELSE "refused"]}
         /\ switch' = IF ok THEN [switch EXCEPT ![t.app] = t.on] ELSE switch
    /\ UNCHANGED <<jobVars, shown, listing, rings, ringsRead, outdated,
                   pageVars, slips, moves>>

SettleUnread(t) ==   \* fault: nothing is read again
    /\ t.at \in {"done", "refused"}
    /\ toggles' = toggles \ {t}
    /\ rings' = IF t.at = "refused" THEN [rings EXCEPT ![t.aim] = t.prev] ELSE rings
    /\ UNCHANGED <<jobVars, switch, shown, listing, ringsRead, outdated,
                   pageVars, slips, moves>>

\* onError puts back what was kept, onSettled reads the rings again.
Settle(t) ==
    /\ t.at \in {"done", "refused"}
    /\ toggles' = toggles \ {t}
    /\ rings' = IF t.at = "refused" THEN [rings EXCEPT ![t.aim] = t.prev] ELSE rings
    /\ UNCHANGED <<jobVars, switch, shown, listing, pageVars, moves>>
    /\ IF t.aim = shown
       THEN /\ Refetch(ringsRead, rings'[shown], slips)
            /\ UNCHANGED outdated
       ELSE /\ outdated' = outdated \cup {t.aim}
            /\ slips' = slips \cup IF ringsRead[t.aim] # NotRead THEN {"joined"} ELSE {}
            /\ UNCHANGED ringsRead

BoardNext ==
    \/ \E a \in App : StartJob(a) \/ ServeRings(a) \/ RingsArrive(a)
    \/ \E a \in App : ShowApp(a) \/ ShowAppBehindSheet(a)
    \/ \E j \in jobs : JobDeploys(j) \/ JobEnds(j)
    \/ ServerRestart \/ PollJobs \/ Dismiss
    \/ PollRings \/ LeaveBoard \/ ReloadBoard
    \/ Toggle
    \/ \E t \in toggles : Optimistic(t) \/ ServeToggle(t) \/ Settle(t)

BoardSpec == BoardInit /\ [][BoardNext]_boardVars

-----------------------------------------------------------------------------
(* Properties                                                              *)

BoardTypeOK ==
    LET Job == [app : App, id : 1..MaxJobs, era : 0..MaxMoves,
                status : {"running", "ended"}]
        Rings == SUBSET [deployed : SUBSET Identities, on : BOOLEAN]
    IN  /\ jobs \subseteq Job /\ era \in 0..MaxMoves
        /\ shown \in App \cup {NoPage}
        /\ \A a \in App : /\ deployed[a] \subseteq Identities
                          /\ switch[a] \in BOOLEAN
                          /\ listing[a] \subseteq Job /\ Cardinality(listing[a]) <= 1
                          /\ rings[a] \in Rings /\ Cardinality(rings[a]) <= 1
                          /\ ringsRead[a].at \in {"idle", "asked", "answered"}
        /\ seen \subseteq Identities /\ handled \subseteq Identities
        /\ dismissed \subseteq Identities /\ watched \subseteq Identities
        /\ \A t \in toggles : t.app \in App /\ t.aim \in App /\ t.on \in BOOLEAN

\* Nothing is in flight that could still change what the dashboard shows.
Quiet == shown \in App /\ ringsRead[shown] = NotRead /\ toggles = {}

\* A job that runs has a card on its dashboard, also after a restart of the server
\* has handed out its id again, and the end of one that ran on this page is
\* announced exactly once (job-progress.tsx, useActiveJob).
WatchedJobsAreReported ==
    /\ toasts \subseteq watched /\ "repeated" \notin slips
    /\ shown \in App => \A j \in listing[shown] :
         /\ ~JobEnded(j) => CardVisible(shown)
         /\ JobEnded(j) /\ Identity(j) \in watched => Identity(j) \in toasts

\* When every click is settled and every read is back, the dashboard shows the
\* switch as the server has it and the effect of every job whose end it has
\* announced, whatever an error has put back meanwhile; unless a pending click
\* was retargeted when the page changed under its details sheet, or a refresh
\* was answered by the very first read (queries.ts: useActiveJob's invalidation,
\* useAutoPromoteMutation's onMutate, onError and onSettled).
QuietBoardIsTrue ==
    Quiet /\ slips = {} => \A r \in rings[shown] :
        /\ r.on = switch[shown]
        /\ toasts \cap deployed[shown] \subseteq r.deployed

=============================================================================
