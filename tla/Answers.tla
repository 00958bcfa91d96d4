------------------------------- MODULE Answers -------------------------------
(***************************************************************************)
(* What the language model is asked from the web console: a failed job's   *)
(* or history entry's diagnosis and a ring's test plan. The server works   *)
(* detached from the call, one generation at a time, keeps the result and  *)
(* forgets the progress of the work on a restart; the console's panel      *)
(* polls only while what it last read says "running".                      *)
(***************************************************************************)
EXTENDS Naturals

CONSTANT MaxSteps   \* bound on what the operators and the model do

Kind == {"job", "history", "plan"}
Progress == {"none", "running", "failed"}
AnswerStatus == Progress \cup {"done"}

VARIABLES
    kind,      \* what is asked for
    stored,    \* server: the answer is stored
    progress,  \* server: what is remembered of the generation
    working,   \* server: "no", "thinking" or "saving"
    open,      \* console: the panel is on screen
    started,   \* console: the expanded history row has started a diagnosis
    listed,    \* console: the history list shows the stored answer
    data,      \* console: the cached status, "unknown" before the first answer
    fresh,     \* console: the cached status has not been invalidated
    fetch,     \* console: the call that reads the status
    ask,       \* console: the call that starts a generation
    asked,     \* history: the console has asked
    misled,    \* history: what made the console stop too early
    steps

answersVars == <<kind, stored, progress, working, open, started, listed, data,
                 fresh, fetch, ask, asked, misled, steps>>
serverSide == <<stored, progress, working>>
consoleSide == <<open, started, listed, data, fresh, fetch, ask, asked>>

\* A call: on its way, having read the store, or answered.
Idle == [at |-> "idle"]
Sent == [at |-> "sent"]
ReadStore == [at |-> "read", stored |-> stored]
Answered(status) == [at |-> "answered", status |-> status]

AnswersInit ==
    /\ kind \in Kind
    /\ stored = FALSE /\ progress = "none" /\ working = "no"
    /\ open = FALSE /\ started = FALSE /\ listed = FALSE
    /\ data = "unknown" /\ fresh = FALSE
    /\ fetch = Idle /\ ask = Idle
    /\ asked = FALSE /\ misled = {} /\ steps = 0

Step == steps < MaxSteps /\ steps' = steps + 1

-----------------------------------------------------------------------------
(* The server                                                              *)

\* A stored answer comes first for a diagnosis; for a plan, which can be
\* regenerated, what the tracker says does.
StatusOf(has, track) ==
    IF has /\ (kind # "plan" \/ track = "none") THEN "done" ELSE track

\* A job's diagnosis and its progress are one record under one lock. The others
\* read the store first and the tracker afterwards.
ServeFetch ==
    /\ \/ /\ fetch = Sent /\ kind # "job"
          /\ fetch' = ReadStore
          /\ UNCHANGED misled
       \/ /\ fetch = Sent /\ kind = "job"
          /\ fetch' = Answered(StatusOf(stored, progress))
          /\ UNCHANGED misled
       \/ /\ fetch.at = "read"
          /\ fetch' = Answered(StatusOf(fetch.stored, progress))
          /\ misled' = IF fetch.stored # stored THEN misled \cup {"split"} ELSE misled
    /\ UNCHANGED <<kind, serverSide, open, started, listed, data, fresh, ask,
                   asked, steps>>

\* Single flight: a generation that runs is joined.
Begin ==
    IF progress = "running" THEN UNCHANGED serverSide
    ELSE progress' = "running" /\ working' = "thinking" /\ UNCHANGED stored

\* An answer that is stored is returned, unless a plan is to be written anew.
ServeAsk ==
    /\ ask.at \in {"sent", "read"}
    /\ \E refresh \in BOOLEAN :
         LET has == IF ask.at = "read" THEN ask.stored ELSE stored
         IN  /\ refresh => kind = "plan" /\ stored
             /\ \/ /\ ask = Sent /\ kind # "job"
                   /\ ask' = ReadStore
                   /\ UNCHANGED serverSide
                \/ /\ ask.at = "read" \/ kind = "job"
                   /\ IF has /\ ~refresh
                      THEN UNCHANGED serverSide /\ ask' = Answered(StatusOf(has, progress))
                      ELSE Begin /\ ask' = Answered("running")
    /\ UNCHANGED <<kind, open, started, listed, data, fresh, fetch, asked,
                   misled, steps>>

\* Another operator asks for the same answer.
OtherAsks ==
    /\ Step
    /\ ~stored
    /\ Begin
    /\ UNCHANGED <<kind, consoleSide, misled>>

\* The model's answer is stored, then the tracker is cleared; of a failure only
\* the tracker knows.
Generated ==
    /\ \/ /\ working = "thinking"
          /\ stored' = TRUE
          /\ IF kind = "job" THEN working' = "no" /\ progress' = "none"
                             ELSE working' = "saving" /\ UNCHANGED progress
       \/ /\ working = "saving"
          /\ working' = "no" /\ progress' = "none"
          /\ UNCHANGED stored
       \/ /\ working = "thinking"
          /\ working' = "no" /\ progress' = "failed"
          /\ UNCHANGED stored
    /\ UNCHANGED <<kind, consoleSide, misled, steps>>

\* A restart loses the work in progress (a job is lost with all it says).
Restart ==
    /\ Step
    /\ kind # "job"
    /\ working' = "no" /\ progress' = "none"
    /\ misled' = misled \cup {"restart"}
    /\ UNCHANGED <<kind, stored, consoleSide>>

-----------------------------------------------------------------------------
(* The console                                                             *)

\* A query that is invalid is read again when its panel opens; one read within
\* its stale time may be shown as it is.
OpenPanel ==
    /\ ~open
    /\ Step
    /\ open' = TRUE /\ started' = FALSE
    /\ IF fetch = Idle
       THEN fetch' \in {Sent} \cup (IF fresh THEN {Idle} ELSE {})
       ELSE UNCHANGED fetch
    /\ UNCHANGED <<kind, serverSide, listed, data, fresh, ask, asked, misled>>

ClosePanel ==
    /\ open
    /\ Step
    /\ open' = FALSE
    /\ UNCHANGED <<kind, serverSide, started, listed, data, fresh, fetch, ask,
                   asked, misled>>

\* The query of a history entry whose answer is listed is disabled.
Watching == open /\ ~listed

\* The interval of each query, and a window that gets the focus back.
PollsJobsOnly(status) == kind = "job"   \* fault: the others are read once
Polls(status) == kind = "job" \/ status = "running"

PollStatus ==
    /\ Watching
    /\ fetch = Idle
    /\ \/ Polls(data) /\ UNCHANGED steps
       \/ Step
    /\ fetch' = Sent
    /\ UNCHANGED <<kind, serverSide, open, started, listed, data, fresh, ask,
                   asked, misled>>

FetchAnswered ==
    /\ fetch.at = "answered"
    /\ data' = fetch.status
    /\ fresh' = TRUE
    /\ fetch' = Idle
    /\ UNCHANGED <<kind, serverSide, open, started, listed, ask, asked, misled,
                   steps>>

FetchFailed ==
    /\ fetch # Idle
    /\ Step
    /\ fetch' = Idle
    /\ misled' = misled \cup {"unread"}
    /\ UNCHANGED <<kind, serverSide, open, started, listed, data, fresh, ask,
                   asked>>

Spinning ==
    IF kind = "history" THEN ~listed /\ data \notin {"done", "failed"}
                        ELSE ask # Idle \/ data = "running"

\* An expanded history row asks when it reads that nobody has, once.
AsksByItself == kind = "history" /\ Watching /\ data = "none" /\ ~started

\* A click on the panel's button, which a test plan has at once and a history
\* entry only after a failure.
AskForIt ==
    /\ open /\ ask = Idle
    /\ \/ kind = "plan" /\ ~Spinning /\ Step /\ UNCHANGED started
       \/ kind = "job" /\ data \in {"none", "failed"} /\ Step /\ UNCHANGED started
       \/ kind = "history" /\ Watching /\ data = "failed" /\ Step /\ UNCHANGED started
       \/ AsksByItself /\ started' = TRUE /\ UNCHANGED steps
    /\ ask' = Sent
    /\ asked' = TRUE
    /\ misled' = {}
    /\ UNCHANGED <<kind, serverSide, open, listed, data, fresh, fetch>>

\* invalidateQueries: a read in flight is given up for a new one, except the
\* very first; a query nobody shows waits for its panel.
Invalidate(status) ==
    /\ fresh' = FALSE
    /\ fetch' = IF ~Watching \/ (fetch # Idle /\ status = "unknown") THEN fetch ELSE Sent

\* A plan's answer is written to the cache, beside a read in flight; the
\* others' read the status again.
AskAnswered ==
    /\ ask.at = "answered"
    /\ ask' = Idle
    /\ CASE kind = "plan" ->
              /\ data' = ask.status /\ fresh' = TRUE
              /\ UNCHANGED fetch
              /\ misled' = IF fetch # Idle THEN misled \cup {"overtaken"} ELSE misled
         [] kind = "history" ->
              /\ Invalidate(data)
              /\ UNCHANGED <<data, misled>>
         [] OTHER ->
              /\ data' = IF data = "unknown" THEN data ELSE ask.status
              /\ Invalidate(data)
              /\ UNCHANGED misled
    /\ UNCHANGED <<kind, serverSide, open, started, listed, asked, steps>>

AskFailed ==
    /\ ask # Idle
    /\ Step
    /\ ask' = Idle
    /\ misled' = misled \cup {"refused"}
    /\ UNCHANGED <<kind, serverSide, open, started, listed, data, fresh, fetch,
                   asked>>

\* The history list's own poll brings a stored answer.
HistoryListed ==
    /\ kind = "history" /\ stored /\ ~listed
    /\ Step
    /\ listed' = TRUE
    /\ UNCHANGED <<kind, serverSide, open, started, data, fresh, fetch, ask,
                   asked, misled>>

AnswersNext ==
    \/ ServeFetch \/ ServeAsk \/ OtherAsks \/ Generated \/ Restart
    \/ OpenPanel \/ ClosePanel \/ PollStatus \/ FetchAnswered \/ FetchFailed
    \/ AskForIt \/ AskAnswered \/ AskFailed \/ HistoryListed

AnswersSpec == AnswersInit /\ [][AnswersNext]_answersVars

-----------------------------------------------------------------------------
(* Properties                                                              *)

AnswersTypeOK ==
    LET Call == [at : {"idle", "sent"}] \cup [at : {"read"}, stored : BOOLEAN]
                  \cup [at : {"answered"}, status : AnswerStatus]
    IN  /\ kind \in Kind
        /\ stored \in BOOLEAN /\ progress \in Progress
        /\ working \in {"no", "thinking", "saving"}
        /\ open \in BOOLEAN /\ started \in BOOLEAN /\ listed \in BOOLEAN
        /\ data \in AnswerStatus \cup {"unknown"} /\ fresh \in BOOLEAN
        /\ fetch \in Call /\ ask \in Call
        /\ asked \in BOOLEAN
        /\ misled \subseteq {"split", "restart", "overtaken", "refused", "unread"}

\* A panel that reads no more although it has neither an answer nor a failure to
\* show. A job's never does: it polls for as long as it is open.
Stopped ==
    /\ Watching /\ fetch = Idle /\ ask = Idle
    /\ data \notin {"done", "failed"}
    /\ ~Polls(data) /\ ~AsksByItself

\* What leaves a panel without its answer: its question, or the answer to it, was
\* lost; the server restarted; the answer to a plan's question was overtaken by a
\* read sent earlier; a read of a history entry's status failed.
Excuses == {"refused", "restart", IF kind = "plan" THEN "overtaken" ELSE "unread"}

\* The panel of a history entry or a plan that has asked stops short only for one of
\* these Excuses or, when the generation ended between the server's two reads of
\* one status, with the answer in store: opened again, it shows it. So nothing but
\* the four makes it give up on work that goes on (queries.ts:309-338 against
\* diagnose.go and testkit.go).
WatchedToTheEnd ==
    kind # "job" /\ asked /\ Stopped =>
        misled \cap Excuses # {} \/ ("split" \in misled /\ stored)

=============================================================================
