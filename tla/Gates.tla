-------------------------------- MODULE Gates --------------------------------
(***************************************************************************)
(* The policy gates into one ring, as the console's seed and promote       *)
(* dialogs show them and as the server applies them: to the request, again *)
(* when its job begins and, with the same inputs, to the ring its          *)
(* auto-promotion goes on into. The dialog renders what it last read: the  *)
(* rings (source version, window, Grafana verdict), the sign-offs and the  *)
(* security evaluation of the version. Codes that are given are valid here *)
(* and of the ring that comes after only the gates are followed that       *)
(* depend on what the request carries.                                     *)
(***************************************************************************)
EXTENDS Naturals

CONSTANTS
    Version,   \* what the source ring may run, or a seed may name
    Targets,   \* the rings a dialog may be about: the gates, the ref the ring
               \* pins or NotGiven, whether auto-promotion goes on from it, and
               \* the gates of the ring it goes on into
    NotGiven,
    MaxEvents  \* bound on what the operator and the world do

InputGates == {"change", "ticket", "service", "grafana"}   \* read the request's inputs
Rowless == {"metric", "replicas"}                          \* custom gates without a row
Gate == {"window", "signoff", "security"} \cup InputGates \cup Rowless

ASSUME GatesAssumption ==
    /\ Version # {}
    /\ NotGiven \notin Version \cup {"go", "no_go"}
    /\ MaxEvents \in Nat
    /\ Targets \subseteq [guards : SUBSET Gate, pin : Version \cup {NotGiven},
                          chained : BOOLEAN, onward : SUBSET Gate]

VARIABLES
    target,      \* the ring the dialog is about
    source,      \* the version the source ring runs
    windowOpen,  \* a maintenance window is open
    signed,      \* the sign-off of each version for the target ring
    verdict,     \* Grafana's, as the server caches it
    failing,     \* the metric and replica gates that would refuse now
    onwardNoGo,  \* Grafana says no-go for the ring that comes after
    findings,    \* the versions whose scans block
    waived,      \* their findings are accepted by a waiver
    ringView,    \* the rings query: version, window, verdict
    signoffView, \* the sign-offs query
    scanView,    \* the evaluation query of each version
    dialog,      \* the fields of the open dialog, or NotGiven
    signoffOpen, \* the sign-off popover is open in it
    write,       \* the popover's call in flight, or NotGiven
    posted,      \* the confirmed seed or promotion in flight, or NotGiven
    operation,   \* the job that carries one out, or NotGiven
    entered,     \* history: the rings that were entered past their gates
    events

guards == target.guards
policyVars == <<target, source, windowOpen, signed, verdict, failing, onwardNoGo,
               findings, waived>>
viewVars == <<ringView, signoffView, scanView>>
formVars == <<dialog, signoffOpen>>
callVars == <<write, posted>>
operationVars == <<operation, entered>>
gatesVars == <<policyVars, viewVars, formVars, callVars, operationVars, events>>

Unseen == [v \in Version |-> NotGiven]

GatesInit ==
    /\ target \in Targets
    /\ source = CHOOSE v \in Version : TRUE     \* they are alike
    /\ windowOpen = FALSE
    /\ signed = Unseen
    /\ verdict = "no_go"
    /\ failing = {} /\ onwardNoGo = TRUE
    /\ findings \in {{}, {source}}
    /\ waived = FALSE
    /\ ringView = [version |-> source, window |-> windowOpen, verdict |-> verdict]
    /\ signoffView = Unseen
    /\ scanView = Unseen
    /\ dialog = NotGiven /\ signoffOpen = FALSE
    /\ write = NotGiven /\ posted = NotGiven
    /\ operation = NotGiven
    /\ entered = {}
    /\ events = 0

Event == events < MaxEvents /\ events' = events + 1

-----------------------------------------------------------------------------
(* The server and everybody else                                           *)

\* A deploy into the source ring by someone else.
SourceMoves(v) ==
    /\ v # source
    /\ Event
    /\ source' = v
    /\ UNCHANGED <<target, windowOpen, signed, verdict, failing, onwardNoGo, findings,
                   waived, viewVars, formVars, callVars, operationVars>>

\* A window runs out, a verdict, a metric or a replica count changes, a waiver ends;
\* the console learns of it, if at all, by polling.
WorldChanges ==
    /\ Event
    /\ \/ windowOpen' = FALSE /\ UNCHANGED <<verdict, failing, onwardNoGo, waived>>
       \/ verdict' \in {"go", "check", "no_go"} \ {verdict}
          /\ UNCHANGED <<windowOpen, failing, onwardNoGo, waived>>
       \/ failing' \in SUBSET (guards \cap Rowless)
          /\ UNCHANGED <<windowOpen, verdict, onwardNoGo, waived>>
       \/ onwardNoGo' = ~onwardNoGo /\ UNCHANGED <<windowOpen, verdict, failing, waived>>
       \/ waived' = ~waived /\ UNCHANGED <<windowOpen, verdict, failing, onwardNoGo>>
    /\ UNCHANGED <<target, source, signed, findings, viewVars, formVars, callVars,
                   operationVars>>

Scan(v) == IF v \in findings /\ ~waived THEN "no_go" ELSE "go"

\* A gate that reads what the request p carries; blocks: the ring is a no-go.
Satisfied(g, p, blocks) ==
    CASE g = "change" -> p.cr
      [] g \in {"ticket", "service"} -> p.cr \/ p.sr
      [] OTHER -> blocks => p.reason

Passes(g, p, v) ==
    CASE g = "window" -> windowOpen
      [] g = "signoff" -> signed[v] = "go"
      [] g = "security" -> Scan(v) = "go"
      [] g \in Rowless -> g \notin failing
      [] OTHER -> Satisfied(g, p, verdict = "no_go")

\* evaluateGates lets the request in when none refuses.
Refusing(p, v) == {g \in guards : ~Passes(g, p, v)}

\* A ring that pins a ref is seeded with it, whatever was picked; a promotion does
\* not name its version, it is the source's at this moment.
Judged(p) ==
    IF p.kind = "promote" THEN source
    ELSE IF target.pin # NotGiven THEN target.pin ELSE p.pick

\* A call whose component has gone is not heard any more.
Unheard(call) == IF call = NotGiven THEN NotGiven ELSE [call EXCEPT !.heard = FALSE]

\* ValidateSeed, ValidatePromote: the request is refused, which the dialog shows,
\* or accepted as a job, which closes it. Bound: one job at a time.
ServePosted ==
    /\ posted # NotGiven /\ operation = NotGiven
    /\ posted' = NotGiven
    /\ IF Refusing(posted, Judged(posted)) = {}
       THEN /\ operation' = [ring |-> "own", request |-> posted]
            /\ IF posted.heard
               THEN dialog' = NotGiven /\ signoffOpen' = FALSE /\ write' = Unheard(write)
               ELSE UNCHANGED <<formVars, write>>
       ELSE UNCHANGED <<formVars, write, operation>>
    /\ UNCHANGED <<policyVars, viewVars, entered, events>>

\* The ring that was entered, what it asked for, and what it was given.
Admission(ring, policy, blocks, p) ==
    [ring |-> ring, asked |-> policy \cap InputGates, saw |-> p.saw,
     overruled |-> "grafana" \in policy /\ blocks]

\* Seed, promoteHop: the gates are judged once more, at this moment; after a
\* healthy deploy autoChain goes on, if the ring's switch is on.
EnterRing ==
    /\ operation # NotGiven /\ operation.ring = "own"
    /\ LET p == operation.request
       IN  IF Refusing(p, Judged(p)) = {}
           THEN /\ entered' = entered \cup {Admission("own", guards, verdict = "no_go", p)}
                /\ \/ operation' = NotGiven
                   \/ target.chained /\ operation' = [operation EXCEPT !.ring = "next"]
           ELSE operation' = NotGiven /\ UNCHANGED entered
    /\ UNCHANGED <<policyVars, viewVars, formVars, callVars, events>>

\* The hop carries the request's inputs; the ring's other gates may refuse, too.
EnterNextRing ==
    /\ operation # NotGiven /\ operation.ring = "next"
    /\ operation' = NotGiven
    /\ LET p == operation.request
       IN  \/ UNCHANGED entered
          \/ /\ \A g \in target.onward \cap InputGates : Satisfied(g, p, onwardNoGo)
             /\ entered' = entered \cup {Admission("next", target.onward, onwardNoGo, p)}
    /\ UNCHANGED <<policyVars, viewVars, formVars, callVars, events>>

-----------------------------------------------------------------------------
(* The queries: a poll, or an invalidation, reads what the server has now  *)

ReadRingView ==
    /\ ringView' = [version |-> source, window |-> windowOpen, verdict |-> verdict]
    /\ UNCHANGED <<policyVars, signoffView, scanView, formVars, callVars, operationVars,
                   events>>

ReadSignoffs ==
    /\ signoffView' = signed
    /\ UNCHANGED <<policyVars, ringView, scanView, formVars, callVars, operationVars,
                   events>>

\* The version the dialog is about: what was picked, or the source's as shown.
Candidate == IF dialog.kind = "seed" THEN dialog.pick ELSE ringView.version

\* SecurityGateCheck asks for the candidate, once there is one.
ReadEvaluation ==
    /\ dialog # NotGiven
    /\ Candidate # NotGiven
    /\ scanView' = [scanView EXCEPT ![Candidate] = Scan(Candidate)]
    /\ UNCHANGED <<policyVars, ringView, signoffView, formVars, callVars, operationVars,
                   events>>

-----------------------------------------------------------------------------
(* The dialog                                                              *)

Form == [kind : {"seed", "promote"}, pick : Version \cup {NotGiven},
         cr : BOOLEAN, sr : BOOLEAN, reason : BOOLEAN]

OpenGates(k) ==
    /\ dialog = NotGiven
    /\ Event
    /\ dialog' = [kind |-> k, pick |-> NotGiven, cr |-> FALSE, sr |-> FALSE,
                  reason |-> FALSE]
    /\ signoffOpen' = FALSE
    /\ UNCHANGED <<policyVars, viewVars, callVars, operationVars>>

\* Cancel, or Escape: what is in flight goes on, but nobody listens to it.
CloseGates ==
    /\ dialog # NotGiven
    /\ dialog' = NotGiven /\ signoffOpen' = FALSE
    /\ write' = Unheard(write) /\ posted' = Unheard(posted)
    /\ UNCHANGED <<policyVars, viewVars, operationVars, events>>

\* Which inputs the dialog renders; the reason's is there only under a no-go.
ShowsChange == "change" \in guards \/ "ticket" \in guards
ShowsService == "service" \in guards
NeedsOverride == "grafana" \in guards /\ ringView.verdict = "no_go"

Fill(field) ==
    /\ dialog # NotGiven
    /\ \/ field = "cr" /\ ShowsChange
       \/ field = "sr" /\ ShowsService
       \/ field = "reason" /\ NeedsOverride
    /\ dialog' = [dialog EXCEPT ![field] = TRUE]
    /\ UNCHANGED <<policyVars, viewVars, signoffOpen, callVars, operationVars, events>>

PickVersion(v) ==
    /\ dialog # NotGiven
    /\ dialog.kind = "seed"
    /\ Event
    /\ dialog' = [dialog EXCEPT !.pick = v]
    /\ signoffOpen' = FALSE
    /\ UNCHANGED <<policyVars, viewVars, callVars, operationVars>>

SignoffRowOfAny(v) ==   \* fault: another version's sign-off
    \E w \in Version : signoffView[w] = "go"
SignoffRow(v) == v # NotGiven /\ signoffView[v] = "go"

\* The checklist. A row is green by what the dialog last read; the metric and the
\* replica gates have none, they are "checked live at promote time".
Green ==
    /\ "window" \in guards => ringView.window
    /\ "signoff" \in guards => SignoffRow(Candidate)
    /\ ShowsChange => dialog.cr
    /\ ShowsService => dialog.sr
    /\ "security" \in guards => Candidate # NotGiven /\ scanView[Candidate] = "go"
    /\ NeedsOverride => dialog.reason

\* The button is held back for a code and a reason, not by the other rows, and
\* while the dialog's own call is in flight. Bound: nobody else's is, either.
Ready ==
    /\ dialog.kind = "seed" => dialog.pick # NotGiven
    /\ "change" \in guards => dialog.cr
    /\ NeedsOverride => dialog.reason
    /\ posted = NotGiven

\* The reason goes along only while the verdict on screen is a no-go.
SentReasonKept == dialog.reason   \* fault: whatever is in the field
SentReason == NeedsOverride /\ dialog.reason

FormRequest == [kind |-> dialog.kind, pick |-> dialog.pick, cr |-> dialog.cr,
                sr |-> dialog.sr, reason |-> SentReason, saw |-> NeedsOverride,
                heard |-> TRUE]

Confirmed ==
    /\ dialog # NotGiven
    /\ Ready
    /\ Event
    /\ posted' = FormRequest
    /\ UNCHANGED <<policyVars, viewVars, formVars, write, operationVars>>

-----------------------------------------------------------------------------
(* Opening a window and signing off from inside the dialog                 *)

OpenSignoff ==
    /\ dialog # NotGiven
    /\ "signoff" \in guards
    /\ Candidate # NotGiven
    /\ signoffOpen' = ~signoffOpen
    /\ UNCHANGED <<policyVars, viewVars, dialog, callVars, operationVars, events>>

\* The decision is about the version on screen when the button is pressed. Bound:
\* one write in flight.
SendSignoff(d) ==
    /\ dialog # NotGiven /\ signoffOpen
    /\ write = NotGiven
    /\ Event
    /\ write' = [what |-> "signoff", version |-> Candidate, decision |-> d, heard |-> TRUE]
    /\ UNCHANGED <<policyVars, viewVars, formVars, posted, operationVars>>

SendWindow ==
    /\ dialog # NotGiven
    /\ "window" \in guards
    /\ write = NotGiven
    /\ Event
    /\ write' = [what |-> "window", version |-> NotGiven, decision |-> NotGiven,
                 heard |-> TRUE]
    /\ UNCHANGED <<policyVars, viewVars, formVars, posted, operationVars>>

\* An upsert by version, or a window that starts now; the popover closes, if it is
\* still there, and the query is read again.
WriteServed ==
    /\ write # NotGiven
    /\ write' = NotGiven
    /\ IF write.what = "signoff"
       THEN /\ signed' = [signed EXCEPT ![write.version] = write.decision]
            /\ signoffView' = signed'
            /\ signoffOpen' = (signoffOpen /\ ~write.heard)
            /\ UNCHANGED <<windowOpen, ringView>>
       ELSE /\ windowOpen' = TRUE
            /\ ringView' = [version |-> source, window |-> TRUE, verdict |-> verdict]
            /\ UNCHANGED <<signed, signoffView, signoffOpen>>
    /\ UNCHANGED <<target, source, verdict, failing, onwardNoGo, findings, waived,
                   scanView, dialog, posted, operationVars, events>>

WriteRefused ==
    /\ write # NotGiven
    /\ write' = NotGiven
    /\ UNCHANGED <<policyVars, viewVars, formVars, posted, operationVars, events>>

-----------------------------------------------------------------------------
GatesNext ==
    \/ \E v \in Version : SourceMoves(v) \/ PickVersion(v)
    \/ WorldChanges \/ ServePosted \/ EnterRing \/ EnterNextRing
    \/ ReadRingView \/ ReadSignoffs \/ ReadEvaluation
    \/ \E k \in {"seed", "promote"} : OpenGates(k)
    \/ CloseGates \/ Confirmed
    \/ \E field \in {"cr", "sr", "reason"} : Fill(field)
    \/ OpenSignoff \/ SendWindow
    \/ \E d \in {"go", "no_go"} : SendSignoff(d)
    \/ WriteServed \/ WriteRefused

GatesSpec == GatesInit /\ [][GatesNext]_gatesVars

-----------------------------------------------------------------------------
Decisions == [Version -> {"go", "no_go", NotGiven}]
Carried == [kind : {"seed", "promote"}, pick : Version \cup {NotGiven}, cr : BOOLEAN,
            sr : BOOLEAN, reason : BOOLEAN, saw : BOOLEAN, heard : BOOLEAN]
Admissions == [ring : {"own", "next"}, asked : SUBSET InputGates, saw : BOOLEAN,
            overruled : BOOLEAN]

\* Types: the dialog's fields, the calls in flight and the three caches.
GatesTypeOK ==
    /\ target \in Targets /\ source \in Version
    /\ {windowOpen, waived, signoffOpen, onwardNoGo} \subseteq BOOLEAN
    /\ verdict \in {"go", "check", "no_go"}
    /\ failing \subseteq Rowless
    /\ findings \subseteq Version
    /\ {signed, signoffView, scanView} \subseteq Decisions
    /\ ringView \in [version : Version, window : BOOLEAN,
                     verdict : {"go", "check", "no_go"}]
    /\ dialog \in Form \cup {NotGiven}
    /\ write = NotGiven \/ write.version \in Version \cup {NotGiven}
    /\ posted \in Carried \cup {NotGiven}
    /\ operation \in [ring : {"own", "next"}, request : Carried] \cup {NotGiven}
    /\ entered \subseteq Admissions
    /\ events \in 0 .. MaxEvents

\* What the dialog read is what the server has.
UpToDate ==
    /\ ringView = [version |-> source, window |-> windowOpen, verdict |-> verdict]
    /\ signoffView = signed
    /\ Candidate # NotGiven => scanView[Candidate] \in {NotGiven, Scan(Candidate)}

\* The gates whose answer to a request the checklist does not show: those without a
\* row and, of a ring that is seeded with another version than the one picked, those
\* whose rows are about the version picked.
NotShown(p) ==
    Rowless \cup IF p.kind = "seed" /\ target.pin \notin {NotGiven, p.pick}
                 THEN {"signoff", "security"} ELSE {}

\* The checklist and the server's pipeline are written twice, in two languages,
\* and read different inputs: with its rows all green, over caches that are up to
\* date, a dialog's request is refused by no gate the checklist shows. It may be
\* refused by a metric or replica gate and, into a ring that pins a ref, for what
\* that ref lacks (gate-controls.tsx:49-123 against gate.go:60-185,
\* custom_gate.go:22-211 and promoter.go:409-416).
GreenRowsHold ==
    dialog # NotGiven /\ UpToDate /\ Ready /\ Green =>
        Refusing(FormRequest, Judged(FormRequest)) \subseteq NotShown(FormRequest)

\* No no-go is overruled, of the dialog's ring or of the one its operation goes on
\* into, by an operation that was confirmed while its dialog showed none: a reason
\* typed for an earlier verdict, still in its hidden field, is not sent. It does not
\* say that the no-go overruled is the one that was shown: what was typed for one
\* ring goes along to the next (action-dialogs.tsx:448-466, api.ts:38-47, gates.go:54-56).
NoSilentOverrides == \A e \in entered : e.overruled => e.saw

\* An auto-promotion passes neither a change-request gate nor a no-go, for want of
\* a code and of a human reason (README.md:464-467).
HopsFailClosed ==
    \A e \in entered : e.ring = "next" => ~e.overruled /\ "change" \notin e.asked

=============================================================================
