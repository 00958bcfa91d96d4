------------------------------- MODULE Session -------------------------------
(***************************************************************************)
(* The web console's session: the clusters (Ring Promoter servers) saved   *)
(* in this browser, the token of each, the one that is active, what is     *)
(* cached of its answers, and everything that is in flight while the       *)
(* operator signs in, signs out, edits, removes and switches clusters.     *)
(* Each asynchronous step is a request that is sent, and an action of its  *)
(* own when its answer arrives: the state may have changed in between.     *)
(***************************************************************************)
EXTENDS Naturals, FiniteSets

CONSTANTS
    Remote,       \* the identities of clusters other than this server
    Local,        \* LOCAL_CLUSTER_ID: the server the console came from
    Server,       \* the addresses a cluster can have
    Home,         \* the address of this server
    Credential,   \* API tokens
    None,
    Granted,      \* the tokens each server accepts at first
    MaxRequests,  \* bound on the requests in flight
    MaxActs       \* bound on what the operator and the servers do

ASSUME SessionAssumption ==
    /\ Local \notin Remote
    /\ Home \in Server
    /\ None \notin Remote \cup {Local} \cup Server \cup Credential
    /\ Granted \in [Server -> SUBSET Credential]

Cluster == Remote \cup {Local}

VARIABLES
    url,        \* the address of every saved cluster, None when not saved
    activeId,   \* the cluster the console is on
    token,      \* its token, None shows the token gate
    tokens,     \* the token saved for every cluster
    cache,      \* which server answered what is cached, by who wrote it
    requests,   \* calls through request() that have no answer yet
    gateChecks, \* tokens entered in the gate and being validated
    formChecks, \* clusters entered in the dialog and being validated
    accepts,    \* the tokens each server accepts now
    acts,       \* what the operator and the servers did so far
    proven,     \* history: tokens some server accepted in a validation
    strayed     \* history: the validations the session changed under

store == <<url, activeId, token, tokens>>
history == <<proven, strayed>>
sessionVars == <<store, cache, requests, gateChecks, formChecks, accepts,
                 acts, history>>

Empty == [writer \in {"query", "mutation"} |-> None]

SessionInit ==
    /\ url = [c \in Cluster |-> IF c = Local THEN Home ELSE None]
    /\ activeId = Local
    /\ token = None
    /\ tokens = [c \in Cluster |-> None]
    /\ cache = Empty
    /\ requests = {}
    /\ gateChecks = {}
    /\ formChecks = {}
    /\ accepts = Granted
    /\ acts = 0
    /\ proven = {}
    /\ strayed = {}

Saved(c) == url[c] # None
Act == acts < MaxActs /\ acts' = acts + 1

\* The gate is on screen only while the active cluster has no token: a check
\* started by a gate that is gone goes on without it.
Unmounted(checks, tok) ==
    IF tok = None THEN checks ELSE {[g EXCEPT !.mounted = FALSE] : g \in checks}

CancelledNone == requests   \* fault: only cleared, not cancelled

\* cancelQueries and clear: answers to queries find no query to go to.
Cancelled == {[r EXCEPT !.live = r.kind = "mutation"] : r \in requests}

\* That the session changed under a validation still in flight is remembered.
Stray(gates, forms) ==
    strayed' = IF <<url, activeId, tokens>>' = <<url, activeId, tokens>> THEN strayed
               ELSE strayed \cup (IF gates # {} THEN {"gate"} ELSE {})
                            \cup (IF forms # {} THEN {"form"} ELSE {})

-----------------------------------------------------------------------------
(* Calls to the active cluster                                             *)

\* A call carries the address and the token of this moment. A query is sent by
\* its poll, one at a time; a mutation by the operator.
Send(k) ==
    /\ token # None
    /\ Cardinality(requests) < MaxRequests
    /\ requests' = requests \cup
         {[kind |-> k, to |-> url[activeId], with |-> token, at |-> activeId,
           ok |-> token \in accepts[url[activeId]], live |-> TRUE]}
    /\ UNCHANGED <<store, cache, gateChecks, formChecks, accepts, history>>

Poll ==
    /\ \A r \in requests : ~(r.kind = "query" /\ r.live)
    /\ Send("query")
    /\ UNCHANGED acts

Mutate == Send("mutation") /\ Act

\* A query's answer is cached if its query is still there; a mutation's
\* callback writes the cache whatever happened meanwhile.
AnswerOK(r) ==
    /\ r.ok
    /\ requests' = requests \ {r}
    /\ cache' = IF r.live THEN [cache EXCEPT ![r.kind] = r.to] ELSE cache
    /\ UNCHANGED <<store, gateChecks, formChecks, accepts, acts, history>>

AnswerRefusedOnly(r) ==   \* fault: the session stays
    /\ r.with \notin accepts[r.to]
    /\ requests' = requests \ {r}
    /\ UNCHANGED <<store, cache, gateChecks, formChecks, accepts, acts, history>>

\* 401: back to the gate, unless the operator has switched cluster since.
AnswerRefused(r) ==
    /\ r.with \notin accepts[r.to]
    /\ requests' = requests \ {r}
    /\ IF activeId = r.at
       THEN /\ token' = None
            /\ tokens' = [tokens EXCEPT ![activeId] = None]
       ELSE UNCHANGED <<token, tokens>>
    /\ UNCHANGED <<url, activeId, cache, gateChecks, formChecks, accepts, acts,
                   proven>>
    /\ Stray(gateChecks, formChecks)

\* Any other error: the caller is told, the session stays.
AnswerLost(r) ==
    /\ requests' = requests \ {r}
    /\ UNCHANGED <<store, cache, gateChecks, formChecks, accepts, acts, history>>

-----------------------------------------------------------------------------
(* The token gate                                                          *)

\* submit() validates against the cluster that is active now ...
GateSubmit(t) ==
    /\ token = None
    /\ \A g \in gateChecks : ~g.mounted
    /\ Act
    /\ gateChecks' = gateChecks \cup
         {[to |-> url[activeId], with |-> t, mounted |-> TRUE]}
    /\ UNCHANGED <<store, cache, requests, formChecks, accepts, history>>

\* ... and setToken saves the token for the one that is active then.
GateAccepted(g) ==
    /\ g.with \in accepts[g.to]
    /\ token' = g.with
    /\ tokens' = [tokens EXCEPT ![activeId] = g.with]
    /\ gateChecks' = Unmounted(gateChecks \ {g}, g.with)
    /\ proven' = proven \cup {<<g.to, g.with>>}
    /\ UNCHANGED <<url, activeId, cache, requests, formChecks, accepts, acts>>
    /\ Stray(gateChecks \ {g}, formChecks)

GateFailedSaved(g) ==   \* fault: saved before it is validated
    /\ gateChecks' = {}
    /\ token' = g.with
    /\ tokens' = [tokens EXCEPT ![activeId] = g.with]
    /\ UNCHANGED <<url, activeId, cache, requests, formChecks, accepts, acts, proven>>
    /\ Stray(gateChecks \ {g}, formChecks)

GateFailed(g) ==
    /\ gateChecks' = gateChecks \ {g}
    /\ UNCHANGED <<store, cache, requests, formChecks, accepts, acts, history>>

-----------------------------------------------------------------------------
(* Switching, saving and removing clusters                                 *)

\* What useSwitchCluster does to a session whose saved tokens are toks.
SwitchedTo(c, toks) ==
    /\ activeId' = c
    /\ token' = toks[c]
    /\ cache' = Empty
    /\ requests' = Cancelled

Switch(c) ==
    /\ Saved(c) /\ c # activeId
    /\ Act
    /\ SwitchedTo(c, tokens)
    /\ gateChecks' = Unmounted(gateChecks, tokens[c])
    /\ UNCHANGED <<url, tokens, formChecks, accepts, proven>>
    /\ Stray(gateChecks, formChecks)

SignOut ==
    /\ token # None
    /\ Act
    /\ token' = None
    /\ tokens' = [tokens EXCEPT ![activeId] = None]
    /\ UNCHANGED <<url, activeId, cache, requests, gateChecks, formChecks,
                   accepts, proven>>
    /\ Stray(gateChecks, formChecks)

\* A new cluster gets an identity nothing in flight knows.
Fresh(c) ==
    /\ ~Saved(c)
    /\ \A r \in requests : r.at # c
    /\ \A f \in formChecks : f.id # c

\* The add and edit dialog: an address no other cluster is saved with, this
\* server's cannot be changed; a blank token (None) means the saved one.
FormSubmit(c, s, t, after) ==
    /\ Saved(c) \/ Fresh(c)
    /\ c = Local => s = Home
    /\ \A d \in Remote \ {c} : url[d] # s
    /\ t # None \/ tokens[c] # None
    /\ after => c # activeId
    /\ Act
    /\ formChecks' = formChecks \cup
         {[id |-> c, was |-> url[c], to |-> s, typed |-> t # None, after |-> after,
           with |-> IF t # None THEN t ELSE tokens[c]]}
    /\ UNCHANGED <<store, cache, requests, gateChecks, accepts, history>>

\* The validation succeeded: the cluster is saved (again, if it was removed
\* meanwhile), and an active cluster that answers from a new address or with a
\* new token starts from an empty cache.
FormAccepted(f) ==
    LET toks == IF f.typed THEN [tokens EXCEPT ![f.id] = f.with] ELSE tokens
        repointed == f.id = activeId /\ f.was # None /\ (f.was # f.to \/ f.typed)
    IN  /\ f.with \in accepts[f.to]
        /\ url' = [url EXCEPT ![f.id] = f.to]
        /\ tokens' = toks
        /\ IF f.after /\ f.id # activeId
           THEN SwitchedTo(f.id, toks)
           ELSE /\ token' = IF f.id = activeId THEN toks[f.id] ELSE token
                /\ IF repointed
                   THEN cache' = Empty /\ requests' = Cancelled
                   ELSE UNCHANGED <<cache, requests>>
                /\ UNCHANGED activeId
        /\ gateChecks' = Unmounted(gateChecks, token')
        /\ formChecks' = formChecks \ {f}
        /\ proven' = proven \cup {<<f.to, f.with>>}
        /\ UNCHANGED <<accepts, acts>>
        /\ Stray(gateChecks, formChecks \ {f})

FormFailed(f) ==
    /\ formChecks' = formChecks \ {f}
    /\ UNCHANGED <<store, cache, requests, gateChecks, accepts, acts, history>>

\* The row's Remove button leaves the cluster before it forgets it.
RemoveCluster(c) ==
    /\ c # Local /\ Saved(c)
    /\ Act
    /\ url' = [url EXCEPT ![c] = None]
    /\ tokens' = [tokens EXCEPT ![c] = None]
    /\ IF c = activeId
       THEN /\ SwitchedTo(Local, tokens)
            /\ gateChecks' = Unmounted(gateChecks, tokens[Local])
       ELSE UNCHANGED <<activeId, token, cache, requests, gateChecks>>
    /\ UNCHANGED <<formChecks, accepts, proven>>
    /\ Stray(gateChecks, formChecks)

\* Reloading the page keeps what the store persists and nothing else.
Reload ==
    /\ Act
    /\ cache' = Empty
    /\ requests' = {} /\ gateChecks' = {} /\ formChecks' = {}
    /\ UNCHANGED <<store, accepts, history>>

\* A server stops accepting a token.
Revoke(s, t) ==
    /\ t \in accepts[s]
    /\ Act
    /\ accepts' = [accepts EXCEPT ![s] = @ \ {t}]
    /\ UNCHANGED <<store, cache, requests, gateChecks, formChecks, history>>

-----------------------------------------------------------------------------
Refused == \E r \in requests : AnswerRefused(r)
Answer == \E r \in requests : AnswerOK(r) \/ AnswerRefused(r) \/ AnswerLost(r)
Checked ==
    \/ \E g \in gateChecks : GateAccepted(g) \/ GateFailed(g)
    \/ \E f \in formChecks : FormAccepted(f) \/ FormFailed(f)

SessionNext ==
    \/ Poll \/ Mutate \/ Answer \/ Checked
    \/ \E t \in Credential : GateSubmit(t)
    \/ \E c \in Cluster : Switch(c) \/ RemoveCluster(c)
    \/ \E c \in Cluster, s \in Server, t \in Credential \cup {None},
          after \in BOOLEAN : FormSubmit(c, s, t, after)
    \/ SignOut \/ Reload
    \/ \E s \in Server, t \in Credential : Revoke(s, t)

SessionSpec == SessionInit /\ [][SessionNext]_sessionVars

\* Polls go on, every call ends, and the network does not lose for ever every
\* answer of a server that refuses.
SessionFairness ==
    /\ WF_sessionVars(Poll)
    /\ WF_sessionVars(Answer)
    /\ SF_sessionVars(Refused)

-----------------------------------------------------------------------------
(* Properties                                                              *)

Check == [to : Server, with : Credential, mounted : BOOLEAN]
Entry == [id : Cluster, was : Server \cup {None}, to : Server, typed : BOOLEAN,
          after : BOOLEAN, with : Credential]
Request == [kind : {"query", "mutation"}, to : Server, with : Credential,
            at : Cluster, ok : BOOLEAN, live : BOOLEAN]

SessionTypeOK ==
    /\ url \in [Cluster -> Server \cup {None}]
    /\ activeId \in Cluster
    /\ token \in Credential \cup {None}
    /\ tokens \in [Cluster -> Credential \cup {None}]
    /\ cache \in [{"query", "mutation"} -> Server \cup {None}]
    /\ requests \subseteq Request
    /\ gateChecks \subseteq Check
    /\ formChecks \subseteq Entry
    /\ accepts \in [Server -> SUBSET Credential]
    /\ acts \in Nat
    /\ proven \subseteq Server \X Credential
    /\ strayed \subseteq {"gate", "form"}

ActiveTokenIsSaved ==
    /\ url[Local] = Home
    /\ Saved(activeId)
    /\ token = tokens[activeId]
    /\ \A c \in Cluster : tokens[c] # None => Saved(c)

\* What the queries have cached came from the active cluster's present address,
\* unless a cluster was saved from a dialog under which the session had changed.
QueriedFromActive ==
    "form" \in strayed \/ cache["query"] \in {None, url[activeId]}

\* Whatever answers come after the operator has switched, edited or removed
\* clusters, the console is about one cluster: it is on a saved one, with the
\* token saved for it and what its queries read from it; no token outlives its
\* cluster, and this server's entry keeps its address (stores.ts:72-166;
\* clusters.tsx:82-102, 186-390, 456-564; api.ts:59-98).
SessionIsOfOneCluster == ActiveTokenIsSaved /\ QueriedFromActive

\* No token is saved that no server has accepted, whatever the operator does while it
\* is validated; and as long as the session did not change under a validation, each
\* was accepted by the server at its own cluster's address. After such a change a
\* token may end up with a cluster that never accepted it, since submit() of the gate
\* saves it for the one that is active then (token-gate.tsx, clusters.tsx,
\* api.ts:129-152, stores.ts).
TokensProven ==
    /\ \A c \in Cluster : tokens[c] # None => \E s \in Server : <<s, tokens[c]>> \in proven
    /\ strayed = {} =>
         \A c \in Cluster : tokens[c] # None => <<url[c], tokens[c]>> \in proven

\* A token the active cluster no longer accepts does not stay on screen for ever:
\* some call is refused and the console returns to the gate (api.ts:80-91).
RefusedTokenReachesGate ==
    []<>(token = None \/ token \in accepts[url[activeId]])

=============================================================================
