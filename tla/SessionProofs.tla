---------------------------- MODULE SessionProofs ----------------------------
(***************************************************************************)
(* Proofs about the console's session, for any clusters, servers, tokens   *)
(* and bounds: its types, that it is always about one cluster, and that    *)
(* every saved token was accepted by its cluster's server.                 *)
(***************************************************************************)
EXTENDS Session, TLAPS

\* What makes it inductive: as long as no dialog saved under a changed session,
\* every query still heard asks the active cluster, and every dialog in flight
\* remembers the address its cluster has. This server's entry keeps its address.
CallsFit ==
    "form" \in strayed \/
        /\ cache["query"] \in {None, url[activeId]}
        /\ \A r \in requests : r.kind = "query" /\ r.live => r.to = url[activeId]

FormsFit ==
    /\ \A f \in formChecks : f.id = Local => f.to = Home
    /\ "form" \in strayed \/ \A f \in formChecks : f.was = url[f.id]

SessionInv == SessionTypeOK /\ ActiveTokenIsSaved /\ CallsFit /\ FormsFit

-----------------------------------------------------------------------------
(* The helpers                                                             *)

\* Cancelling keeps the calls what they are, and leaves no query to be heard.
LEMMA CancelledCalls ==
    ASSUME SessionTypeOK
    PROVE  /\ Cancelled \subseteq Request
           /\ \A r \in Cancelled : ~(r.kind = "query" /\ r.live)
  <1> SUFFICES ASSUME NEW q \in Cancelled
               PROVE  q \in Request /\ ~(q.kind = "query" /\ q.live)
    BY Zenon
  <1>1. PICK r \in requests : q = [r EXCEPT !.live = r.kind = "mutation"]
    BY Zenon DEF Cancelled
  <1>2. r \in Request
    BY DEF SessionTypeOK
  <1>3. q \in Request /\ q.kind = r.kind /\ q.live = (r.kind = "mutation")
    BY <1>1, <1>2 DEF Request
  <1> QED BY <1>3

LEMMA UnmountedType ==
    ASSUME NEW checks \in SUBSET Check, NEW tok
    PROVE  Unmounted(checks, tok) \subseteq Check
  <1> SUFFICES ASSUME NEW q \in Unmounted(checks, tok) PROVE q \in Check
    BY Zenon
  <1>1. CASE tok = None
    BY <1>1 DEF Unmounted
  <1>2. CASE tok # None
    <2>1. PICK g \in checks : q = [g EXCEPT !.mounted = FALSE]
      BY <1>2, Zenon DEF Unmounted
    <2> QED BY <2>1 DEF Check
  <1> QED BY <1>1, <1>2

\* A switch takes the saved token along and starts with nothing of the other's.
LEMMA SwitchEffect ==
    ASSUME SessionTypeOK, NEW c \in Cluster,
           NEW toks \in [Cluster -> Credential \cup {None}], SwitchedTo(c, toks)
    PROVE  /\ activeId' = c /\ token' = toks[c]
           /\ token' \in Credential \cup {None}
           /\ cache' \in [{"query", "mutation"} -> Server \cup {None}]
           /\ cache'["query"] = None
           /\ requests' \subseteq Request
           /\ \A r \in requests' : ~(r.kind = "query" /\ r.live)
  BY CancelledCalls DEF SwitchedTo, Empty

\* A stray validation is never forgotten, and one is noticed whenever the
\* session changes while a dialog's is in flight.
LEMMA StrayEffect ==
    ASSUME SessionTypeOK, NEW gates, NEW forms, Stray(gates, forms)
    PROVE  /\ strayed' \subseteq {"gate", "form"}
           /\ strayed \subseteq strayed'
           /\ forms # {} => "form" \in strayed'
                            \/ (url' = url /\ activeId' = activeId /\ tokens' = tokens)
  BY DEF SessionTypeOK, Stray

\* Whoever has an address is saved, and the other way round.
LEMMA SavedAddress ==
    ASSUME SessionTypeOK, NEW c \in Cluster, Saved(c)
    PROVE  url[c] \in Server
  BY DEF SessionTypeOK, Saved

LEMMA LocalIsCluster == Local \in Cluster
  BY DEF Cluster

LEMMA InitInv == SessionInit => SessionInv
  <1> SUFFICES ASSUME SessionInit PROVE SessionInv
    OBVIOUS
  <1> USE SessionAssumption DEF SessionInit
  <1>1. SessionTypeOK
    BY DEF SessionTypeOK, Cluster, Empty
  <1>2. ActiveTokenIsSaved
    BY DEF ActiveTokenIsSaved, Saved, Cluster
  <1>3. CallsFit /\ FormsFit
    BY DEF CallsFit, FormsFit, Empty
  <1> QED BY <1>1, <1>2, <1>3 DEF SessionInv

-----------------------------------------------------------------------------
(* One lemma per kind of step                                              *)

\* A call carries the active cluster's address.
LEMMA SendInv ==
    ASSUME SessionInv, NEW k \in {"query", "mutation"}, Send(k), acts' \in Nat
    PROVE  SessionInv'
  <1> DEFINE r == [kind |-> k, to |-> url[activeId], with |-> token, at |-> activeId,
                   ok |-> token \in accepts[url[activeId]], live |-> TRUE]
  <1>1. r \in Request
    BY SavedAddress DEF SessionInv, SessionTypeOK, ActiveTokenIsSaved, Send, Request
  <1>2. requests' = requests \cup {r}
    BY DEF Send
  <1>3. SessionTypeOK'
    BY <1>1, <1>2 DEF SessionInv, SessionTypeOK, Send, store, history
  <1>4. ActiveTokenIsSaved'
    BY DEF SessionInv, ActiveTokenIsSaved, Saved, Send, store
  <1>5. CallsFit'
    BY <1>2 DEF SessionInv, CallsFit, Send, store, history
  <1>6. FormsFit'
    BY DEF SessionInv, FormsFit, Send, store, history
  <1> QED BY <1>3, <1>4, <1>5, <1>6 DEF SessionInv

\* Steps that only take or change calls, checks and what servers accept.
LEMMA QuietInv ==
    ASSUME SessionInv, UNCHANGED store, strayed' = strayed,
           requests' \subseteq requests, formChecks' \subseteq formChecks,
           gateChecks' \subseteq Check,
           proven' \subseteq Server \X Credential,
           accepts' \in [Server -> SUBSET Credential], acts' \in Nat,
           cache' \in [{"query", "mutation"} -> Server \cup {None}],
           CallsFit'
    PROVE  SessionInv'
  <1>1. SessionTypeOK'
    BY DEF SessionInv, SessionTypeOK, store
  <1>2. ActiveTokenIsSaved'
    BY DEF SessionInv, ActiveTokenIsSaved, Saved, store
  <1>3. FormsFit'
    BY DEF SessionInv, FormsFit, store
  <1> QED BY <1>1, <1>2, <1>3 DEF SessionInv

\* An answer that is heard is the active cluster's.
LEMMA AnswerOKInv ==
    ASSUME SessionInv, NEW r \in requests, AnswerOK(r)
    PROVE  SessionInv'
  <1>1. r \in Request
    BY DEF SessionInv, SessionTypeOK
  <1>2. cache' \in [{"query", "mutation"} -> Server \cup {None}]
    BY <1>1 DEF SessionInv, SessionTypeOK, AnswerOK, Request
  <1>3. CallsFit'
    BY <1>1 DEF SessionInv, SessionTypeOK, CallsFit, AnswerOK, Request, store, history
  <1> QED BY <1>2, <1>3, QuietInv
          DEF SessionInv, SessionTypeOK, AnswerOK, store, history

\* A refusal takes the active cluster's token, saved and shown.
LEMMA AnswerRefusedInv ==
    ASSUME SessionInv, NEW r \in requests, AnswerRefused(r)
    PROVE  SessionInv'
  <1> USE DEF AnswerRefused
  <1>1. /\ strayed' \subseteq {"gate", "form"} /\ strayed \subseteq strayed'
    BY StrayEffect DEF SessionInv
  <1>2. SessionTypeOK'
    BY <1>1 DEF SessionInv, SessionTypeOK
  <1>3. ActiveTokenIsSaved'
    BY DEF SessionInv, SessionTypeOK, ActiveTokenIsSaved, Saved
  <1>4. CallsFit' /\ FormsFit'
    BY <1>1 DEF SessionInv, CallsFit, FormsFit
  <1> QED BY <1>2, <1>3, <1>4 DEF SessionInv
\* Steps that only end something in flight, or that only a server takes.
LEMMA EndedInv ==
    ASSUME SessionInv,
           \/ \E r \in requests : AnswerLost(r)
           \/ \E g \in gateChecks : GateFailed(g)
           \/ \E f \in formChecks : FormFailed(f)
           \/ \E s \in Server, t \in Credential : Revoke(s, t)
           \/ Reload
    PROVE  SessionInv'
  <1> USE DEF SessionInv, SessionTypeOK, CallsFit, store, history
  <1>1. CASE \E r \in requests : AnswerLost(r)
    BY <1>1, QuietInv DEF AnswerLost
  <1>2. CASE \E g \in gateChecks : GateFailed(g)
    BY <1>2, QuietInv DEF GateFailed
  <1>3. CASE \E f \in formChecks : FormFailed(f)
    BY <1>3, QuietInv DEF FormFailed
  <1>4. CASE \E s \in Server, t \in Credential : Revoke(s, t)
    BY <1>4, QuietInv DEF Revoke, Act
  <1>5. CASE Reload
    BY <1>5, QuietInv DEF Reload, Act, Empty
  <1> QED BY <1>1, <1>2, <1>3, <1>4, <1>5

\* The gate asks the active cluster.
LEMMA GateSubmitInv ==
    ASSUME SessionInv, NEW t \in Credential, GateSubmit(t)
    PROVE  SessionInv'
  <1> DEFINE g == [to |-> url[activeId], with |-> t, mounted |-> TRUE]
  <1>1. g \in Check
    BY SavedAddress DEF SessionInv, SessionTypeOK, ActiveTokenIsSaved, Check
  <1>2. gateChecks' \subseteq Check
    BY <1>1 DEF SessionInv, SessionTypeOK, GateSubmit
  <1> QED BY <1>2, QuietInv
          DEF SessionInv, SessionTypeOK, CallsFit, GateSubmit, Act, store, history

\* A token the gate had accepted becomes the active cluster's.
LEMMA GateAcceptedInv ==
    ASSUME SessionInv, NEW g \in gateChecks, GateAccepted(g)
    PROVE  SessionInv'
  <1> USE DEF GateAccepted
  <1>1. g \in Check /\ gateChecks \ {g} \in SUBSET Check
    BY DEF SessionInv, SessionTypeOK
  <1>2. g.with \in Credential /\ g.to \in Server
    BY <1>1 DEF Check
  <1>3. strayed' \subseteq {"gate", "form"} /\ strayed \subseteq strayed'
    BY StrayEffect DEF SessionInv
  <1>4. gateChecks' \subseteq Check
    BY <1>1, UnmountedType
  <1>5. SessionTypeOK'
    BY <1>2, <1>3, <1>4 DEF SessionInv, SessionTypeOK
  <1>6. ActiveTokenIsSaved'
    BY <1>2 DEF SessionInv, SessionTypeOK, ActiveTokenIsSaved, Saved
  <1>7. CallsFit' /\ FormsFit'
    BY <1>3 DEF SessionInv, CallsFit, FormsFit
  <1> QED BY <1>5, <1>6, <1>7 DEF SessionInv

\* Signing out forgets the active cluster's token, saved and shown.
LEMMA SignOutInv ==
    ASSUME SessionInv, SignOut
    PROVE  SessionInv'
  <1> USE DEF SignOut, Act
  <1>1. strayed' \subseteq {"gate", "form"} /\ strayed \subseteq strayed'
    BY StrayEffect DEF SessionInv
  <1>2. SessionTypeOK'
    BY <1>1 DEF SessionInv, SessionTypeOK
  <1>3. ActiveTokenIsSaved'
    BY DEF SessionInv, SessionTypeOK, ActiveTokenIsSaved, Saved
  <1>4. CallsFit' /\ FormsFit'
    BY <1>1 DEF SessionInv, CallsFit, FormsFit
  <1> QED BY <1>2, <1>3, <1>4 DEF SessionInv

\* A switch shows the saved token of a saved cluster and nothing cached.
LEMMA SwitchInv ==
    ASSUME SessionInv, NEW c \in Cluster, Switch(c)
    PROVE  SessionInv'
  <1>1. tokens \in [Cluster -> Credential \cup {None}] /\ SwitchedTo(c, tokens)
    BY DEF SessionInv, SessionTypeOK, Switch
  <1>2. /\ activeId' = c /\ token' = tokens[c]
        /\ token' \in Credential \cup {None}
        /\ cache' \in [{"query", "mutation"} -> Server \cup {None}]
        /\ cache'["query"] = None
        /\ requests' \subseteq Request
        /\ \A r \in requests' : ~(r.kind = "query" /\ r.live)
    BY <1>1, SwitchEffect DEF SessionInv
  <1>3. strayed' \subseteq {"gate", "form"} /\ strayed \subseteq strayed'
    BY StrayEffect DEF SessionInv, Switch
  <1>4. gateChecks' \subseteq Check
    BY UnmountedType DEF SessionInv, SessionTypeOK, Switch
  <1>5. SessionTypeOK'
    BY <1>2, <1>3, <1>4 DEF SessionInv, SessionTypeOK, Switch, Act
  <1>6. ActiveTokenIsSaved'
    BY <1>2 DEF SessionInv, ActiveTokenIsSaved, Saved, Switch
  <1>7. CallsFit'
    BY <1>2 DEF CallsFit
  <1>8. FormsFit'
    BY <1>3 DEF SessionInv, FormsFit, Switch
  <1> QED BY <1>5, <1>6, <1>7, <1>8 DEF SessionInv

\* The dialog checks an address and a token for a cluster as it is now.
LEMMA FormSubmitInv ==
    ASSUME SessionInv, NEW c \in Cluster, NEW s \in Server,
           NEW t \in Credential \cup {None}, NEW after \in BOOLEAN,
           FormSubmit(c, s, t, after)
    PROVE  SessionInv'
  <1> DEFINE f == [id |-> c, was |-> url[c], to |-> s, typed |-> t # None,
                   after |-> after, with |-> IF t # None THEN t ELSE tokens[c]]
  <1>1. f \in Entry
    BY DEF SessionInv, SessionTypeOK, FormSubmit, Entry
  <1>2. formChecks' = formChecks \cup {f}
    BY DEF FormSubmit
  <1>3. SessionTypeOK'
    BY <1>1, <1>2 DEF SessionInv, SessionTypeOK, FormSubmit, Act, store, history
  <1>4. ActiveTokenIsSaved' /\ CallsFit'
    BY DEF SessionInv, ActiveTokenIsSaved, Saved, CallsFit, FormSubmit, store, history
  <1>5. FormsFit'
    BY <1>2 DEF SessionInv, FormsFit, FormSubmit, store, history
  <1> QED BY <1>3, <1>4, <1>5 DEF SessionInv

\* A cluster is saved: the active one starts anew when it answers from another
\* address, another one leaves the session alone or takes it over whole.
LEMMA FormAcceptedInv ==
    ASSUME SessionInv, NEW f \in formChecks, FormAccepted(f)
    PROVE  SessionInv'
  <1> DEFINE toks == IF f.typed THEN [tokens EXCEPT ![f.id] = f.with] ELSE tokens
             switched == f.after /\ f.id # activeId
             repointed == f.id = activeId /\ f.was # None /\ (f.was # f.to \/ f.typed)
  <1>1. f \in Entry
    BY DEF SessionInv, SessionTypeOK
  <1>2. /\ f.id \in Cluster /\ f.to \in Server /\ f.with \in Credential
        /\ f.typed \in BOOLEAN /\ f.after \in BOOLEAN
    BY <1>1 DEF Entry
  <1>3. toks \in [Cluster -> Credential \cup {None}]
    BY <1>2 DEF SessionInv, SessionTypeOK
  <1>4. /\ url' = [url EXCEPT ![f.id] = f.to] /\ tokens' = toks
        /\ formChecks' = formChecks \ {f}
        /\ gateChecks' = Unmounted(gateChecks, token')
        /\ proven' = proven \cup {<<f.to, f.with>>}
        /\ accepts' = accepts /\ acts' = acts
        /\ Stray(gateChecks, formChecks \ {f})
    BY DEF FormAccepted
  <1>5. /\ strayed' \subseteq {"gate", "form"} /\ strayed \subseteq strayed'
        /\ formChecks \ {f} # {} => "form" \in strayed' \/ url' = url
    BY <1>4, StrayEffect DEF SessionInv
  <1>6. gateChecks' \subseteq Check
    BY <1>4, UnmountedType DEF SessionInv, SessionTypeOK
  <1>7. FormsFit'
    BY <1>4, <1>5 DEF SessionInv, FormsFit
  <1>8. /\ url'[Local] = Home
        /\ url' \in [Cluster -> Server \cup {None}]
        /\ \A c \in Cluster : tokens'[c] # None => url'[c] # None
        /\ url[activeId] # None
    BY <1>2, <1>4, LocalIsCluster, SessionAssumption
    DEF SessionInv, SessionTypeOK, ActiveTokenIsSaved, Saved, FormsFit
  <1>9. CASE switched
    <2>1. SwitchedTo(f.id, toks)
      BY <1>9 DEF FormAccepted
    <2>2. /\ activeId' = f.id /\ token' = toks[f.id]
          /\ token' \in Credential \cup {None}
          /\ cache' \in [{"query", "mutation"} -> Server \cup {None}]
          /\ cache'["query"] = None
          /\ requests' \subseteq Request
          /\ \A r \in requests' : ~(r.kind = "query" /\ r.live)
      BY <2>1, <1>2, <1>3, SwitchEffect DEF SessionInv
    <2>3. url'[f.id] # None
      BY <1>2, <1>4, SessionAssumption DEF SessionInv, SessionTypeOK
    <2>4. SessionTypeOK'
      BY <2>2, <1>2, <1>3, <1>4, <1>5, <1>6, <1>8 DEF SessionInv, SessionTypeOK
    <2>5. ActiveTokenIsSaved'
      BY <2>2, <2>3, <1>4, <1>8 DEF ActiveTokenIsSaved, Saved
    <2>6. CallsFit'
      BY <2>2 DEF CallsFit
    <2> QED BY <2>4, <2>5, <2>6, <1>7 DEF SessionInv
  <1>10. CASE ~switched
    <2>1. /\ activeId' = activeId
          /\ token' = IF f.id = activeId THEN toks[f.id] ELSE token
          /\ IF repointed THEN cache' = Empty /\ requests' = Cancelled
             ELSE cache' = cache /\ requests' = requests
      BY <1>10 DEF FormAccepted
    <2>2. cache' \in [{"query", "mutation"} -> Server \cup {None}]
      BY <2>1 DEF SessionInv, SessionTypeOK, Empty
    <2>3. requests' \subseteq Request
      BY <2>1, CancelledCalls DEF SessionInv, SessionTypeOK
    <2>4. token' \in Credential \cup {None}
      BY <2>1, <1>2, <1>3 DEF SessionInv, SessionTypeOK
    <2>5. SessionTypeOK'
      BY <2>1, <2>2, <2>3, <2>4, <1>2, <1>3, <1>4, <1>5, <1>6, <1>8
      DEF SessionInv, SessionTypeOK
    <2>6. token' = tokens'[activeId']
      BY <2>1, <1>2, <1>4 DEF SessionInv, SessionTypeOK, ActiveTokenIsSaved
    <2>7. url'[activeId'] # None
      BY <2>1, <1>2, <1>4, <1>8, SessionAssumption DEF SessionInv, SessionTypeOK
    <2>8. ActiveTokenIsSaved'
      BY <2>6, <2>7, <1>8 DEF ActiveTokenIsSaved, Saved
    <2>9. CASE repointed
      <3>1. cache'["query"] = None /\ \A r \in requests' : ~(r.kind = "query" /\ r.live)
        BY <2>1, <2>9, CancelledCalls DEF SessionInv, Empty
      <3> QED BY <3>1, <2>5, <2>8, <1>7 DEF SessionInv, CallsFit
    <2>10. CASE ~repointed
      <3>1. "form" \in strayed \/ url'[activeId] = url[activeId]
        BY <2>10, <1>2, <1>4, <1>8 DEF SessionInv, SessionTypeOK, FormsFit
      <3>2. CallsFit'
        BY <3>1, <2>1, <2>10, <1>5 DEF SessionInv, CallsFit
      <3> QED BY <3>2, <2>5, <2>8, <1>7 DEF SessionInv
    <2> QED BY <2>9, <2>10
  <1> QED BY <1>9, <1>10

\* A cluster is left before it is forgotten, with its token.
LEMMA RemoveInv ==
    ASSUME SessionInv, NEW c \in Cluster, RemoveCluster(c)
    PROVE  SessionInv'
  <1>1. /\ c # Local /\ url' = [url EXCEPT ![c] = None]
        /\ tokens' = [tokens EXCEPT ![c] = None]
        /\ acts' \in Nat /\ formChecks' = formChecks /\ accepts' = accepts
        /\ proven' = proven /\ Stray(gateChecks, formChecks)
    BY DEF SessionInv, SessionTypeOK, RemoveCluster, Act
  <1>2. /\ strayed' \subseteq {"gate", "form"} /\ strayed \subseteq strayed'
        /\ formChecks # {} => "form" \in strayed' \/ url' = url
    BY <1>1, StrayEffect DEF SessionInv
  <1>3. FormsFit'
    BY <1>1, <1>2 DEF SessionInv, FormsFit
  <1>4. /\ url' \in [Cluster -> Server \cup {None}]
        /\ tokens' \in [Cluster -> Credential \cup {None}]
        /\ url'[Local] = Home
        /\ \A d \in Cluster : tokens'[d] # None => url'[d] # None
    BY <1>1, LocalIsCluster DEF SessionInv, SessionTypeOK, ActiveTokenIsSaved, Saved
  <1>5. CASE c = activeId
    <2>1. SwitchedTo(Local, tokens) /\ gateChecks' = Unmounted(gateChecks, tokens[Local])
      BY <1>5 DEF RemoveCluster
    <2>2. /\ activeId' = Local /\ token' = tokens[Local]
          /\ token' \in Credential \cup {None}
          /\ cache' \in [{"query", "mutation"} -> Server \cup {None}]
          /\ cache'["query"] = None
          /\ requests' \subseteq Request
          /\ \A r \in requests' : ~(r.kind = "query" /\ r.live)
      BY <2>1, LocalIsCluster, SwitchEffect DEF SessionInv, SessionTypeOK
    <2>3. gateChecks' \subseteq Check
      BY <2>1, UnmountedType DEF SessionInv, SessionTypeOK
    <2>4. SessionTypeOK'
      BY <2>2, <2>3, <1>1, <1>2, <1>4, LocalIsCluster DEF SessionInv, SessionTypeOK
    <2>5. ActiveTokenIsSaved'
      BY <2>2, <1>1, <1>4, LocalIsCluster, SessionAssumption
      DEF SessionInv, SessionTypeOK, ActiveTokenIsSaved, Saved
    <2> QED BY <2>2, <2>4, <2>5, <1>3 DEF SessionInv, CallsFit
  <1>6. CASE c # activeId
    <2>1. UNCHANGED <<activeId, token, cache, requests, gateChecks>>
      BY <1>6 DEF RemoveCluster
    <2>2. url'[activeId] = url[activeId] /\ tokens'[activeId] = tokens[activeId]
      BY <1>1, <1>6 DEF SessionInv, SessionTypeOK
    <2>3. SessionTypeOK'
      BY <2>1, <1>1, <1>2, <1>4 DEF SessionInv, SessionTypeOK
    <2>4. ActiveTokenIsSaved'
      BY <2>1, <2>2, <1>4 DEF SessionInv, ActiveTokenIsSaved, Saved
    <2>5. CallsFit'
      BY <2>1, <2>2, <1>2 DEF SessionInv, CallsFit
    <2> QED BY <2>3, <2>4, <2>5, <1>3 DEF SessionInv
  <1> QED BY <1>5, <1>6

-----------------------------------------------------------------------------
(* The theorems                                                            *)

LEMMA NextInv == SessionInv /\ [SessionNext]_sessionVars => SessionInv'
  <1> SUFFICES ASSUME SessionInv, [SessionNext]_sessionVars PROVE SessionInv'
    OBVIOUS
  <1>1. CASE Poll
    BY <1>1, SendInv DEF Poll, SessionInv, SessionTypeOK
  <1>2. CASE Mutate
    BY <1>2, SendInv DEF Mutate, Act, SessionInv, SessionTypeOK
  <1>3. CASE Answer
    BY <1>3, AnswerOKInv, AnswerRefusedInv, EndedInv DEF Answer
  <1>4. CASE Checked
    BY <1>4, GateAcceptedInv, FormAcceptedInv, EndedInv DEF Checked
  <1>5. CASE \E t \in Credential : GateSubmit(t)
    BY <1>5, GateSubmitInv
  <1>6. CASE \E c \in Cluster : Switch(c) \/ RemoveCluster(c)
    BY <1>6, SwitchInv, RemoveInv
  <1>7. CASE \E c \in Cluster, s \in Server, t \in Credential \cup {None},
                after \in BOOLEAN : FormSubmit(c, s, t, after)
    BY <1>7, FormSubmitInv
  <1>8. CASE SignOut \/ Reload
    BY <1>8, SignOutInv, EndedInv
  <1>9. CASE \E s \in Server, t \in Credential : Revoke(s, t)
    BY <1>9, EndedInv
  <1>10. CASE UNCHANGED sessionVars
    <2>1. UNCHANGED <<store, cache, requests, gateChecks, formChecks, accepts, acts,
                      history>>
      BY <1>10 DEF sessionVars
    <2> QED BY <2>1, QuietInv
            DEF SessionInv, SessionTypeOK, CallsFit, store, history
  <1> QED BY <1>1, <1>2, <1>3, <1>4, <1>5, <1>6, <1>7, <1>8, <1>9, <1>10
          DEF SessionNext

\* Whatever is in flight while clusters are switched, saved and removed, the
\* session's state keeps its types, for any clusters, servers and tokens.
THEOREM SessionTypeCorrect == SessionSpec => []SessionTypeOK
  <1>1. SessionInv => SessionTypeOK
    BY DEF SessionInv
  <1> QED BY <1>1, InitInv, NextInv, PTL DEF SessionSpec

\* The console is about one cluster: a saved one, with its token, and with what
\* its queries read from it, as long as no dialog saved a cluster under which
\* the session had changed (stores.ts:72-166, clusters.tsx:82-102).
THEOREM SessionIsOfOneClusterAlways == SessionSpec => []SessionIsOfOneCluster
  <1>1. SessionInv => SessionIsOfOneCluster
    BY DEF SessionInv, SessionIsOfOneCluster, CallsFit, QueriedFromActive
  <1> QED BY <1>1, InitInv, NextInv, PTL DEF SessionSpec

-----------------------------------------------------------------------------
(* Tokens are validated where they are saved                               *)

\* As long as the session did not change under a validation, every token in the
\* gate is being asked of the active cluster's address, and a dialog left blank
\* asks about the token its cluster has.
TokensFit ==
    strayed # {} \/
        /\ \A c \in Cluster : tokens[c] # None => <<url[c], tokens[c]>> \in proven
        /\ \A g \in gateChecks : g.to = url[activeId]
        /\ \A f \in formChecks : ~f.typed => f.with = tokens[f.id]

\* Every saved token was accepted, by one server or another.
TokensAccepted ==
    \A c \in Cluster : tokens[c] # None => \E s \in Server : <<s, tokens[c]>> \in proven

\* Unless it leaves a stray validation behind, a step changes the saved clusters
\* only while nothing is being validated.
LEMMA NothingStrays ==
    ASSUME NEW gates, NEW forms, Stray(gates, forms), strayed' = {}
    PROVE  /\ strayed = {}
           /\ \/ gates = {} /\ forms = {}
              \/ url' = url /\ activeId' = activeId /\ tokens' = tokens
  BY DEF Stray

LEMMA UnmountedAsks ==
    ASSUME NEW checks \in SUBSET Check, NEW tok, NEW s,
           \A g \in checks : g.to = s
    PROVE  \A g \in Unmounted(checks, tok) : g.to = s
  <1> SUFFICES ASSUME NEW q \in Unmounted(checks, tok) PROVE q.to = s
    BY Zenon
  <1>1. CASE tok = None
    BY <1>1 DEF Unmounted
  <1>2. CASE tok # None
    <2>1. PICK g \in checks : q = [g EXCEPT !.mounted = FALSE]
      BY <1>2, Zenon DEF Unmounted
    <2> QED BY <2>1 DEF Check
  <1> QED BY <1>1, <1>2

LEMMA UnmountedNone ==
    ASSUME NEW tok
    PROVE  Unmounted({}, tok) = {}
  BY Zenon DEF Unmounted

\* Steps that leave the saved clusters alone and start no validation.
LEMMA TokensQuiet ==
    ASSUME TokensFit, UNCHANGED store, UNCHANGED history,
           gateChecks' \subseteq gateChecks, formChecks' \subseteq formChecks
    PROVE  TokensFit'
  BY DEF TokensFit, store, history

\* Forgetting the active cluster's token.
LEMMA TokensForgotten ==
    ASSUME SessionInv, TokensFit,
           tokens' = [tokens EXCEPT ![activeId] = None],
           UNCHANGED <<url, activeId, gateChecks, formChecks, proven>>,
           Stray(gateChecks, formChecks)
    PROVE  TokensFit'
  <1> SUFFICES ASSUME strayed' = {} PROVE TokensFit'
    BY DEF TokensFit
  <1>1. /\ strayed = {}
        /\ \/ gateChecks = {} /\ formChecks = {}
           \/ url' = url /\ activeId' = activeId /\ tokens' = tokens
    BY NothingStrays
  <1> QED BY <1>1 DEF SessionInv, SessionTypeOK, TokensFit

\* The gate saves a token at the address that accepted it.
LEMMA TokensGate ==
    ASSUME SessionInv, TokensFit, NEW g \in gateChecks, GateAccepted(g)
    PROVE  TokensFit'
  <1> SUFFICES ASSUME strayed' = {} PROVE TokensFit'
    BY DEF TokensFit
  <1> DEFINE left == gateChecks \ {g}
  <1>1. /\ tokens' = [tokens EXCEPT ![activeId] = g.with]
        /\ proven' = proven \cup {<<g.to, g.with>>}
        /\ gateChecks' = Unmounted(left, g.with)
        /\ UNCHANGED <<url, activeId, formChecks>>
        /\ Stray(left, formChecks)
    BY DEF GateAccepted
  <1>2. /\ strayed = {}
        /\ \/ left = {} /\ formChecks = {}
           \/ url' = url /\ activeId' = activeId /\ tokens' = tokens
    BY <1>1, NothingStrays
  <1>3. \A h \in gateChecks' : h.to = url[activeId]
    <2>1. left \in SUBSET Check /\ \A h \in left : h.to = url[activeId]
      BY <1>2 DEF SessionInv, SessionTypeOK, TokensFit
    <2> HIDE DEF left
    <2> QED BY <2>1, <1>1, UnmountedAsks
  <1>4. \A c \in Cluster : tokens'[c] # None => <<url'[c], tokens'[c]>> \in proven'
    BY <1>1, <1>2 DEF SessionInv, SessionTypeOK, TokensFit
  <1>5. \A f \in formChecks' : ~f.typed => f.with = tokens'[f.id]
    BY <1>1, <1>2 DEF TokensFit
  <1> QED BY <1>1, <1>3, <1>4, <1>5 DEF TokensFit

\* Switching saves nothing; a gate's check in flight is left behind as stray.
LEMMA TokensSwitch ==
    ASSUME SessionInv, TokensFit, NEW c \in Cluster, Switch(c)
    PROVE  TokensFit'
  <1> SUFFICES ASSUME strayed' = {} PROVE TokensFit'
    BY DEF TokensFit
  <1>1. /\ activeId' = c /\ c # activeId
        /\ gateChecks' = Unmounted(gateChecks, tokens[c])
        /\ UNCHANGED <<url, tokens, formChecks, proven>>
        /\ Stray(gateChecks, formChecks)
    BY DEF Switch, SwitchedTo
  <1>2. strayed = {} /\ gateChecks = {} /\ formChecks = {}
    BY <1>1, NothingStrays
  <1>3. gateChecks' = {}
    BY <1>1, <1>2, UnmountedNone
  <1> QED BY <1>1, <1>2, <1>3 DEF TokensFit

\* The gate asks the cluster that is active.
LEMMA TokensGateSubmit ==
    ASSUME SessionInv, TokensFit, NEW t \in Credential, GateSubmit(t)
    PROVE  TokensFit'
  BY DEF TokensFit, GateSubmit, store, history

\* A blank token in the dialog is the saved one.
LEMMA TokensFormSubmit ==
    ASSUME SessionInv, TokensFit, NEW c \in Cluster, NEW s \in Server,
           NEW t \in Credential \cup {None}, NEW after \in BOOLEAN,
           FormSubmit(c, s, t, after)
    PROVE  TokensFit'
  <1> DEFINE f == [id |-> c, was |-> url[c], to |-> s, typed |-> t # None,
                   after |-> after, with |-> IF t # None THEN t ELSE tokens[c]]
  <1>1. formChecks' = formChecks \cup {f}
    BY DEF FormSubmit
  <1>2. f.id = c /\ f.typed = (t # None) /\ (~f.typed => f.with = tokens[c])
    OBVIOUS
  <1>3. /\ url' = url /\ activeId' = activeId /\ tokens' = tokens
        /\ gateChecks' = gateChecks /\ proven' = proven /\ strayed' = strayed
    BY DEF FormSubmit, store, history
  <1> HIDE DEF f
  <1> QED BY <1>1, <1>2, <1>3 DEF TokensFit

\* The dialog saves an address with the token that was accepted there.
LEMMA TokensForm ==
    ASSUME SessionInv, TokensFit, NEW f \in formChecks, FormAccepted(f)
    PROVE  TokensFit'
  <1> SUFFICES ASSUME strayed' = {} PROVE TokensFit'
    BY DEF TokensFit
  <1> DEFINE left == formChecks \ {f}
  <1>1. /\ url' = [url EXCEPT ![f.id] = f.to]
        /\ tokens' = IF f.typed THEN [tokens EXCEPT ![f.id] = f.with] ELSE tokens
        /\ formChecks' = left
        /\ gateChecks' = Unmounted(gateChecks, token')
        /\ proven' = proven \cup {<<f.to, f.with>>}
        /\ Stray(gateChecks, left)
    BY DEF FormAccepted
  <1>2. /\ strayed = {}
        /\ \/ gateChecks = {} /\ left = {}
           \/ url' = url /\ activeId' = activeId /\ tokens' = tokens
    BY <1>1, NothingStrays
  <1>3. f \in Entry /\ f.id \in Cluster
    BY DEF SessionInv, SessionTypeOK, Entry
  <1>4. ~f.typed => f.with = tokens[f.id]
    BY <1>2 DEF TokensFit
  <1>5. \A c \in Cluster : tokens'[c] # None => <<url'[c], tokens'[c]>> \in proven'
    BY <1>1, <1>2, <1>3, <1>4 DEF SessionInv, SessionTypeOK, TokensFit
  <1>6. \A g \in gateChecks' : g.to = url'[activeId']
    <2>1. CASE gateChecks = {}
      BY <2>1, <1>1, UnmountedNone
    <2>2. CASE url' = url /\ activeId' = activeId
      <3>1. gateChecks \in SUBSET Check /\ \A g \in gateChecks : g.to = url[activeId]
        BY <1>2 DEF SessionInv, SessionTypeOK, TokensFit
      <3> QED BY <3>1, <2>2, <1>1, UnmountedAsks
    <2> QED BY <2>1, <2>2, <1>2
  <1>7. \A h \in formChecks' : ~h.typed => h.with = tokens'[h.id]
    BY <1>1, <1>2 DEF TokensFit
  <1> QED BY <1>5, <1>6, <1>7 DEF TokensFit

\* A removed cluster takes its token with it.
LEMMA TokensRemove ==
    ASSUME SessionInv, TokensFit, NEW c \in Cluster, RemoveCluster(c)
    PROVE  TokensFit'
  <1> SUFFICES ASSUME strayed' = {} PROVE TokensFit'
    BY DEF TokensFit
  <1>1. /\ url' = [url EXCEPT ![c] = None] /\ url[c] # None
        /\ tokens' = [tokens EXCEPT ![c] = None]
        /\ formChecks' = formChecks /\ proven' = proven
        /\ gateChecks' = gateChecks \/ \E tok : gateChecks' = Unmounted(gateChecks, tok)
        /\ Stray(gateChecks, formChecks)
    BY DEF RemoveCluster, Saved
  <1>2. url' # url
    BY <1>1 DEF SessionInv, SessionTypeOK
  <1>3. strayed = {} /\ gateChecks = {} /\ formChecks = {}
    BY <1>1, <1>2, NothingStrays
  <1>4. gateChecks' = {}
    BY <1>1, <1>3, UnmountedNone
  <1> QED BY <1>1, <1>3, <1>4 DEF SessionInv, SessionTypeOK, TokensFit

LEMMA TokensNext == SessionInv /\ TokensFit /\ [SessionNext]_sessionVars => TokensFit'
  <1> SUFFICES ASSUME SessionInv, TokensFit, [SessionNext]_sessionVars PROVE TokensFit'
    OBVIOUS
  <1>1. CASE Poll \/ Mutate
    BY <1>1, TokensQuiet DEF Poll, Mutate, Send
  <1>2. CASE Answer
    <2>1. CASE \E r \in requests : AnswerOK(r) \/ AnswerLost(r)
      BY <2>1, TokensQuiet DEF AnswerOK, AnswerLost, store
    <2>2. ASSUME NEW r \in requests, AnswerRefused(r) PROVE TokensFit'
      <3>1. CASE activeId = r.at
        BY <2>2, <3>1, TokensForgotten DEF AnswerRefused
      <3>2. CASE activeId # r.at
        BY <2>2, <3>2 DEF AnswerRefused, Stray, TokensFit
      <3> QED BY <3>1, <3>2
    <2> QED BY <1>2, <2>1, <2>2 DEF Answer
  <1>3. CASE Checked
    <2>1. CASE (\E g \in gateChecks : GateFailed(g)) \/ \E f \in formChecks : FormFailed(f)
      BY <2>1, TokensQuiet DEF GateFailed, FormFailed
    <2> QED BY <1>3, <2>1, TokensGate, TokensForm DEF Checked
  <1>4. CASE \E t \in Credential : GateSubmit(t)
    BY <1>4, TokensGateSubmit
  <1>5. CASE \E c \in Cluster : Switch(c) \/ RemoveCluster(c)
    BY <1>5, TokensSwitch, TokensRemove
  <1>6. CASE \E c \in Cluster, s \in Server, t \in Credential \cup {None},
                after \in BOOLEAN : FormSubmit(c, s, t, after)
    BY <1>6, TokensFormSubmit
  <1>7. CASE SignOut
    BY <1>7, TokensForgotten DEF SignOut
  <1>8. CASE Reload \/ \E s \in Server, t \in Credential : Revoke(s, t)
    BY <1>8, TokensQuiet DEF Reload, Revoke
  <1>9. CASE UNCHANGED sessionVars
    BY <1>9, TokensQuiet DEF sessionVars
  <1> QED BY <1>1, <1>2, <1>3, <1>4, <1>5, <1>6, <1>7, <1>8, <1>9 DEF SessionNext

\* A token is saved, for whatever cluster, only once some server has accepted it.
LEMMA TokensAcceptedNext ==
    ASSUME SessionInv, TokensAccepted, [SessionNext]_sessionVars PROVE TokensAccepted'
  <1> USE DEF TokensAccepted
  <1>1. ASSUME UNCHANGED tokens, proven \subseteq proven' PROVE TokensAccepted'
    BY <1>1
  <1>2. ASSUME NEW c, tokens' = [tokens EXCEPT ![c] = None], proven' = proven
        PROVE  TokensAccepted'
    BY <1>2 DEF SessionInv, SessionTypeOK
  <1>3. CASE Poll \/ Mutate \/ Reload
    BY <1>1, <1>3 DEF Poll, Mutate, Send, Reload, store, history
  <1>4. CASE Answer
    BY <1>1, <1>2, <1>4 DEF Answer, AnswerOK, AnswerLost, AnswerRefused, store, history
  <1>5. ASSUME NEW g \in gateChecks, GateAccepted(g) PROVE TokensAccepted'
    <2>1. /\ g.to \in Server /\ tokens' = [tokens EXCEPT ![activeId] = g.with]
          /\ proven' = proven \cup {<<g.to, g.with>>}
      BY <1>5 DEF SessionInv, SessionTypeOK, Check, GateAccepted
    <2> QED BY <2>1 DEF SessionInv, SessionTypeOK
  <1>6. ASSUME NEW f \in formChecks, FormAccepted(f) PROVE TokensAccepted'
    <2>1. /\ f.to \in Server /\ f.id \in Cluster
          /\ tokens' = IF f.typed THEN [tokens EXCEPT ![f.id] = f.with] ELSE tokens
          /\ proven' = proven \cup {<<f.to, f.with>>}
      BY <1>6 DEF SessionInv, SessionTypeOK, Entry, FormAccepted
    <2>2. CASE f.typed
      BY <2>1, <2>2 DEF SessionInv, SessionTypeOK
    <2>3. CASE ~f.typed
      BY <1>1, <2>1, <2>3
    <2> QED BY <2>2, <2>3
  <1>7. CASE Checked
    BY <1>1, <1>5, <1>6, <1>7 DEF Checked, GateFailed, FormFailed, store, history
  <1>8. CASE \E t \in Credential : GateSubmit(t)
    BY <1>1, <1>8 DEF GateSubmit, store, history
  <1>9. CASE \E c \in Cluster : Switch(c) \/ RemoveCluster(c)
    BY <1>1, <1>2, <1>9 DEF Switch, RemoveCluster
  <1>10. CASE \E c \in Cluster, s \in Server, t \in Credential \cup {None},
                 after \in BOOLEAN : FormSubmit(c, s, t, after)
    BY <1>1, <1>10 DEF FormSubmit, store, history
  <1>11. CASE SignOut
    BY <1>2, <1>11 DEF SignOut
  <1>12. CASE \E s \in Server, t \in Credential : Revoke(s, t)
    BY <1>1, <1>12 DEF Revoke, store, history
  <1>13. CASE UNCHANGED sessionVars
    BY <1>1, <1>13 DEF sessionVars, store, history
  <1> QED BY <1>3, <1>4, <1>7, <1>8, <1>9, <1>10, <1>11, <1>12, <1>13 DEF SessionNext

\* However checks, refusals, switches and edits cross, a saved token was accepted by
\* some server; and by the one its own cluster is saved with, as long as the session
\* did not change under a check still in flight, for then nothing holds the gate or the
\* dialog to the cluster it asked about (token-gate.tsx, clusters.tsx, api.ts:129-152).
THEOREM TokensAreProven == SessionSpec => []TokensProven
  <1>1. SessionInit => TokensFit /\ TokensAccepted
    BY DEF SessionInit, TokensFit, TokensAccepted
  <1>2. TokensFit /\ TokensAccepted => TokensProven
    BY DEF TokensFit, TokensAccepted, TokensProven
  <1> QED BY <1>1, <1>2, InitInv, NextInv, TokensNext, TokensAcceptedNext, PTL
          DEF SessionSpec
=============================================================================
