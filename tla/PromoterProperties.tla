------------------------- MODULE PromoterProperties -------------------------
(***************************************************************************)
(* What the promotion engine promises.  The invariants and the temporal    *)
(* properties are checked by the MCPromoter runs; PromoterProofs,          *)
(* StoreProofs and LedgerProofs prove the safety properties and that the   *)
(* engine implements Ledger, for every value of the constants.             *)
(***************************************************************************)
EXTENDS Promoter, FiniteSetsExt

\* Every variable has its type.
TypeOK ==
  /\ state \in [Ring -> Row]
  /\ auto \in [Ring -> BOOLEAN]
  /\ history \in Seq(Entry)
  /\ journal \subseteq JournalRec
  /\ nextId \in Nat \ {0}
  /\ holder \in Procs \cup {NoProc}
  /\ live \in [Ring -> VersionX]
  /\ orphans \subseteq [ring : Ring, version : VersionX]
  /\ up \subseteq Replicas
  /\ cfg \in [Replicas -> SUBSET Configured]
  /\ op \in [Procs -> OpRec]
  /\ requests \in 0 .. MaxRequests
  /\ crashes \in 0 .. MaxCrashes

-----------------------------------------------------------------------------
(* Safety. *)

\* Operation o is past its lock.
Inside(o) == op[o].pc \notin {"idle", "lock"}

\* Operations on an application are serialised, over all replicas, and the
\* lock never outlives the operation that took it, crashes included
\* (Store.Lock; README "Concurrency & reliability").
OperationsSerialized == \A o \in Procs : Inside(o) <=> holder = o

\* An attempt that was journaled never vanishes: until history has an entry
\* for it, its journal row is there for the next start-up to find, whatever
\* crashes in between (recovery.go, "so the operation never disappears
\* silently").
NoSilentLoss == \A i \in 1 .. nextId - 1 : i \in Ids \/ i \in Logged

\* A row with no operation left to clear it means that a process died
\* (store.PendingOp: "a row still present at start-up therefore means a
\* previous process died mid-operation").
LeftoverMeansCrash ==
  crashes = 0 => \A j \in journal : holder # NoProc /\ op[holder].att = j.id

\* Without a crash no attempt is recorded twice for the same action, also
\* when a new replica finds the journal row of an operation the old one is
\* still running (rolling update; ResumePendingOp's recheck under the lock).
RecordedOnce ==
  crashes = 0 =>
    \A k, l \in DOMAIN history :
      /\ k # l
      /\ history[k].id = history[l].id
      /\ history[k].id # 0
      => history[k].act # history[l].act

\* Between operations the stored version is the one the cluster runs, for
\* every unpinned ring, after any mixture of failed deploys, failed checks and
\* rollbacks (README: the stored state never lags the cluster even if a health
\* check and the rollback after it both fail).
StoreMatchesCluster ==
  holder = NoProc =>
    \A r \in Ring \ Pinned : state[r].cur = live[r]

\* A promotion ships what its source ring's row says the source runs, from
\* the moment the hop starts to its end, and a hop that an auto-promote chain
\* adds ships a version that was recorded healthy there: nothing changes the
\* source underneath, and a chain never advances past an unproven ring
\* (promoteHop and autoChain run under one application lock).
PromotesRecordedSource ==
  \A o \in Procs :
    LET me == op[o]
    IN /\ me.act = "promote"
       /\ me.att # me.rec
       /\ me.pc \in {"deploy", "persist", "unhealthy", "resave", "rbdeploy"}
       => /\ me.ring \notin Pinned => state[me.from].cur = me.version
          /\ me.kind # "promote" => state[me.from].healthy

\* The last history entry of ring r.
Entries(r) == {k \in DOMAIN history : history[k].ring = r}
LastResult(r) == history[Max(Entries(r))].result

\* History does not claim a success the cluster contradicts: when a ring that
\* verifies its version was last reported a success, and no operation or
\* journal row says its fate is open, it runs the version the store says,
\* crashes and recoveries included (ResumePendingOp proves its outcome).
SuccessIsTruth ==
  \A r \in Verifies \ Pinned :
    /\ Entries(r) # {}
    /\ LastResult(r) = "success"
    /\ holder # NoProc => op[holder].ring # r
    /\ \A j \in journal : j.ring # r
    => state[r].cur = live[r]

\* The version a ring leaves is the one a rollback returns to: whenever a
\* row's versions change, the new previous version is the one that was current
\* (a pinned ring first records its ref, then the build behind it).
VersionsOf(row) == <<row.cur, row.prev>>
BaselineKept ==
  [][\A r \in Ring :
       VersionsOf(state'[r]) # VersionsOf(state[r]) =>
         \/ state'[r].prev = state[r].cur
         \/ r \in Pinned /\ state'[r].prev = state[r].prev]_vars

-----------------------------------------------------------------------------
(* The engine as a ledger.                                                 *)

OpenAttempt(j) == [id |-> j.id, ring |-> j.ring, version |-> j.version, prev |-> j.prev]

Book == INSTANCE Ledger WITH
  Version <- VersionX, Actor <- Procs, Nobody <- NoProc, Loose <- Pinned,
  turn <- holder, row <- [r \in Ring |-> VersionsOf(state[r])], cluster <- live,
  open <- {OpenAttempt(j) : j \in journal}, reported <- Logged \ {0},
  issued <- nextId - 1, adrift <- orphans

\* Every operation writes its attempt down before it changes a cluster or a row,
\* changes them only to versions written down for that ring and while it has the
\* application's lock, and clears the attempt only once history has it: through
\* crashes, deploys that fail half done, recoveries, and late deploys, which are
\* of attempts written down too (store.PendingOp, "persisted BEFORE the deploy
\* starts"; recovery.go; README "Concurrency & reliability").
ImplementsLedger == Book!Spec

-----------------------------------------------------------------------------
(* Why NoSilentLoss holds: an inductive strengthening of it, for contexts  *)
(* that do not expire and rings that stay configured.                      *)

\* What operation o owes to the journal: whoever is about to clear its
\* attempt's row has recorded the attempt, and a recovery has recorded the
\* attempt it resolves, unless it is still finding out what became of it or is
\* just about to record it.
Resolving == {"idle", "lock", "recheck", "await"}
Answerable(o) ==
  LET me == op[o]
  IN /\ ~me.expired
     /\ me.pc # "idle" => me.ring \in Configured
     /\ {me.att, me.rec} \subseteq 0 .. nextId - 1
     /\ me.kind # "recover" => me.rec = 0
     /\ me.pc \in {"resave", "clear"} /\ me.att # 0 => me.att \in Logged
     /\ me.pc \in Resolving => me.att = me.rec
     /\ me.rec # 0 /\ me.pc \notin Resolving =>
          \/ me.att = me.rec /\ me.pc \in {"save", "record"}
          \/ me.rec \in Logged

\* A journal row has an id that was handed out and a configured ring.
RowsKnown ==
  \A j \in journal : j.id \in 1 .. nextId - 1 /\ j.ring \in Configured

Accountable ==
  /\ NoSilentLoss
  /\ cfg = [p \in Replicas |-> Configured]
  /\ RowsKnown
  /\ \A o \in Procs : Answerable(o)

-----------------------------------------------------------------------------
(* Liveness, under FairSpec. *)

\* Every operation ends and frees the lock.
OperationsEnd == \A o \in Procs : op[o].pc # "idle" ~> op[o].pc = "idle"

\* Every journaled attempt is eventually in history, if need be by the
\* recovery a restarted replica runs, and its journal row is gone.  (The bound
\* covers the ids a run uses: two hops a request, one more after a crash.)
AttemptsAreLogged ==
  \A i \in 1 .. 2 * MaxRequests + MaxCrashes :
    i \in Ids ~> i \in Logged /\ i \notin Ids
=============================================================================
