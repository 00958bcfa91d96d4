----------------------------- MODULE LedgerProofs -----------------------------
(***************************************************************************)
(* The engine implements the ledger: for every number of rings, replicas,  *)
(* operations and crashes, with deploys that fail half done or land late,  *)
(* nothing comes to a ring or its row that was not written down first, and *)
(* nothing is cleared that was not reported.                               *)
(***************************************************************************)
EXTENDS StoreProofs

-----------------------------------------------------------------------------
(* The invariant.                                                          *)

\* Row j is about what the operation does: its ring, and, unless somebody else
\* names the build, the two versions it moves between.
Told(me, j) ==
  /\ j.ring = me.ring
  /\ me.ring \in Pinned \/ <<me.version, me.prev>> \in
       {<<j.version, j.prev>>, <<j.prev, j.version>>}

\* Past the beginning of a hop its row is in the journal, until it is cleared;
\* a recovery that waits for the lock finds the row it was started for, or none;
\* only a restart, which changes no version, goes without.
Noted(o) ==
  LET me == op[o]
  IN /\ me.att # 0 /\ me.pc \in Hopping \cup {"await"} =>
          \E j \in journal : j.id = me.att /\ Told(me, j)
     /\ me.kind = "recover" /\ me.pc \in {"lock", "recheck"} =>
          \A j \in journal : j.id = me.rec => Told(me, j)
     /\ \/ me.pc \in {"deploy", "persist", "unhealthy", "resave", "await"} \cup RollingBack
        \/ me.pc \in {"check", "save"} /\ ~(me.kind # "recover" /\ me.act = "restart")
        => me.att # 0
     /\ me.kind # "recover" /\ me.act = "restart" /\ me.pc \in {"restart", "check", "save"} =>
          me.version = state[me.ring].cur /\ me.prev = state[me.ring].prev

RowsApart == \A j, k \in journal : j.id = k.id => j = k
AllNoted == \A o \in Procs : Noted(o)
LedgerInv == RowsApart /\ AllNoted

\* The row a hop begins with.
LEMMA BeginTold ==
  ASSUME TypeOK, NEW o \in Procs, ~op[o].expired, Begins(o)
  PROVE  \E j : /\ journal' = journal \cup {j} /\ nextId' = nextId + 1
                /\ j.id = nextId /\ Told(op'[o], j)
                /\ OpenAttempt(j) = [id |-> nextId, ring |-> j.ring, version |-> j.version,
                                     prev |-> j.prev]
                /\ j.ring \in Ring /\ j.version \in VersionX /\ j.prev \in VersionX
                /\ op'[o].att = nextId /\ op'[o].pc \in {"deploy", "rbdeploy"}
<1> DEFINE me == op[o]
<1>0. /\ op \in [Procs -> OpRec] /\ op[o] \in OpRec /\ state \in [Ring -> Row]
      /\ \A r \in Ring : state[r].cur \in VersionX /\ state[r].prev \in VersionX
  BY DEF TypeOK, Row
<1>1. PICK act, r, from, v, prev :
        /\ JournalStart(o, act, r, from, v, prev) /\ r = op'[o].ring
        /\ r \in Ring /\ v \in VersionX /\ prev \in VersionX
        /\ \/ op'[o].version = v /\ op'[o].prev = prev
           \/ op'[o].version = prev /\ op'[o].prev = v
        /\ op'[o].att = nextId /\ op'[o].pc \in {"deploy", "rbdeploy"}
  <2> USE DEF Become, OpRec, NewAttempt
  <2>1. CASE BeginSeed(o)
    <3> DEFINE prev == state[me.ring].cur
    <3>1. /\ op' = [op EXCEPT ![o] = [me EXCEPT !.pc = "deploy", !.prev = prev,
                                                !.att = nextId]]
          /\ JournalStart(o, "seed", me.ring, 0, me.version, prev)
      BY <2>1 DEF BeginSeed, CurrentVersion
    <3>2. me.ring \in Ring /\ me.version \in VersionX /\ prev \in VersionX
      BY <1>0
    <3> HIDE DEF prev, Become, NewAttempt
    <3>3. /\ op'[o].ring = me.ring /\ op'[o].version = me.version /\ op'[o].prev = prev
          /\ op'[o].att = nextId /\ op'[o].pc = "deploy"
      BY <1>0, <3>1
    <3>4. QED
      BY <3>1, <3>2, <3>3
  <2>2. CASE BeginPromote(o)
    <3> DEFINE dst == NextRing(me.ring)
               v == DeployVersion(dst, state[me.ring].cur)
               prev == state[dst].cur
    <3>1. /\ op' = [op EXCEPT ![o] = [me EXCEPT !.pc = "deploy", !.ring = dst,
                       !.from = me.ring, !.version = v, !.prev = prev, !.ok = FALSE,
                       !.att = nextId]]
          /\ JournalStart(o, "promote", dst, me.ring, v, prev)
      BY <2>2 DEF BeginPromote
    <3>2. dst \in Ring
      BY <1>0, <2>2, HopTyped DEF BeginPromote, Promotable
    <3>3. v \in VersionX /\ prev \in VersionX
      BY <1>0, <3>2 DEF DeployVersion, VersionX
    <3> HIDE DEF dst, v, prev, Become, NewAttempt
    <3>4. /\ op'[o].ring = dst /\ op'[o].version = v /\ op'[o].prev = prev
          /\ op'[o].att = nextId /\ op'[o].pc = "deploy"
      BY <1>0, <3>1
    <3>5. QED
      BY <3>1, <3>2, <3>3, <3>4
  <2>3. CASE BeginRollback(o)
    <3> DEFINE row == state[me.ring]
    <3>1. /\ op' = [op EXCEPT ![o] = [me EXCEPT !.pc = "rbdeploy", !.version = row.cur,
                                                !.prev = row.prev, !.att = nextId]]
          /\ JournalStart(o, "rollback", me.ring, 0, row.prev, row.cur)
      BY <2>3 DEF BeginRollback
    <3>2. me.ring \in Ring /\ row.cur \in VersionX /\ row.prev \in VersionX
      BY <1>0
    <3> HIDE DEF row, Become, NewAttempt
    <3>3. /\ op'[o].ring = me.ring /\ op'[o].version = row.cur /\ op'[o].prev = row.prev
          /\ op'[o].att = nextId /\ op'[o].pc = "rbdeploy"
      BY <1>0, <3>1
    <3>4. QED
      BY <3>1, <3>2, <3>3
  <2>4. QED
    BY <2>1, <2>2, <2>3 DEF Begins
<1> DEFINE j == [id |-> nextId, act |-> act, ring |-> r, from |-> from,
                 version |-> v, prev |-> prev]
<1>2. journal' = journal \cup {j} /\ nextId' = nextId + 1
  BY <1>1 DEF JournalStart
<1>3. j.id = nextId /\ j.ring = r /\ j.version = v /\ j.prev = prev
  OBVIOUS
<1> HIDE DEF j
<1>4. Told(op'[o], j)
  BY <1>1, <1>3 DEF Told
<1>5. QED
  BY <1>1, <1>2, <1>3, <1>4 DEF OpenAttempt

LEMMA NotedStep ==
  ASSUME TypeOK, NEW o \in Procs, ~op[o].expired, Numbered, Shaped(o), Noted(o),
         StepInside(o)
  PROVE  Noted(o)'
<1> DEFINE me == op[o]
<1>0. /\ me \in OpRec /\ op \in [Procs -> OpRec] /\ state \in [Ring -> Row]
      /\ Shaped(o) /\ Noted(o) /\ ~me.expired
      /\ \A j \in journal : j.id # 0
  BY DEF TypeOK, Numbered
<1>b. Begins(o) => /\ op'[o].pc \in {"deploy", "rbdeploy"} /\ op'[o].att # 0
                   /\ \E j \in journal' : j.id = op'[o].att /\ Told(op'[o], j)
  BY BeginTold DEF TypeOK
<1> USE DEF Shaped, Noted, Told, Become, Goto, RollingBack, Deploying, Hopping, OpRec,
            storeVars
<1>1. CASE BeginSeed(o)
  BY <1>0, <1>b, <1>1 DEF Begins
<1>2. CASE BeginPromote(o)
  BY <1>0, <1>b, <1>2 DEF Begins
<1>3. CASE SourceUnhealthy(o)
  BY <1>0, <1>3 DEF SourceUnhealthy, Promotable
<1>4. CASE BeginRollback(o)
  BY <1>0, <1>b, <1>4 DEF Begins
<1>5. CASE BeginRestart(o)
  BY <1>0, <1>5 DEF BeginRestart
<1>6. CASE Refuse(o)
  BY <1>0, <1>6 DEF Refuse
<1>7. CASE DeployOk(o)
  BY <1>0, <1>7 DEF DeployOk, AfterDeploy
<1>8. CASE DeployFails(o)
  BY <1>0, <1>8 DEF DeployFails, FailedDeploy
<1>9. CASE RestartPods(o)
  <2>1. /\ me.pc = "restart" /\ UNCHANGED storeVars
        /\ Goto(o, "check") \/ Become(o, [me EXCEPT !.pc = "record", !.ok = FALSE])
    BY <1>9 DEF RestartPods
  <2>2. CASE Goto(o, "check")
    BY <1>0, <2>1, <2>2
  <2>3. CASE Become(o, [me EXCEPT !.pc = "record", !.ok = FALSE])
    BY <1>0, <2>1, <2>3
  <2>4. QED
    BY <2>1, <2>2, <2>3
<1>10. CASE Persist(o)
  BY <1>0, <1>10 DEF Persist, SaveState
<1>11. CASE CheckPasses(o)
  BY <1>0, <1>11 DEF CheckPasses, Recorded
<1>12. CASE CheckFails(o)
  BY <1>0, <1>12 DEF CheckFails
<1>13. CASE Save(o)
  BY <1>0, <1>13 DEF Save, SaveState
<1>14. CASE RecordOutcome(o)
  BY <1>0, <1>14 DEF RecordOutcome
<1>15. CASE RecordUnhealthy(o)
  BY <1>0, <1>15 DEF RecordUnhealthy
<1>16. CASE NothingToRestore(o)
  BY <1>0, <1>16 DEF NothingToRestore, SaveState
<1>17. CASE RollbackDeployOk(o)
  BY <1>0, <1>17 DEF RollbackDeployOk
<1>18. CASE RollbackDeployFails(o)
  BY <1>0, <1>18 DEF RollbackDeployFails
<1>19. CASE RollbackCheckPasses(o)
  BY <1>0, <1>19 DEF RollbackCheckPasses, Recorded
<1>20. CASE RollbackCheckFails(o)
  BY <1>0, <1>20 DEF RollbackCheckFails
<1>21. CASE RollbackSave(o)
  BY <1>0, <1>21 DEF RollbackSave, SaveState
<1>22. CASE RollbackRecord(o)
  BY <1>0, <1>22 DEF RollbackRecord
<1>23. CASE ClearAttempt(o)
  BY <1>0, <1>23 DEF ClearAttempt, ChainsOn
<1>24. CASE Chain(o)
  BY <1>0, <1>24 DEF Chain
<1>25. CASE Recheck(o)
  BY <1>0, <1>25 DEF Recheck, StillJournaled, Ids
<1>26. CASE Landed(o)
  BY <1>0, <1>26 DEF Landed
<1>27. CASE GiveUp(o)
  BY <1>0, <1>27 DEF GiveUp, GivenUp
<1>28. QED
  BY <1>1, <1>2, <1>3, <1>4, <1>5, <1>6, <1>7, <1>8, <1>9, <1>10,
     <1>11, <1>12, <1>13, <1>14, <1>15, <1>16, <1>17, <1>18, <1>19,
     <1>20, <1>21, <1>22, <1>23, <1>24, <1>25, <1>26, <1>27
     DEF StepInside, Step

-----------------------------------------------------------------------------
(* What happens to the other operations, and to the journal.               *)

LEMMA StepGrows ==
  ASSUME TypeOK, Accountable, NEW o \in Procs, Step(o)
  PROVE  \A j \in journal' : j \in journal \/ j.id = nextId
<1>1. CASE Quiet(o)
  BY <1>1, QuietUnchanged
<1>2. CASE Begins(o)
  BY <1>2, BeginIds
<1>3. CASE Records(o)
  BY <1>3, RecordsIds
<1>4. CASE LockRefused(o) \/ RecoverDropped(o) \/ ClearAttempt(o) \/ Finish(o)
  BY <1>4, RowsGo
<1>5. QED
  BY <1>1, <1>2, <1>3, <1>4, StepSorts

LEMMA StepApart ==
  ASSUME TypeOK, Accountable, Numbered, RowsApart, NEW o \in Procs, Step(o)
  PROVE  RowsApart'
<1>1. CASE Begins(o)
  <2>1. ~op[o].expired
    BY DEF Accountable, Answerable
  <2>2. PICK j : journal' = journal \cup {j} /\ j.id = nextId
    BY <1>1, <2>1, BeginIds
  <2>3. \A k \in journal : k.id # nextId
    BY DEF Numbered, TypeOK
  <2>4. QED
    BY <2>2, <2>3 DEF RowsApart
<1>2. CASE journal' \subseteq journal
  BY <1>2 DEF RowsApart
<1>3. CASE Quiet(o)
  BY <1>2, <1>3, QuietUnchanged
<1>4. QED
  BY <1>1, <1>2, <1>3, RecordsIds, RowsGo, StepSorts

LEMMA WaitingNoted ==
  ASSUME TypeOK, Numbered, NEW x \in Procs, ~Inside(x), op'[x] = op[x], Noted(x),
         \A j \in journal' : j \in journal \/ j.id = nextId
  PROVE  Noted(x)'
<1>1. op[x].rec # nextId
  BY DEF Numbered, TypeOK
<1>2. op[x].pc \in {"idle", "lock"}
  BY DEF Inside
<1>3. QED
  BY <1>1, <1>2 DEF Noted, Told, RollingBack, Deploying, Hopping

LEMMA UnconcernedNoted ==
  ASSUME UNCHANGED <<state, journal>>, NEW x \in Procs, op'[x] = op[x], Noted(x)
  PROVE  Noted(x)'
BY DEF Noted, Told

LEMMA IdleNoted ==
  ASSUME NEW x \in Procs, op'[x] = Idle
  PROVE  Noted(x)'
BY DEF Noted, Idle, RollingBack, Deploying, Hopping

\* An operation of the API that waits for the lock has noted nothing yet.
LEMMA AskedNoted ==
  ASSUME NEW x \in Procs, op'[x].pc = "lock", op'[x].kind # "recover"
  PROVE  Noted(x)'
BY DEF Noted, RollingBack, Deploying, Hopping

LEMMA StepLedger ==
  ASSUME TypeOK, OperationsSerialized, OperationsSerialized', AllShaped, Numbered,
         Accountable, LedgerInv, NEW o \in Procs, Step(o)
  PROVE  LedgerInv'
<1>0. /\ Shaped(o) /\ Noted(o) /\ Others(o) /\ ~op[o].expired
      /\ op[o] \in OpRec /\ op \in [Procs -> OpRec] /\ NoProc \notin Procs
      /\ RowsApart'
  BY StepOthers, StepApart, ProcAssumption
     DEF AllShaped, TypeOK, LedgerInv, AllNoted, Accountable, Answerable
<1>1. \A j \in journal' : j \in journal \/ j.id = nextId
  BY StepGrows
<1>2. CASE StepInside(o)
  <2>1. holder = o /\ Inside(o)
    BY <1>2, InsideStep DEF OperationsSerialized
  <2>2. Noted(o)'
    BY <1>0, <1>2, NotedStep
  <2>3. \A x \in Procs \ {o} : ~Inside(x) /\ op'[x] = op[x]
    BY <1>0, <2>1 DEF Others, OperationsSerialized
  <2>4. \A x \in Procs \ {o} : Noted(x)'
    BY <1>1, <2>3, WaitingNoted DEF LedgerInv, AllNoted
  <2>5. QED
    BY <1>0, <2>2, <2>4 DEF LedgerInv, AllNoted
<1>3. CASE AcquireLock(o)
  <2>1. /\ holder = NoProc /\ UNCHANGED <<state, journal>>
        /\ op[o].pc = "lock"
        /\ op' = [op EXCEPT ![o] = [op[o] EXCEPT !.pc =
                    IF op[o].kind = "recover" THEN "recheck" ELSE "begin"]]
    BY <1>3 DEF AcquireLock, Free, Goto, Become, storeVars
  <2>2. /\ op'[o].pc = (IF op[o].kind = "recover" THEN "recheck" ELSE "begin")
        /\ op'[o].rec = op[o].rec /\ op'[o].ring = op[o].ring
        /\ op'[o].kind = op[o].kind
        /\ op'[o].version = op[o].version /\ op'[o].prev = op[o].prev
    BY <1>0, <2>1 DEF OpRec
  <2>3. Noted(o)'
    BY <1>0, <2>1, <2>2 DEF Noted, Told, RollingBack, Deploying, Hopping
  <2>4. \A x \in Procs \ {o} : op'[x] = op[x]
    BY <1>0 DEF Others
  <2>5. \A x \in Procs \ {o} : Noted(x)'
    BY <2>1, <2>4, UnconcernedNoted DEF LedgerInv, AllNoted
  <2>6. QED
    BY <1>0, <2>3, <2>5 DEF LedgerInv, AllNoted
<1>4. CASE Finish(o)
  <2>1. op[o].pc = "finish" /\ op'[o] = Idle
    BY <1>0, <1>4 DEF Finish, Become
  <2>2. \A x \in Procs \ {o} : ~Inside(x) /\ op'[x] = op[x]
    BY <1>0, <2>1 DEF Inside, Others, OperationsSerialized
  <2>3. \A x \in Procs \ {o} : Noted(x)'
    BY <1>1, <2>2, WaitingNoted DEF LedgerInv, AllNoted
  <2>4. Noted(o)'
    BY <2>1, IdleNoted
  <2>5. QED
    BY <1>0, <2>3, <2>4 DEF LedgerInv, AllNoted
<1>5. CASE LockRefused(o)
  BY <1>0, <1>5 DEF LockRefused
<1>6. CASE RecoverDropped(o)
  BY <1>0, <1>6 DEF RecoverDropped, Dropped, Accountable, Answerable, OpRec
<1>7. QED
  BY <1>2, <1>3, <1>4, <1>5, <1>6, StepsSplit DEF StepOutside

LEMMA ElsewhereLedger ==
  ASSUME Timeouts = FALSE, TypeOK, LedgerInv, Elsewhere
  PROVE  LedgerInv'
<1>0. UNCHANGED <<state, journal>> /\ RowsApart'
  BY ElsewhereKeeps DEF LedgerInv, RowsApart
<1> SUFFICES ASSUME NEW x \in Procs
             PROVE  Noted(x)'
  BY <1>0 DEF LedgerInv, AllNoted
<1>1. Noted(x) /\ op \in [Procs -> OpRec]
  BY DEF LedgerInv, AllNoted, TypeOK
<1>2. CASE \E o \in Procs : Expire(o)
  BY <1>2 DEF Expire
<1>3. CASE \E o \in Procs, p \in Replicas, r \in Ring : Api(o, p, r)
  <2>1. PICK o \in Procs, p \in Replicas, r \in Ring : Api(o, p, r)
    BY <1>3
  <2>2. PICK kind, v : Request(o, p, kind, r, v)
    BY <2>1 DEF Api, RequestSeed, RequestPromote, RequestRollback, RequestRestart
  <2> DEFINE l == [Idle EXCEPT !.kind = kind, !.pc = "lock", !.home = p,
                               !.act = kind, !.ring = r, !.version = v]
  <2>3. kind # "recover" /\ op' = [op EXCEPT ![o] = l]
    BY <2>2, FaultAssumption DEF Request, ApiKind, Become
  <2>4. l.pc = "lock" /\ l.kind = kind
    BY DEF Idle
  <2> HIDE DEF l
  <2>5. CASE x = o
    BY <1>1, <2>3, <2>4, <2>5, AskedNoted
  <2>6. CASE x # o
    BY <1>0, <1>1, <2>3, <2>6, UnconcernedNoted
  <2>7. QED
    BY <2>5, <2>6
<1>4. CASE op' = op
  BY <1>0, <1>1, <1>4, UnconcernedNoted
<1>5. CASE \E p \in Replicas : Crash(p)
  <2>1. op'[x] = Idle \/ op'[x] = op[x]
    BY <1>5 DEF Crash
  <2>2. QED
    BY <1>0, <1>1, <2>1, UnconcernedNoted, IdleNoted
<1>6. CASE \E p \in Replicas : Boot(p)
  <2>1. PICK p \in Replicas : Boot(p)
    BY <1>6
  <2>2. PICK slot \in [Leftover -> IdleSlots] :
          op' = [o \in Procs |->
                   IF \E j \in Leftover : slot[j] = o
                   THEN RecoverOp(p, CHOOSE j \in Leftover : slot[j] = o)
                   ELSE op[o]]
    BY <2>1 DEF Boot
  <2>3. CASE \E j \in Leftover : slot[j] = x
    <3>1. PICK j \in journal : op'[x] = RecoverOp(p, j)
      BY <2>2, <2>3 DEF Leftover
    <3>2. /\ op'[x].pc = "lock" /\ op'[x].rec = j.id /\ op'[x].ring = j.ring
          /\ op'[x].version = j.version /\ op'[x].prev = j.prev
      BY <3>1 DEF RecoverOp, Idle
    <3>3. \A k \in journal : k.id = j.id => k = j
      BY DEF LedgerInv, RowsApart
    <3>4. QED
      BY <1>0, <3>2, <3>3 DEF Noted, Told, RollingBack, Deploying, Hopping
  <2>4. CASE ~\E j \in Leftover : slot[j] = x
    BY <1>0, <1>1, <2>2, <2>4, UnconcernedNoted
  <2>5. QED
    BY <2>3, <2>4
<1>7. QED
  BY <1>2, <1>3, <1>4, <1>5, <1>6 DEF Elsewhere, SetAutoPromote, Land, vars

LEMMA NextLedger ==
  ASSUME Timeouts = FALSE
  PROVE  /\ TypeOK /\ OperationsSerialized /\ AllShaped /\ Numbered /\ Accountable
         /\ LedgerInv /\ [Next]_vars /\ OperationsSerialized'
         => LedgerInv'
BY StepLedger, ElsewhereLedger, NextSplit

-----------------------------------------------------------------------------
(* Each step of the engine is one of the ledger, or none.                  *)

\* Nothing the ledger is about changes.
LEMMA NoEntry ==
  ASSUME UNCHANGED <<holder, live, journal, history, nextId, orphans>>,
         \A r \in Ring : VersionsOf(state'[r]) = VersionsOf(state[r])
  PROVE  UNCHANGED Book!vars
<1>1. [r \in Ring |-> VersionsOf(state'[r])] = [r \in Ring |-> VersionsOf(state[r])]
  OBVIOUS
<1>2. Logged' = Logged
  BY DEF Logged
<1>3. {OpenAttempt(j) : j \in journal'} = {OpenAttempt(j) : j \in journal}
  OBVIOUS
<1>4. QED
  BY <1>1, <1>2, <1>3 DEF Book!vars

LEMMA TakesTurn ==
  ASSUME TypeOK, NEW o \in Procs, AcquireLock(o)
  PROVE  Book!Next
<1>1. /\ holder = NoProc /\ holder' = o
      /\ UNCHANGED <<state, journal, history, nextId, live, orphans>>
  BY DEF AcquireLock, Free, storeVars, worldVars
<1>2. Logged' = Logged
  BY <1>1 DEF Logged
<1>3. Book!Take(o)
  BY <1>1, <1>2 DEF Book!Take
<1>4. QED
  BY <1>3 DEF Book!Next

LEMMA WritesDown ==
  ASSUME TypeOK, NEW o \in Procs, ~op[o].expired, holder = o, Begins(o)
  PROVE  Book!Next
<1>1. PICK j : /\ journal' = journal \cup {j} /\ nextId' = nextId + 1
               /\ OpenAttempt(j) = [id |-> nextId, ring |-> j.ring, version |-> j.version,
                                    prev |-> j.prev]
               /\ j.ring \in Ring /\ j.version \in VersionX /\ j.prev \in VersionX
  BY BeginTold
<1>2. UNCHANGED <<holder, state, history, live, orphans>>
  BY DEF Begins, BeginSeed, BeginPromote, BeginRollback, worldVars
<1>3. holder # NoProc /\ Logged' = Logged /\ nextId \in Nat
  BY <1>2, ProcAssumption DEF Logged, TypeOK
<1>4. {OpenAttempt(k) : k \in journal'} = {OpenAttempt(k) : k \in journal} \cup {OpenAttempt(j)}
  BY <1>1
<1>5. nextId' - 1 = (nextId - 1) + 1 /\ nextId' - 1 = nextId
  BY <1>1, <1>3
<1>6. Book!Write(j.ring, j.version, j.prev)
  BY <1>1, <1>2, <1>3, <1>4, <1>5 DEF Book!Write
<1>7. QED
  BY <1>1, <1>6 DEF Book!Next

\* A version of the attempt comes to its ring.
LEMMA Ships ==
  ASSUME TypeOK, TypeOK', NEW o \in Procs, holder = o,
         NEW j \in journal, Told(op[o], j), NEW v \in {op[o].version, op[o].prev},
         Lands(op[o].ring, v), UNCHANGED <<holder, state, journal, history, nextId>>
  PROVE  Book!Next
<1> DEFINE r == op[o].ring
<1>1. PICK build \in Shipped(r, v) : live' = [live EXCEPT ![r] = build] /\ orphans' = orphans
  BY DEF Lands
<1>2. r \in Ring /\ v \in VersionX /\ holder # NoProc /\ Logged' = Logged
  BY ProcAssumption DEF TypeOK, OpRec, Logged
<1>3. build \in VersionX /\ (r \in Pinned \/ build = v)
  BY <1>1, <1>2 DEF Shipped, VersionX
<1> DEFINE d == [ring |-> r, version |-> build]
<1>4. d \in Book!Deploy /\ d.ring = r /\ d.version = build
  BY <1>2, <1>3 DEF Book!Deploy
<1>5. Book!Written(d)
  <2>1. OpenAttempt(j).ring = j.ring /\ OpenAttempt(j).version = j.version
        /\ OpenAttempt(j).prev = j.prev
    BY DEF OpenAttempt
  <2>2. r \in Pinned \/ build \in {j.version, j.prev}
    BY <1>3 DEF Told
  <2> HIDE DEF d
  <2>3. QED
    BY <1>4, <2>1, <2>2 DEF Book!Written, Told
<1> HIDE DEF d
<1>6. Book!Ship(d)
  BY <1>1, <1>2, <1>4, <1>5 DEF Book!Ship
<1>7. QED
  BY <1>4, <1>6 DEF Book!Next

\* Nobody waits for it any longer.
LEMMA Abandons ==
  ASSUME TypeOK, NEW o \in Procs, holder = o,
         NEW j \in journal, Told(op[o], j), NEW v \in {op[o].version, op[o].prev},
         orphans' = orphans \cup {[ring |-> op[o].ring, version |-> v]},
         UNCHANGED <<holder, state, journal, history, nextId, live>>
  PROVE  Book!Next
<1> DEFINE r == op[o].ring
           d == [ring |-> r, version |-> v]
<1>2. r \in Ring /\ v \in VersionX /\ holder # NoProc /\ Logged' = Logged
  BY ProcAssumption DEF TypeOK, OpRec, Logged
<1>4. d \in Book!Deploy /\ d.ring = r /\ d.version = v
  BY <1>2 DEF Book!Deploy
<1>5. Book!Written(d)
  <2>1. OpenAttempt(j).ring = j.ring /\ OpenAttempt(j).version = j.version
        /\ OpenAttempt(j).prev = j.prev
    BY DEF OpenAttempt
  <2>2. r \in Pinned \/ v \in {j.version, j.prev}
    BY DEF Told
  <2> HIDE DEF d
  <2>3. QED
    BY <1>4, <2>1, <2>2 DEF Book!Written, Told
<1> HIDE DEF d
<1>6. orphans' = orphans \cup {d}
  BY DEF d
<1>7. Book!Abandon(d)
  BY <1>2, <1>4, <1>5, <1>6 DEF Book!Abandon
<1>8. QED
  BY <1>4, <1>7 DEF Book!Next

\* The versions of the attempt are recorded.
LEMMA SavesVersions ==
  ASSUME TypeOK, NEW o \in Procs, ~op[o].expired, holder = o,
         NEW j \in journal, Told(op[o], j), NEW cur, NEW prev, NEW ok,
         <<cur, prev>> \in {<<op[o].version, op[o].prev>>, <<op[o].prev, op[o].version>>},
         SaveState(o, op[o].ring, prev, cur, ok),
         UNCHANGED <<holder, live, journal, history, nextId, orphans>>
  PROVE  Book!Next
<1> DEFINE r == op[o].ring
<1>1. /\ state' = [state EXCEPT ![r] = [cur |-> cur, prev |-> prev, healthy |-> ok]]
      /\ state \in [Ring -> Row] /\ r \in Ring /\ cur \in VersionX /\ prev \in VersionX
      /\ holder # NoProc /\ Logged' = Logged
  BY ProcAssumption DEF SaveState, TypeOK, OpRec, Logged
<1>2. [q \in Ring |-> VersionsOf(state'[q])]
        = [[q \in Ring |-> VersionsOf(state[q])] EXCEPT ![r] = <<cur, prev>>]
  BY <1>1 DEF VersionsOf
<1>3. Book!Recordable(r, cur, prev)
  <2>1. OpenAttempt(j).ring = j.ring /\ OpenAttempt(j).version = j.version
        /\ OpenAttempt(j).prev = j.prev
    BY DEF OpenAttempt
  <2>2. r \in Pinned \/ <<cur, prev>> \in {<<j.version, j.prev>>, <<j.prev, j.version>>}
    BY DEF Told
  <2>3. QED
    BY <2>1, <2>2 DEF Book!Recordable, Told
<1>4. Book!Record(r, cur, prev)
  BY <1>1, <1>2, <1>3 DEF Book!Record
<1>5. QED
  BY <1>1, <1>4 DEF Book!Next

\* The attempt gets an entry in the history; an operation without one adds
\* none that counts.
LEMMA Reports ==
  ASSUME TypeOK, NEW o \in Procs, ~op[o].expired, holder = o, Numbered,
         op[o].att # 0 => \E j \in journal : j.id = op[o].att,
         NEW act, NEW to, NEW ok, Record(o, act, to, ok),
         UNCHANGED <<holder, state, live, journal, nextId, orphans>>
  PROVE  [Book!Next]_(Book!vars)
<1>1. Logged' = Logged \cup {op[o].att} /\ holder # NoProc
  BY RecordLogs, ProcAssumption
<1>2. CASE op[o].att = 0
  <2>1. Logged' \ {0} = Logged \ {0}
    BY <1>1, <1>2
  <2>2. QED
    BY <2>1 DEF Book!vars
<1>3. CASE op[o].att # 0
  <2>1. PICK j \in journal : j.id = op[o].att
    BY <1>3
  <2> DEFINE t == OpenAttempt(j)
  <2>2. t \in {OpenAttempt(k) : k \in journal} /\ t.id = op[o].att
    BY <2>1 DEF OpenAttempt
  <2> HIDE DEF t
  <2>3. Logged' \ {0} = (Logged \ {0}) \cup {t.id}
    BY <1>1, <1>3, <2>2
  <2>4. Book!Report(t)
    BY <1>1, <2>2, <2>3 DEF Book!Report
  <2>5. QED
    BY <2>2, <2>4 DEF Book!Next
<1>4. QED
  BY <1>2, <1>3

\* What is cleared has been reported.
LEMMA Closes ==
  ASSUME TypeOK, Numbered, holder # NoProc, NEW id \in Logged \cup {0}, JournalEnd(id),
         UNCHANGED <<state, live, history, nextId, orphans>>, holder' \in {holder, NoProc}
  PROVE  Book!Next
<1> DEFINE open == {OpenAttempt(j) : j \in journal}
           done == {t \in open : t.id = id}
<1>1. \A j : OpenAttempt(j).id = j.id
  BY DEF OpenAttempt
<1>2. \A j \in journal : j.id # 0
  BY DEF Numbered
<1>3. \A t \in done : t.id \in Logged \ {0}
  BY <1>1, <1>2
<1>4. {OpenAttempt(j) : j \in journal'} = open \ done
  BY <1>1 DEF JournalEnd
<1>5. Logged' = Logged /\ done \in SUBSET open
  BY DEF Logged
<1> HIDE DEF done
<1>6. Book!Close(done)
  BY <1>3, <1>4, <1>5 DEF Book!Close
<1>7. QED
  BY <1>5, <1>6 DEF Book!Next

LEMMA RowAtHand ==
  ASSUME NEW o \in Procs, Noted(o),
         op[o].pc \in {"deploy", "persist", "unhealthy", "resave", "await"} \cup RollingBack
  PROVE  \E j \in journal : j.id = op[o].att /\ Told(op[o], j)
BY DEF Noted, RollingBack, Deploying, Hopping

LEMMA DeploysEntered ==
  ASSUME TypeOK, TypeOK', NEW o \in Procs, holder = o, Noted(o),
         \/ DeployOk(o) \/ DeployFails(o)
         \/ RollbackDeployOk(o) \/ RollbackDeployFails(o)
  PROVE  [Book!Next]_(Book!vars)
<1>1. PICK v \in {op[o].version, op[o].prev} :
        /\ op[o].pc \in {"deploy", "rbdeploy"}
        /\ Lands(op[o].ring, v) \/ DeployError(op[o].ring, v)
        /\ UNCHANGED <<holder, state, journal, history, nextId>>
  BY DEF DeployOk, DeployFails, RollbackDeployOk, RollbackDeployFails, storeVars
<1>2. PICK j \in journal : Told(op[o], j)
  BY <1>1, RowAtHand DEF RollingBack
<1>3. CASE Lands(op[o].ring, v)
  BY <1>1, <1>2, <1>3, Ships
<1>4. CASE UNCHANGED worldVars
  BY <1>1, <1>4, NoEntry DEF worldVars
<1>5. CASE UNCHANGED live /\ orphans' = orphans \cup {[ring |-> op[o].ring, version |-> v]}
  BY <1>1, <1>2, <1>5, Abandons
<1>6. QED
  BY <1>1, <1>3, <1>4, <1>5 DEF DeployError

LEMMA SavesEntered ==
  ASSUME TypeOK, NEW o \in Procs, ~op[o].expired, holder = o, Noted(o), Saves(o)
  PROVE  [Book!Next]_(Book!vars)
<1> DEFINE me == op[o]
<1>1. PICK cur, prev, ok :
        /\ SaveState(o, me.ring, prev, cur, ok)
        /\ <<cur, prev>> \in {<<me.version, me.prev>>, <<me.prev, me.version>>}
        /\ me.pc = "save" => cur = me.version /\ prev = me.prev
        /\ me.pc \in {"persist", "save", "resave", "rbsave"}
        /\ UNCHANGED <<holder, live, journal, history, nextId, orphans>>
  BY DEF Saves, Persist, Save, NothingToRestore, RollbackSave, Left, worldVars
<1>2. CASE me.att # 0
  <2>1. PICK j \in journal : Told(me, j)
    BY <1>1, <1>2 DEF Noted, RollingBack, Deploying, Hopping
  <2>2. QED
    BY <1>1, <2>1, SavesVersions
<1>3. CASE me.att = 0
  <2>1. /\ me.pc = "save" /\ me.kind # "recover" /\ me.act = "restart"
        /\ me.version = state[me.ring].cur /\ me.prev = state[me.ring].prev
    BY <1>1, <1>3 DEF Noted, RollingBack
  <2>2. /\ state' = [state EXCEPT ![me.ring] = [cur |-> me.version, prev |-> me.prev,
                                                healthy |-> ok]]
        /\ state \in [Ring -> Row] /\ me.ring \in Ring
    BY <1>1, <2>1 DEF SaveState, TypeOK, OpRec
  <2>3. \A r \in Ring : VersionsOf(state'[r]) = VersionsOf(state[r])
    BY <2>1, <2>2 DEF VersionsOf
  <2>4. QED
    BY <1>1, <2>3, NoEntry
<1>4. QED
  BY <1>2, <1>3

LEMMA RecordsEntered ==
  ASSUME TypeOK, NEW o \in Procs, ~op[o].expired, holder = o, Noted(o), Numbered, Records(o)
  PROVE  [Book!Next]_(Book!vars)
<1>1. PICK act, to, ok :
        /\ Record(o, act, to, ok)
        /\ op[o].pc \in {"record", "unhealthy", "rbrecord"}
        /\ UNCHANGED <<holder, state, live, journal, nextId, orphans>>
  BY DEF Records, RecordOutcome, RecordUnhealthy, RollbackRecord, worldVars
<1>2. op[o].att # 0 => \E j \in journal : j.id = op[o].att
  BY <1>1 DEF Noted, RollingBack, Deploying, Hopping
<1>3. QED
  BY <1>1, <1>2, Reports

LEMMA ClosesEntered ==
  ASSUME TypeOK, NEW o \in Procs, holder = o, Answerable(o), Numbered,
         ClearAttempt(o) \/ Finish(o)
  PROVE  [Book!Next]_(Book!vars)
<1>0. holder # NoProc /\ op[o].att \in Nat /\ op[o].rec \in Nat
  BY ProcAssumption DEF TypeOK, OpRec
<1>1. CASE Finish(o)
  <2>1. /\ op[o].rec \in Logged \cup {0} /\ JournalEnd(op[o].rec) /\ holder' = NoProc
        /\ UNCHANGED <<state, live, history, nextId, orphans>>
    BY <1>1 DEF Finish, Answerable, Resolving, worldVars
  <2>2. QED
    BY <1>0, <2>1, Closes
<1>2. CASE ClearAttempt(o) /\ JournalEnd(op[o].att)
  <2>1. /\ op[o].att \in Logged \cup {0} /\ holder' = holder
        /\ UNCHANGED <<state, live, history, nextId, orphans>>
    BY <1>2 DEF ClearAttempt, Answerable, worldVars
  <2>2. QED
    BY <1>0, <1>2, <2>1, Closes
<1>3. CASE ClearAttempt(o) /\ UNCHANGED journal
  BY <1>3, NoEntry DEF ClearAttempt, worldVars
<1>4. QED
  BY <1>1, <1>2, <1>3 DEF ClearAttempt

\* The steps the ledger does not see.
Unseen(o) ==
  \/ BeginRestart(o) \/ SourceUnhealthy(o) \/ Refuse(o) \/ RestartPods(o)
  \/ CheckPasses(o) \/ CheckFails(o)
  \/ RollbackCheckPasses(o) \/ RollbackCheckFails(o)
  \/ Chain(o) \/ Recheck(o) \/ Landed(o) \/ GiveUp(o)

LEMMA UnseenKeeps ==
  ASSUME TypeOK, NEW o \in Procs, Unseen(o)
  PROVE  UNCHANGED Book!vars
<1>1. CASE SourceUnhealthy(o)
  <2>1. /\ state' = [state EXCEPT ![op[o].ring].healthy = FALSE]
        /\ UNCHANGED <<holder, live, journal, history, nextId, orphans>>
        /\ state \in [Ring -> Row]
    BY <1>1 DEF SourceUnhealthy, TypeOK, worldVars
  <2>2. \A r \in Ring : VersionsOf(state'[r]) = VersionsOf(state[r])
    BY <2>1 DEF VersionsOf, Row
  <2>3. QED
    BY <2>1, <2>2, NoEntry
<1>2. CASE ~SourceUnhealthy(o)
  <2>1. UNCHANGED <<storeVars, holder, worldVars>>
    BY <1>2 DEF Unseen, BeginRestart, Refuse, RestartPods, CheckPasses, CheckFails,
           RollbackCheckPasses, RollbackCheckFails, Chain, Recheck, Landed, GiveUp
  <2>2. QED
    BY <2>1, NoEntry DEF storeVars, worldVars
<1>3. QED
  BY <1>1, <1>2

LEMMA StepEntered ==
  ASSUME TypeOK, TypeOK', OperationsSerialized, AllShaped, Numbered, Accountable,
         LedgerInv, NEW o \in Procs, Step(o)
  PROVE  [Book!Next]_(Book!vars)
<1>0. /\ ~op[o].expired /\ Answerable(o) /\ Noted(o)
  BY DEF Accountable, Answerable, LedgerInv, AllNoted
<1>1. CASE AcquireLock(o)
  BY <1>1, TakesTurn
<1>2. CASE LockRefused(o)
  BY <1>0, <1>2 DEF LockRefused
<1>3. CASE RecoverDropped(o)
  BY <1>0, <1>3 DEF RecoverDropped, Dropped, Accountable, Answerable, TypeOK, OpRec
<1>4. CASE StepInside(o) \/ Finish(o)
  <2>1. holder = o
    BY <1>4, InsideStep DEF OperationsSerialized
  <2>2. CASE Begins(o)
    BY <1>0, <2>1, <2>2, WritesDown
  <2>3. CASE DeployOk(o) \/ DeployFails(o) \/ RollbackDeployOk(o) \/ RollbackDeployFails(o)
    BY <1>0, <2>1, <2>3, DeploysEntered
  <2>4. CASE Saves(o)
    BY <1>0, <2>1, <2>4, SavesEntered
  <2>5. CASE Records(o)
    BY <1>0, <2>1, <2>5, RecordsEntered
  <2>6. CASE ClearAttempt(o) \/ Finish(o)
    BY <1>0, <2>1, <2>6, ClosesEntered
  <2>7. CASE Unseen(o)
    BY <2>7, UnseenKeeps
  <2>8. QED
    BY <1>4, <2>2, <2>3, <2>4, <2>5, <2>6, <2>7
       DEF StepInside, Step, Begins, Saves, Records, Unseen
<1>5. QED
  BY <1>1, <1>2, <1>3, <1>4, StepsSplit DEF StepOutside

LEMMA CrashEntered ==
  ASSUME TypeOK, OperationsSerialized, LedgerInv, NEW p \in Replicas, Crash(p)
  PROVE  [Book!Next]_(Book!vars)
<1>1. /\ UNCHANGED <<state, history, journal, live, nextId>>
      /\ holder' = IF holder \in OpsOf(p) THEN NoProc ELSE holder
      /\ orphans' = orphans \/ orphans' = orphans \cup InFlight(p)
  BY DEF Crash, storeVars, LockAfterCrash
<1>2. Logged' = Logged
  BY <1>1 DEF Logged
<1>3. \A d \in InFlight(p) :
        \E o \in OpsOf(p) : \E v \in {op[o].version, op[o].prev} :
          /\ op[o].pc \in {"deploy", "rbdeploy"} /\ holder = o
          /\ d = [ring |-> op[o].ring, version |-> v]
  BY DEF InFlight, OpsOf, OperationsSerialized, Inside
<1>4. CASE holder \notin OpsOf(p)
  <2>1. InFlight(p) = {}
    BY <1>3, <1>4
  <2>2. QED
    BY <1>1, <1>4, <2>1, NoEntry
<1>5. CASE holder \in OpsOf(p)
  <2>1. ASSUME NEW d \in InFlight(p)
        PROVE  d \in Book!Deploy /\ Book!Written(d)
    <3>1. PICK o \in OpsOf(p) : \E v \in {op[o].version, op[o].prev} :
            /\ op[o].pc \in {"deploy", "rbdeploy"} /\ holder = o
            /\ d = [ring |-> op[o].ring, version |-> v]
      BY <1>3
    <3> DEFINE v == d.version
    <3>2. /\ o \in Procs /\ op[o] \in OpRec
          /\ v \in {op[o].version, op[o].prev} /\ d = [ring |-> op[o].ring, version |-> v]
      BY <3>1 DEF OpsOf, TypeOK
    <3> HIDE DEF v
    <3>3. PICK j \in journal : Told(op[o], j)
      BY <3>1, <3>2, RowAtHand DEF RollingBack, LedgerInv, AllNoted
    <3>4. /\ d.ring = op[o].ring /\ d.version = v
          /\ op[o].ring \in Ring /\ v \in VersionX
      BY <3>1, <3>2 DEF OpRec
    <3>5. d \in Book!Deploy
      BY <3>1, <3>4 DEF Book!Deploy
    <3>6. OpenAttempt(j).ring = j.ring /\ OpenAttempt(j).version = j.version
          /\ OpenAttempt(j).prev = j.prev
      BY DEF OpenAttempt
    <3>7. d.ring \in Pinned \/ v \in {j.version, j.prev}
      BY <3>1, <3>3, <3>4 DEF Told
    <3>8. QED
      BY <3>3, <3>4, <3>5, <3>6, <3>7 DEF Book!Written, Told
  <2>2. PICK lost \in {{}, InFlight(p)} : orphans' = orphans \cup lost
    BY <1>1
  <2>3. lost \in SUBSET Book!Deploy /\ \A d \in lost : Book!Written(d)
    BY <2>1, <2>2
  <2>4. holder # NoProc /\ holder' = NoProc
    BY <1>1, <1>5, ProcAssumption DEF OpsOf
  <2>5. Book!Die
    BY <1>1, <1>2, <2>2, <2>3, <2>4 DEF Book!Die
  <2>6. QED
    BY <2>5 DEF Book!Next
<1>6. QED
  BY <1>4, <1>5

LEMMA LandEntered ==
  ASSUME TypeOK, NEW d \in orphans, Land(d)
  PROVE  Book!Next
<1>1. /\ orphans' = orphans \ {d} /\ UNCHANGED <<holder, state, history, journal, nextId>>
      /\ d \in [ring : Ring, version : VersionX]
  BY DEF Land, storeVars, TypeOK
<1>2. PICK build \in Shipped(d.ring, d.version) : live' = [live EXCEPT ![d.ring] = build]
  BY DEF Land
<1>3. build \in VersionX /\ (d.ring \in Pinned \/ build = d.version)
  BY <1>1, <1>2 DEF Shipped, VersionX
<1>4. Logged' = Logged
  BY <1>1 DEF Logged
<1>5. Book!Land(d) /\ d \in Book!Deploy
  BY <1>1, <1>2, <1>3, <1>4 DEF Book!Land, Book!Deploy
<1>6. QED
  BY <1>5 DEF Book!Next

LEMMA NextEntered ==
  ASSUME Timeouts = FALSE
  PROVE  /\ TypeOK /\ TypeOK' /\ OperationsSerialized /\ AllShaped /\ Numbered
         /\ Accountable /\ LedgerInv /\ [Next]_vars
         => [Book!Next]_(Book!vars)
<1> SUFFICES ASSUME TypeOK, TypeOK', OperationsSerialized, AllShaped, Numbered,
                    Accountable, LedgerInv, [Next]_vars
             PROVE  [Book!Next]_(Book!vars)
  OBVIOUS
<1>1. CASE \E o \in Procs : Step(o)
  BY <1>1, StepEntered
<1>2. CASE \E o \in Procs : Expire(o)
  BY <1>2 DEF Expire
<1>3. CASE \/ \E o \in Procs, p \in Replicas, r \in Ring : Api(o, p, r)
           \/ \E p \in Replicas, r \in Ring, b \in BOOLEAN : SetAutoPromote(p, r, b)
           \/ \E p \in Replicas : Boot(p)
           \/ UNCHANGED vars
  <2> USE DEF storeVars, worldVars
  <2>1. CASE \E o \in Procs, p \in Replicas, r \in Ring : Api(o, p, r)
    <3>1. \E o, p, kind, r, v : Request(o, p, kind, r, v)
      BY <2>1 DEF Api, RequestSeed, RequestPromote, RequestRollback, RequestRestart
    <3>2. UNCHANGED <<holder, state, live, journal, history, nextId, orphans>>
      BY <3>1 DEF Request
    <3>3. QED
      BY <3>2, NoEntry
  <2>2. CASE \E p \in Replicas, r \in Ring, b \in BOOLEAN : SetAutoPromote(p, r, b)
    BY <2>2, NoEntry DEF SetAutoPromote
  <2>3. CASE \E p \in Replicas : Boot(p)
    BY <2>3, NoEntry DEF Boot
  <2>4. CASE UNCHANGED vars
    BY <2>4, NoEntry DEF vars
  <2>5. QED
    BY <1>3, <2>1, <2>2, <2>3, <2>4
<1>4. CASE \E p \in Replicas : Crash(p)
  BY <1>4, CrashEntered
<1>5. CASE \E d \in orphans : Land(d)
  BY <1>5, LandEntered
<1>6. QED
  BY <1>1, <1>2, <1>3, <1>4, <1>5, NextSplit DEF Elsewhere

\* The engine implements the ledger, as long as no operation runs out of time
\* and no ring is dropped from the configuration: whichever process dies between
\* the journal row, the deploy, the saved state and the history entry, and
\* however a deploy fails or lands late, no cluster and no row changes to a
\* version that is not written down, and no attempt is cleared unreported.
THEOREM EngineKeepsTheLedger ==
  ASSUME Timeouts = FALSE, Removable = {}
  PROVE  Spec => ImplementsLedger
<1>1. Init => AllShaped /\ Numbered /\ Accountable /\ LedgerInv /\ Book!Init
  <2> SUFFICES ASSUME Init
               PROVE  LedgerInv /\ Book!Init
    BY NobodyInside, InitAccountable
  <2>1. \A o \in Procs : op[o].pc = "idle"
    BY DEF Init, Idle
  <2>2. \A o \in Procs : Noted(o)
    BY <2>1 DEF Noted, RollingBack, Deploying, Hopping
  <2>3. journal = {} /\ Logged = {} /\ nextId = 1 /\ holder = NoProc /\ orphans = {}
    BY DEF Init, Logged
  <2>4. /\ state \in [Ring -> Row] /\ live = [r \in Ring |-> state[r].cur]
    BY DEF Init
  <2>5. Book!Init
    <3> DEFINE row == [r \in Ring |-> VersionsOf(state[r])]
    <3>1. row \in [Ring -> VersionX \X VersionX]
      BY <2>4 DEF VersionsOf, Row
    <3>2. live = [r \in Ring |-> row[r][1]]
      BY <2>4 DEF VersionsOf
    <3>3. /\ {OpenAttempt(j) : j \in journal} = {} /\ Logged \ {0} = {}
          /\ nextId - 1 = 0
      BY <2>3
    <3>4. QED
      BY <2>3, <3>1, <3>2, <3>3 DEF Book!Init
  <2>6. QED
    BY <2>2, <2>3, <2>5 DEF LedgerInv, RowsApart, AllNoted
<1>2. TypeOK /\ Accountable /\ [Next]_vars => Accountable'
  BY NextAccountable
<1>3. /\ TypeOK /\ OperationsSerialized /\ AllShaped /\ Numbered /\ Accountable
      /\ LedgerInv /\ [Next]_vars /\ OperationsSerialized'
      => LedgerInv'
  BY NextLedger
<1>4. /\ TypeOK /\ TypeOK' /\ OperationsSerialized /\ AllShaped /\ Numbered
      /\ Accountable /\ LedgerInv /\ [Next]_vars
      => [Book!Next]_(Book!vars)
  BY NextEntered
<1>5. QED
  BY <1>1, <1>2, <1>3, <1>4, TypeCorrect, Serialized, NextShaped, NextNumbered, PTL
     DEF Spec, ImplementsLedger, Book!Spec
=============================================================================
