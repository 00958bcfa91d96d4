--------------------------- MODULE PromoterProofs ---------------------------
(***************************************************************************)
(* Theorems about the promotion engine, for every pipeline length, every   *)
(* set of rings, versions, replicas and operation slots, and every bound:  *)
(* its types, its lock, and that no journaled attempt is lost.             *)
(***************************************************************************)
EXTENDS PromoterProperties, TLAPS

USE DEF Ring, HasNext, NextRing

-----------------------------------------------------------------------------
(* Typing of the pieces the actions are built from. *)

\* An operation's locals are typed, and the row of its ring is.
LEMMA Locals ==
  ASSUME TypeOK, NEW o \in Procs
  PROVE  op[o] \in OpRec /\ state[op[o].ring] \in Row
BY DEF TypeOK, OpRec

\* Become and Goto keep the type of op.
LEMMA BecomeTyped ==
  ASSUME TypeOK, NEW o \in Procs, NEW l \in OpRec, Become(o, l)
  PROVE  op' \in [Procs -> OpRec]
BY DEF TypeOK, Become

LEMMA GotoTyped ==
  ASSUME TypeOK, NEW o \in Procs, NEW pc \in PC, Goto(o, pc)
  PROVE  op' \in [Procs -> OpRec]
<1>1. [op[o] EXCEPT !.pc = pc] \in OpRec
  BY ZenonT(40) DEF TypeOK, OpRec
<1>2. QED
  BY <1>1, BecomeTyped DEF Goto

LEMMA IdleTyped == Idle \in OpRec
BY NumRingsAssumption, ProcAssumption
   DEF Idle, OpRec, Kind, ApiKind, PC, VersionX

\* saveState and record keep the types of the store.
LEMMA SaveTyped ==
  ASSUME TypeOK, NEW o \in Procs, NEW r \in Ring,
         NEW prev \in VersionX, NEW cur \in VersionX, NEW healthy \in BOOLEAN,
         SaveState(o, r, prev, cur, healthy)
  PROVE  state' \in [Ring -> Row]
<1>1. [cur |-> cur, prev |-> prev, healthy |-> healthy] \in Row
  BY DEF Row
<1>2. QED
  BY <1>1 DEF TypeOK, SaveState

LEMMA RecordTyped ==
  ASSUME TypeOK, NEW o \in Procs, NEW act \in ApiKind, NEW to \in VersionX,
         NEW ok \in BOOLEAN, Record(o, act, to, ok)
  PROVE  history' \in Seq(Entry)
<1>1. [id |-> op[o].att, act |-> act, ring |-> op[o].ring,
       to |-> to, result |-> IF ok THEN "success" ELSE "failure"] \in Entry
  BY DEF TypeOK, OpRec, Entry
<1>2. QED
  BY <1>1 DEF TypeOK, Record

LEMMA JournalStartTyped ==
  ASSUME TypeOK, NEW o \in Procs, NEW act \in ApiKind, NEW r \in Ring,
         NEW from \in Ring \cup {0}, NEW v \in VersionX, NEW prev \in VersionX,
         JournalStart(o, act, r, from, v, prev)
  PROVE  journal' \subseteq JournalRec /\ nextId' \in Nat \ {0}
<1>1. [id |-> nextId, act |-> act, ring |-> r, from |-> from,
       version |-> v, prev |-> prev] \in JournalRec
  BY DEF TypeOK, JournalRec
<1>2. QED
  BY <1>1 DEF TypeOK, JournalStart

LEMMA JournalEndTyped ==
  ASSUME TypeOK, NEW id, JournalEnd(id)
  PROVE  journal' \subseteq JournalRec
BY DEF TypeOK, JournalEnd

LEMMA AttemptTyped == TypeOK => \A o \in Procs : NewAttempt(o) \in Nat
BY DEF TypeOK, NewAttempt

\* A deploy leaves typed versions behind.
LEMMA LandsTyped ==
  ASSUME TypeOK, NEW r \in Ring, NEW v \in VersionX,
         NEW build \in Shipped(r, v)
  PROVE  [live EXCEPT ![r] = build] \in [Ring -> VersionX]
BY DEF TypeOK, Shipped, VersionX

LEMMA DeployErrorTyped ==
  ASSUME TypeOK, NEW r \in Ring, NEW v \in VersionX,
         Lands(r, v) \/ DeployError(r, v)
  PROVE  /\ live' \in [Ring -> VersionX]
         /\ orphans' \subseteq [ring : Ring, version : VersionX]
BY LandsTyped DEF TypeOK, DeployError, Lands, worldVars

LEMMA RecordedTyped ==
  ASSUME TypeOK, NEW r \in Ring, NEW v \in VersionX
  PROVE  Recorded(r, v) \subseteq VersionX
BY DEF TypeOK, Recorded

\* The rings a hop is about are rings, and their rows are typed.
LEMMA HopTyped ==
  ASSUME TypeOK, NEW o \in Procs, Promotable(o)
  PROVE  /\ op[o] \in OpRec
         /\ op[o].ring \in Ring
         /\ NextRing(op[o].ring) \in Ring
         /\ state[op[o].ring] \in Row
         /\ state[NextRing(op[o].ring)] \in Row
<1>1. op[o] \in OpRec /\ op[o].ring \in Ring
  BY DEF TypeOK, OpRec
<1>2. NextRing(op[o].ring) \in Ring
  BY <1>1, NumRingsAssumption DEF Promotable
<1>3. QED
  BY <1>1, <1>2 DEF TypeOK

LEMMA DeployVersionTyped ==
  ASSUME NEW r, NEW v \in VersionX
  PROVE  DeployVersion(r, v) \in VersionX
BY DEF DeployVersion, VersionX

-----------------------------------------------------------------------------
(* Every action keeps the types.  The actions of an operation first, in    *)
(* the order of the module.                                                *)

LEMMA StepTyped ==
  ASSUME TypeOK, NEW o \in Procs, Step(o)
  PROVE  TypeOK'
<1> DEFINE me == op[o]
           row == state[me.ring]
<1> USE DEF storeVars, worldVars, serviceVars, boundVars
<1>0. me \in OpRec /\ row \in Row /\ me.ring \in Ring
  BY Locals DEF OpRec
<1>1. CASE AcquireLock(o)
  <2>1. \E pc \in PC : Goto(o, pc)
    BY <1>1 DEF AcquireLock, PC
  <2>2. QED
    BY <1>1, <2>1, GotoTyped DEF AcquireLock, TypeOK
<1>2. CASE LockRefused(o)
  BY <1>2, IdleTyped, BecomeTyped DEF LockRefused, TypeOK
<1>3. CASE BeginSeed(o)
  <2>1. CurrentVersion(o, me.ring) \in VersionX
    BY <1>0 DEF CurrentVersion, Row, VersionX
  <2>2. me.version \in VersionX /\ NewAttempt(o) \in Nat
    BY <1>0, AttemptTyped DEF OpRec
  <2>3. [me EXCEPT !.pc = "deploy", !.prev = CurrentVersion(o, me.ring),
                   !.att = NewAttempt(o)] \in OpRec
    BY <1>0, <2>1, <2>2 DEF OpRec, PC
  <2>4. op' \in [Procs -> OpRec]
    BY <1>3, <2>3, BecomeTyped DEF BeginSeed
  <2>5. journal' \subseteq JournalRec /\ nextId' \in Nat \ {0}
    BY <1>0, <1>3, <2>1, <2>2, JournalStartTyped DEF BeginSeed, ApiKind
  <2>6. QED
    BY <1>3, <2>4, <2>5 DEF BeginSeed, TypeOK
<1>4. CASE BeginPromote(o)
  <2> DEFINE dst == NextRing(me.ring)
             v == DeployVersion(dst, row.cur)
             prev == state[dst].cur
  <2>1. Promotable(o)
    BY <1>4 DEF BeginPromote
  <2>2. dst \in Ring /\ state[dst] \in Row
    BY <2>1, HopTyped
  <2>3. v \in VersionX /\ prev \in VersionX
    BY <1>0, <2>2, DeployVersionTyped DEF Row
  <2>4. NewAttempt(o) \in Nat
    BY AttemptTyped
  <2> HIDE DEF dst, v, prev
  <2>5. [me EXCEPT !.pc = "deploy", !.ring = dst, !.from = me.ring,
                   !.version = v, !.prev = prev, !.ok = FALSE,
                   !.att = NewAttempt(o)] \in OpRec
    BY <1>0, <2>2, <2>3, <2>4 DEF OpRec, PC
  <2>6. op' \in [Procs -> OpRec]
    BY <1>4, <2>5, BecomeTyped DEF BeginPromote, dst, v, prev
  <2>7. JournalStart(o, "promote", dst, me.ring, v, prev)
    BY <1>4 DEF BeginPromote, dst, v, prev
  <2>8. journal' \subseteq JournalRec /\ nextId' \in Nat \ {0}
    BY <1>0, <2>2, <2>3, <2>7, JournalStartTyped DEF ApiKind
  <2>9. QED
    BY <1>4, <2>6, <2>8 DEF BeginPromote, TypeOK
<1>5. CASE SourceUnhealthy(o)
  <2> DEFINE dst == NextRing(me.ring)
  <2>1. dst \in Ring
    BY <1>5, HopTyped DEF SourceUnhealthy
  <2>2. [me EXCEPT !.pc = "record", !.ring = dst, !.from = me.ring,
                   !.version = row.cur, !.prev = NoVersion, !.ok = FALSE,
                   !.att = 0] \in OpRec
    BY <1>0, <2>1 DEF OpRec, PC, Row, VersionX
  <2>3. op' \in [Procs -> OpRec]
    BY <1>5, <2>2, BecomeTyped DEF SourceUnhealthy
  <2>4. [row EXCEPT !.healthy = FALSE] \in Row
    BY <1>0 DEF Row
  <2>5. state' \in [Ring -> Row]
    BY <1>0, <1>5, <2>4 DEF SourceUnhealthy, TypeOK
  <2>6. QED
    BY <1>5, <2>3, <2>5 DEF SourceUnhealthy, TypeOK
<1>6. CASE BeginRollback(o)
  <2>1. row.cur \in VersionX /\ row.prev \in VersionX /\ NewAttempt(o) \in Nat
    BY <1>0, AttemptTyped DEF Row
  <2>2. [me EXCEPT !.pc = "rbdeploy", !.version = row.cur, !.prev = row.prev,
                   !.att = NewAttempt(o)] \in OpRec
    BY <1>0, <2>1 DEF OpRec, PC
  <2>3. op' \in [Procs -> OpRec]
    BY <1>6, <2>2, BecomeTyped DEF BeginRollback
  <2>4. journal' \subseteq JournalRec /\ nextId' \in Nat \ {0}
    BY <1>0, <1>6, <2>1, JournalStartTyped DEF BeginRollback, ApiKind
  <2>5. QED
    BY <1>6, <2>3, <2>4 DEF BeginRollback, TypeOK
<1>7. CASE BeginRestart(o)
  <2>1. [me EXCEPT !.pc = "restart", !.version = row.cur,
                   !.prev = row.prev] \in OpRec
    BY <1>0 DEF OpRec, PC, Row
  <2>2. op' \in [Procs -> OpRec]
    BY <1>7, <2>1, BecomeTyped DEF BeginRestart
  <2>3. QED
    BY <1>7, <2>2 DEF BeginRestart, TypeOK
<1>8. CASE Refuse(o)
  BY <1>8, GotoTyped DEF Refuse, TypeOK, PC
<1>9. CASE DeployOk(o) \/ RollbackDeployOk(o)
  <2>1. me.version \in VersionX /\ me.prev \in VersionX
    BY <1>0 DEF OpRec
  <2>2. \E v \in VersionX : Lands(me.ring, v)
    BY <1>9, <2>1 DEF DeployOk, RollbackDeployOk
  <2>3. \E pc \in PC : Goto(o, pc)
    BY <1>9 DEF DeployOk, RollbackDeployOk, AfterDeploy, PC
  <2>4. QED
    BY <1>0, <1>9, <2>2, <2>3, DeployErrorTyped, GotoTyped
       DEF DeployOk, RollbackDeployOk, TypeOK
<1>10. CASE DeployFails(o) \/ RollbackDeployFails(o)
  <2>1. me.version \in VersionX /\ me.prev \in VersionX
    BY <1>0 DEF OpRec
  <2>2. \E v \in VersionX : DeployError(me.ring, v)
    BY <1>10, <2>1 DEF DeployFails, RollbackDeployFails
  <2>3. /\ [me EXCEPT !.pc = "record", !.ok = FALSE] \in OpRec
        /\ [me EXCEPT !.pc = "rbrecord", !.ok = FALSE] \in OpRec
    BY <1>0 DEF OpRec, PC
  <2>4. op' \in [Procs -> OpRec]
    BY <1>10, <2>3, BecomeTyped
       DEF DeployFails, RollbackDeployFails, FailedDeploy
  <2>5. QED
    BY <1>0, <1>10, <2>2, <2>4, DeployErrorTyped
       DEF DeployFails, RollbackDeployFails, TypeOK
<1>11. CASE RestartPods(o)
  <2>1. [me EXCEPT !.pc = "record", !.ok = FALSE] \in OpRec /\ "check" \in PC
    BY <1>0 DEF OpRec, PC
  <2>2. op' \in [Procs -> OpRec]
    BY <1>11, <2>1, BecomeTyped, GotoTyped DEF RestartPods
  <2>3. QED
    BY <1>11, <2>2 DEF RestartPods, TypeOK
<1>12. CASE Persist(o) \/ Save(o) \/ NothingToRestore(o) \/ RollbackSave(o)
  <2>1. /\ me.version \in VersionX
        /\ me.prev \in VersionX
        /\ me.ok \in BOOLEAN
    BY <1>0 DEF OpRec
  <2>2. \E p, c \in VersionX, h \in BOOLEAN : SaveState(o, me.ring, p, c, h)
    BY <1>12, <2>1 DEF Persist, Save, NothingToRestore, RollbackSave, Left
  <2>3. \E pc \in PC : Goto(o, pc)
    BY <1>12 DEF Persist, Save, NothingToRestore, RollbackSave, PC
  <2>4. state' \in [Ring -> Row]
    BY <1>0, <2>2, SaveTyped
  <2>5. op' \in [Procs -> OpRec]
    BY <2>3, GotoTyped
  <2>6. QED
    BY <1>12, <2>4, <2>5
       DEF Persist, Save, NothingToRestore, RollbackSave, TypeOK
<1>13. CASE CheckPasses(o)
  <2>1. me.version \in VersionX
    BY <1>0 DEF OpRec
  <2>2. PICK v \in VersionX :
          Become(o, [me EXCEPT !.pc = "save", !.version = v, !.ok = TRUE])
    BY <1>0, <1>13, <2>1, RecordedTyped DEF CheckPasses
  <2>3. [me EXCEPT !.pc = "save", !.version = v, !.ok = TRUE] \in OpRec
    BY <1>0 DEF OpRec, PC
  <2>4. op' \in [Procs -> OpRec]
    BY <2>2, <2>3, BecomeTyped
  <2>5. QED
    BY <1>13, <2>4 DEF CheckPasses, TypeOK
<1>14. CASE CheckFails(o)
  <2>1. \A pc \in {"unhealthy", "save"} :
          [me EXCEPT !.ok = FALSE, !.pc = pc] \in OpRec
    BY <1>0 DEF OpRec, PC
  <2>2. op' \in [Procs -> OpRec]
    BY <1>14, <2>1, BecomeTyped DEF CheckFails
  <2>3. QED
    BY <1>14, <2>2 DEF CheckFails, TypeOK
<1>15. CASE RecordOutcome(o) \/ RecordUnhealthy(o)
  <2>1. /\ me.version \in VersionX
        /\ me.act \in ApiKind /\ "promote" \in ApiKind
        /\ me.ok \in BOOLEAN
    BY <1>0 DEF OpRec, ApiKind
  <2>2. \E act \in ApiKind, ok \in BOOLEAN : Record(o, act, me.version, ok)
    BY <1>15, <2>1 DEF RecordOutcome, RecordUnhealthy
  <2>3. \E pc \in PC : Goto(o, pc)
    BY <1>15 DEF RecordOutcome, RecordUnhealthy, PC
  <2>4. history' \in Seq(Entry)
    BY <2>1, <2>2, RecordTyped
  <2>5. op' \in [Procs -> OpRec]
    BY <2>3, GotoTyped
  <2>6. QED
    BY <1>15, <2>4, <2>5 DEF RecordOutcome, RecordUnhealthy, TypeOK
<1>16. CASE RollbackCheckPasses(o)
  <2>1. me.prev \in VersionX
    BY <1>0 DEF OpRec
  <2>2. PICK v \in VersionX :
          Become(o, [me EXCEPT !.pc = "rbsave", !.prev = v, !.ok = TRUE])
    BY <1>0, <1>16, <2>1, RecordedTyped DEF RollbackCheckPasses
  <2>3. [me EXCEPT !.pc = "rbsave", !.prev = v, !.ok = TRUE] \in OpRec
    BY <1>0 DEF OpRec, PC
  <2>4. op' \in [Procs -> OpRec]
    BY <2>2, <2>3, BecomeTyped
  <2>5. QED
    BY <1>16, <2>4 DEF RollbackCheckPasses, TypeOK
<1>17. CASE RollbackCheckFails(o)
  <2>1. [me EXCEPT !.pc = "rbsave", !.ok = FALSE] \in OpRec
    BY <1>0 DEF OpRec, PC
  <2>2. op' \in [Procs -> OpRec]
    BY <1>17, <2>1, BecomeTyped DEF RollbackCheckFails
  <2>3. QED
    BY <1>17, <2>2 DEF RollbackCheckFails, TypeOK
<1>18. CASE RollbackRecord(o)
  <2>1. me.prev \in VersionX /\ me.ok \in BOOLEAN /\ "rollback" \in ApiKind
    BY <1>0 DEF OpRec, ApiKind
  <2>2. history' \in Seq(Entry)
    BY <1>18, <2>1, RecordTyped DEF RollbackRecord
  <2>3. [me EXCEPT !.pc = "clear", !.act = "rollback"] \in OpRec
    BY <1>0 DEF OpRec, PC, ApiKind
  <2>4. op' \in [Procs -> OpRec]
    BY <1>18, <2>3, BecomeTyped DEF RollbackRecord
  <2>5. QED
    BY <1>18, <2>2, <2>4 DEF RollbackRecord, TypeOK
<1>19. CASE ClearAttempt(o)
  <2>1. \E pc \in PC : Goto(o, pc)
    BY <1>19 DEF ClearAttempt, PC
  <2>2. op' \in [Procs -> OpRec]
    BY <2>1, GotoTyped
  <2>3. journal' \subseteq JournalRec
    BY <1>19, JournalEndTyped DEF ClearAttempt, TypeOK
  <2>4. QED
    BY <1>19, <2>2, <2>3 DEF ClearAttempt, TypeOK
<1>20. CASE Chain(o)
  <2>1. /\ [me EXCEPT !.pc = "begin", !.act = "promote"] \in OpRec
        /\ [me EXCEPT !.pc = "finish"] \in OpRec
    BY <1>0 DEF OpRec, PC, ApiKind
  <2>2. op' \in [Procs -> OpRec]
    BY <1>20, <2>1, BecomeTyped DEF Chain
  <2>3. QED
    BY <1>20, <2>2 DEF Chain, TypeOK
<1>21. CASE Finish(o) \/ RecoverDropped(o)
  <2>1. op' \in [Procs -> OpRec]
    BY <1>21, IdleTyped, BecomeTyped DEF Finish, RecoverDropped
  <2>2. journal' \subseteq JournalRec
    BY <1>21, JournalEndTyped DEF Finish, RecoverDropped
  <2>3. QED
    BY <1>21, <2>1, <2>2 DEF Finish, RecoverDropped, TypeOK
<1>22. CASE Recheck(o)
  <2>1. /\ [me EXCEPT !.pc = "finish", !.rec = 0] \in OpRec
        /\ \A pc \in {"finish", "await", "record"} :
             [me EXCEPT !.pc = pc] \in OpRec
    BY <1>0 DEF OpRec, PC
  <2>2. op' \in [Procs -> OpRec]
    BY <1>22, <2>1, BecomeTyped DEF Recheck
  <2>3. QED
    BY <1>22, <2>2 DEF Recheck, TypeOK
<1>23. CASE Landed(o) \/ GiveUp(o)
  <2>1. /\ [me EXCEPT !.pc = "save", !.ok = TRUE] \in OpRec
        /\ [me EXCEPT !.pc = "record", !.expired = FALSE] \in OpRec
    BY <1>0 DEF OpRec, PC
  <2>2. op' \in [Procs -> OpRec]
    BY <1>23, <2>1, BecomeTyped DEF Landed, GiveUp, GivenUp
  <2>3. QED
    BY <1>23, <2>2 DEF Landed, GiveUp, TypeOK
<1>24. QED
  BY <1>1, <1>2, <1>3, <1>4, <1>5, <1>6, <1>7, <1>8, <1>9, <1>10, <1>11,
     <1>12, <1>13, <1>14, <1>15, <1>16, <1>17, <1>18, <1>19, <1>20, <1>21,
     <1>22, <1>23 DEF Step

\* The steps of the API, of the replicas and of the world outside.
LEMMA RequestTyped ==
  ASSUME TypeOK, NEW o \in Procs, NEW p \in Replicas, NEW kind \in ApiKind,
         NEW r \in Ring, NEW v \in VersionX, Request(o, p, kind, r, v)
  PROVE  TypeOK'
<1>1. [Idle EXCEPT !.kind = kind, !.pc = "lock", !.home = p, !.act = kind,
                   !.ring = r, !.version = v] \in OpRec
  BY IdleTyped DEF OpRec, Kind, PC
<1>2. op' \in [Procs -> OpRec]
  BY <1>1, BecomeTyped DEF Request
<1>3. requests' \in 0 .. MaxRequests
  BY BoundAssumption DEF Request, TypeOK
<1>4. QED
  BY <1>2, <1>3 DEF Request, TypeOK, storeVars, worldVars, serviceVars

LEMMA ApiTyped ==
  ASSUME TypeOK, NEW o \in Procs, NEW p \in Replicas, NEW r \in Ring,
         Api(o, p, r)
  PROVE  TypeOK'
<1>1. NoVersion \in VersionX /\ ApiKind = {"seed", "promote", "rollback", "restart"}
  BY DEF VersionX, ApiKind
<1>2. CASE RequestSeed(o, p, r)
  <2>1. PICK v \in Versions : Request(o, p, "seed", r, DeployVersion(r, v))
    BY <1>2 DEF RequestSeed
  <2>2. DeployVersion(r, v) \in VersionX
    BY DeployVersionTyped DEF VersionX
  <2>3. QED
    BY <1>1, <2>1, <2>2, RequestTyped
<1>3. CASE ~RequestSeed(o, p, r)
  BY <1>1, <1>3, RequestTyped
     DEF Api, RequestPromote, RequestRollback, RequestRestart
<1>4. QED
  BY <1>2, <1>3

LEMMA CrashTyped ==
  ASSUME TypeOK, NEW p \in Replicas, Crash(p)
  PROVE  TypeOK'
<1>1. op' \in [Procs -> OpRec]
  BY IdleTyped DEF Crash, TypeOK
<1>2. InFlight(p) \subseteq [ring : Ring, version : VersionX]
  <2>1. \A x \in OpsOf(p) : /\ op[x].ring \in Ring
                           /\ op[x].version \in VersionX
                           /\ op[x].prev \in VersionX
    BY DEF TypeOK, OpRec, OpsOf
  <2>2. QED
    BY <2>1 DEF InFlight
<1>3. orphans' \subseteq [ring : Ring, version : VersionX]
  BY <1>2 DEF Crash, TypeOK
<1>4. holder' \in Procs \cup {NoProc}
  BY DEF Crash, LockAfterCrash, TypeOK
<1>5. crashes' \in 0 .. MaxCrashes
  BY BoundAssumption DEF Crash, TypeOK
<1>6. up' \subseteq Replicas
  BY DEF Crash, TypeOK
<1>7. QED
  BY <1>1, <1>3, <1>4, <1>5, <1>6 DEF Crash, TypeOK, storeVars

LEMMA RecoverOpTyped ==
  ASSUME NEW p \in Replicas, NEW j \in JournalRec
  PROVE  RecoverOp(p, j) \in OpRec
BY IdleTyped DEF RecoverOp, OpRec, JournalRec, Kind, PC

LEMMA BootTyped ==
  ASSUME TypeOK, NEW p \in Replicas, Boot(p)
  PROVE  TypeOK'
<1>1. op' \in [Procs -> OpRec]
  <2>1. PICK slot \in [Leftover -> IdleSlots] :
          op' = [o \in Procs |->
                   IF \E j \in Leftover : slot[j] = o
                   THEN RecoverOp(p, CHOOSE j \in Leftover : slot[j] = o)
                   ELSE op[o]]
    BY DEF Boot
  <2>2. ASSUME NEW o \in Procs, \E j \in Leftover : slot[j] = o
        PROVE  RecoverOp(p, CHOOSE j \in Leftover : slot[j] = o) \in OpRec
    <3>1. (CHOOSE j \in Leftover : slot[j] = o) \in JournalRec
      BY <2>2 DEF Leftover, TypeOK
    <3>2. QED
      BY <3>1, RecoverOpTyped
  <2>3. QED
    BY <2>1, <2>2 DEF TypeOK
<1>2. cfg' \in [Replicas -> SUBSET Configured]
  BY DEF Boot, Loads, TypeOK
<1>3. up' \subseteq Replicas
  BY DEF Boot, TypeOK
<1>4. auto' \in [Ring -> BOOLEAN]
  <2>1. PICK rings : auto' = Reconciled(rings)
    BY DEF Boot
  <2>2. \A r \in Ring : (r \in DeclaredOn) \in BOOLEAN /\ auto[r] \in BOOLEAN
    BY DEF TypeOK
  <2>3. QED
    BY <2>1, <2>2 DEF Reconciled
<1>5. QED
  BY <1>1, <1>2, <1>3, <1>4 DEF Boot, TypeOK, worldVars, boundVars

LEMMA LandTyped ==
  ASSUME TypeOK, NEW d \in orphans, Land(d)
  PROVE  TypeOK'
<1>1. d.ring \in Ring /\ d.version \in VersionX
  BY DEF TypeOK
<1>2. live' \in [Ring -> VersionX]
  BY <1>1, LandsTyped DEF Land
<1>3. QED
  BY <1>2 DEF Land, TypeOK, storeVars, serviceVars, boundVars

LEMMA ExpireTyped ==
  ASSUME TypeOK, NEW o \in Procs, Expire(o)
  PROVE  TypeOK'
<1>1. [op[o] EXCEPT !.expired = TRUE] \in OpRec
  BY ZenonT(40) DEF TypeOK, OpRec
<1>2. op' \in [Procs -> OpRec]
  BY <1>1, BecomeTyped DEF Expire
<1>3. QED
  BY <1>2 DEF Expire, TypeOK, storeVars, worldVars, serviceVars, boundVars

\* Every variable keeps its type in every step of the service.
LEMMA NextTyped == TypeOK /\ [Next]_vars => TypeOK'
<1> SUFFICES ASSUME TypeOK, [Next]_vars
             PROVE  TypeOK'
  OBVIOUS
<1>1. CASE \E o \in Procs : Step(o) \/ Expire(o)
  BY <1>1, StepTyped, ExpireTyped
<1>2. CASE \E o \in Procs, p \in Replicas, r \in Ring : Api(o, p, r)
  BY <1>2, ApiTyped
<1>3. CASE \E p \in Replicas, r \in Ring, b \in BOOLEAN : SetAutoPromote(p, r, b)
  BY <1>3 DEF SetAutoPromote, TypeOK, worldVars, serviceVars, boundVars
<1>4. CASE \E p \in Replicas : Crash(p) \/ Boot(p)
  BY <1>4, CrashTyped, BootTyped
<1>5. CASE \E d \in orphans : Land(d)
  BY <1>5, LandTyped
<1>6. CASE UNCHANGED vars
  BY <1>6 DEF vars, storeVars, worldVars, serviceVars, boundVars, TypeOK
<1>7. QED
  BY <1>1, <1>2, <1>3, <1>4, <1>5, <1>6 DEF Next

LEMMA InitTyped == Init => TypeOK
<1> SUFFICES ASSUME Init
             PROVE  TypeOK
  OBVIOUS
<1>1. state \in [Ring -> Row]
  BY DEF Init
<1>2. live \in [Ring -> VersionX]
  BY <1>1 DEF Init, Row
<1>3. op \in [Procs -> OpRec]
  BY IdleTyped DEF Init
<1>4. history \in Seq(Entry)
  BY DEF Init
<1>5. QED
  BY <1>1, <1>2, <1>3, <1>4, BoundAssumption DEF Init, TypeOK

\* Type correctness, whatever the constants.
THEOREM TypeCorrect == Spec => []TypeOK
<1>1. QED
  BY InitTyped, NextTyped, PTL DEF Spec

-----------------------------------------------------------------------------
(* Mutual exclusion.  OperationsSerialized is inductive, given the types.  *)

\* Nothing happens to the other operations, and o goes to a pc of pcs.
Moves(o, pcs) ==
  /\ op'[o].pc \in pcs
  /\ \A x \in Procs \ {o} : op'[x].pc = op[x].pc
  /\ UNCHANGED holder

\* The operation inside the lock moves on inside it.
LEMMA StaysInside ==
  ASSUME OperationsSerialized, NEW o \in Procs, NEW pcs, Inside(o),
         Moves(o, pcs), pcs \cap {"idle", "lock"} = {}
  PROVE  OperationsSerialized'
BY DEF OperationsSerialized, Inside, Moves

\* An operation outside the lock stays outside.
LEMMA StaysOutside ==
  ASSUME OperationsSerialized, NEW o \in Procs,
         ~Inside(o), Moves(o, {"idle", "lock"})
  PROVE  OperationsSerialized'
BY DEF OperationsSerialized, Inside, Moves

\* The pc that each field update leads to.
LEMMA PcOfUpdate ==
  ASSUME TypeOK, NEW o \in Procs, NEW pc
  PROVE  /\ [op[o] EXCEPT !.pc = pc].pc = pc
         /\ Idle.pc = "idle"
BY DEF TypeOK, OpRec, Idle

\* The actions of an operation that is inside the lock and stays there.
StepInside(o) ==
  Step(o) /\ ~(AcquireLock(o) \/ LockRefused(o) \/ RecoverDropped(o) \/ Finish(o))

LEMMA StepMoves ==
  ASSUME TypeOK, NEW o \in Procs, StepInside(o)
  PROVE  Inside(o) /\ Moves(o, PC \ {"idle", "lock"})
<1> DEFINE me == op[o]
<1>0. me \in OpRec /\ op \in [Procs -> OpRec]
  BY DEF TypeOK
<1> USE DEF Inside, Moves, Become, OpRec, PC
<1>1. CASE BeginSeed(o)
  BY <1>0, <1>1 DEF BeginSeed
<1>2. CASE BeginPromote(o)
  BY <1>0, <1>2 DEF BeginPromote, Promotable
<1>3. CASE SourceUnhealthy(o)
  BY <1>0, <1>3 DEF SourceUnhealthy, Promotable
<1>4. CASE BeginRollback(o)
  BY <1>0, <1>4 DEF BeginRollback
<1>5. CASE BeginRestart(o)
  BY <1>0, <1>5 DEF BeginRestart
<1>6. CASE Refuse(o)
  BY <1>0, <1>6 DEF Refuse, Goto
<1>7. CASE DeployOk(o)
  BY <1>0, <1>7 DEF DeployOk, AfterDeploy, Goto
<1>8. CASE DeployFails(o)
  BY <1>0, <1>8 DEF DeployFails, FailedDeploy
<1>9. CASE RestartPods(o)
  <2>1. me.pc = "restart" /\ UNCHANGED holder
    BY <1>9 DEF RestartPods
  <2>2. CASE Goto(o, "check")
    BY <1>0, <2>1, <2>2 DEF Goto
  <2>3. CASE Become(o, [me EXCEPT !.pc = "record", !.ok = FALSE])
    BY <1>0, <2>1, <2>3
  <2>4. QED
    BY <1>9, <2>2, <2>3 DEF RestartPods
<1>10. CASE Persist(o)
  BY <1>0, <1>10 DEF Persist, Goto
<1>11. CASE CheckPasses(o)
  BY <1>0, <1>11 DEF CheckPasses
<1>12. CASE CheckFails(o)
  BY <1>0, <1>12 DEF CheckFails
<1>13. CASE Save(o)
  BY <1>0, <1>13 DEF Save, Goto
<1>14. CASE RecordOutcome(o)
  BY <1>0, <1>14 DEF RecordOutcome, Goto
<1>15. CASE RecordUnhealthy(o)
  BY <1>0, <1>15 DEF RecordUnhealthy, Goto
<1>16. CASE NothingToRestore(o)
  BY <1>0, <1>16 DEF NothingToRestore, Goto
<1>17. CASE RollbackDeployOk(o)
  BY <1>0, <1>17 DEF RollbackDeployOk, Goto
<1>18. CASE RollbackDeployFails(o)
  BY <1>0, <1>18 DEF RollbackDeployFails
<1>19. CASE RollbackCheckPasses(o)
  BY <1>0, <1>19 DEF RollbackCheckPasses
<1>20. CASE RollbackCheckFails(o)
  BY <1>0, <1>20 DEF RollbackCheckFails
<1>21. CASE RollbackSave(o)
  BY <1>0, <1>21 DEF RollbackSave, Goto
<1>22. CASE RollbackRecord(o)
  BY <1>0, <1>22 DEF RollbackRecord
<1>23. CASE ClearAttempt(o)
  BY <1>0, <1>23 DEF ClearAttempt, Goto
<1>24. CASE Chain(o)
  BY <1>0, <1>24 DEF Chain
<1>25. CASE Recheck(o)
  BY <1>0, <1>25 DEF Recheck
<1>26. CASE Landed(o)
  BY <1>0, <1>26 DEF Landed
<1>27. CASE GiveUp(o)
  BY <1>0, <1>27 DEF GiveUp, GivenUp
<1>28. QED
  BY <1>1, <1>2, <1>3, <1>4, <1>5, <1>6, <1>7, <1>8, <1>9, <1>10, <1>11,
     <1>12, <1>13, <1>14, <1>15, <1>16, <1>17, <1>18, <1>19, <1>20, <1>21,
     <1>22, <1>23, <1>24, <1>25, <1>26, <1>27
     DEF StepInside, Step

LEMMA StepSerialized ==
  ASSUME TypeOK, OperationsSerialized, NEW o \in Procs, Step(o)
  PROVE  OperationsSerialized'
<1> DEFINE me == op[o]
<1>0. me \in OpRec
  BY DEF TypeOK
<1>1. CASE AcquireLock(o)
  <2>1. /\ holder = NoProc /\ holder' = o
        /\ op'[o].pc \in {"recheck", "begin"}
        /\ \A x \in Procs \ {o} : op'[x].pc = op[x].pc
    BY <1>0, <1>1 DEF AcquireLock, Free, Goto, Become, TypeOK, OpRec
  <2>2. \A x \in Procs : ~Inside(x)
    BY <2>1, ProcAssumption DEF OperationsSerialized
  <2>3. QED
    BY <2>1, <2>2 DEF OperationsSerialized, Inside
<1>2. CASE LockRefused(o) \/ RecoverDropped(o)
  <2>1. ~Inside(o) /\ Moves(o, {"idle", "lock"})
    BY <1>2, PcOfUpdate
       DEF LockRefused, RecoverDropped, Inside, Moves, Become, TypeOK
  <2>2. QED
    BY <2>1, StaysOutside
<1>3. CASE Finish(o)
  <2>1. holder = o
    BY <1>3 DEF OperationsSerialized, Inside, Finish
  <2>2. op' = [op EXCEPT ![o] = Idle] /\ holder' = NoProc
    BY <1>3 DEF Finish, Become
  <2>3. QED
    BY <2>1, <2>2, PcOfUpdate, ProcAssumption
       DEF OperationsSerialized, Inside, TypeOK
<1>4. CASE StepInside(o)
  BY <1>4, StepMoves, StaysInside
<1>5. QED
  BY <1>1, <1>2, <1>3, <1>4 DEF StepInside

LEMMA NextSerialized ==
  TypeOK /\ OperationsSerialized /\ [Next]_vars => OperationsSerialized'
<1> SUFFICES ASSUME TypeOK, OperationsSerialized, [Next]_vars
             PROVE  OperationsSerialized'
  OBVIOUS
<1>1. ASSUME NEW o \in Procs, Step(o)
      PROVE  OperationsSerialized'
  BY <1>1, StepSerialized
<1>2. ASSUME NEW o \in Procs, Expire(o)
      PROVE  OperationsSerialized'
  <2>1. op' = [op EXCEPT ![o].expired = TRUE] /\ UNCHANGED holder
    BY <1>2 DEF Expire, Become, TypeOK
  <2>2. \A x \in Procs : op'[x].pc = op[x].pc
    BY <2>1 DEF TypeOK, OpRec
  <2>3. QED
    BY <2>1, <2>2 DEF OperationsSerialized, Inside
<1>3. ASSUME NEW o \in Procs, NEW p \in Replicas, NEW r \in Ring, Api(o, p, r)
      PROVE  OperationsSerialized'
  <2>1. PICK kind, v : Request(o, p, kind, r, v)
    BY <1>3 DEF Api, RequestSeed, RequestPromote, RequestRollback, RequestRestart
  <2>2. ~Inside(o) /\ UNCHANGED holder
    BY <2>1 DEF Request, Inside
  <2>3. Moves(o, {"idle", "lock"})
    BY <2>1, IdleTyped DEF Request, Become, Moves, TypeOK, OpRec
  <2>4. QED
    BY <2>2, <2>3, StaysOutside
<1>4. ASSUME NEW p \in Replicas, Crash(p)
      PROVE  OperationsSerialized'
  <2>1. /\ op' = [o \in Procs |-> IF o \in OpsOf(p) THEN Idle ELSE op[o]]
        /\ holder' = IF holder \in OpsOf(p) THEN NoProc ELSE holder
    BY <1>4 DEF Crash, LockAfterCrash
  <2>2. ASSUME NEW o \in Procs
        PROVE  Inside(o)' <=> holder' = o
    <3>1. CASE o \in OpsOf(p)
      BY <2>1, <3>1, PcOfUpdate, ProcAssumption DEF Inside
    <3>2. CASE o \notin OpsOf(p)
      BY <2>1, <3>2, ProcAssumption DEF Inside, OperationsSerialized
    <3>3. QED
      BY <3>1, <3>2
  <2>3. QED
    BY <2>2 DEF OperationsSerialized
<1>5. ASSUME NEW p \in Replicas, Boot(p)
      PROVE  OperationsSerialized'
  <2>1. UNCHANGED holder
    BY <1>5 DEF Boot
  <2>2. PICK slot \in [Leftover -> IdleSlots] :
          op' = [o \in Procs |->
                   IF \E j \in Leftover : slot[j] = o
                   THEN RecoverOp(p, CHOOSE j \in Leftover : slot[j] = o)
                   ELSE op[o]]
    BY <1>5 DEF Boot
  <2>3. \A j : RecoverOp(p, j).pc = "lock"
    BY DEF RecoverOp, Idle
  <2>4. \A o \in Procs : Inside(o)' <=> Inside(o)
    BY <2>2, <2>3 DEF Inside, IdleSlots
  <2>5. QED
    BY <2>1, <2>4 DEF OperationsSerialized
<1>6. CASE \/ \E p \in Replicas, r \in Ring, b \in BOOLEAN : SetAutoPromote(p, r, b)
           \/ \E d \in orphans : Land(d)
           \/ UNCHANGED vars
  BY <1>6 DEF OperationsSerialized, Inside, SetAutoPromote, Land, vars
<1>7. QED
  BY <1>1, <1>2, <1>3, <1>4, <1>5, <1>6 DEF Next

\* The operations of an application exclude each other, over any number of
\* replicas, crashes and expiries, and nothing but the operation inside the
\* lock holds it.
THEOREM Serialized == Spec => []OperationsSerialized
<1>1. Init => OperationsSerialized
  BY ProcAssumption DEF Init, OperationsSerialized, Inside, Idle
<1>2. QED
  BY <1>1, TypeCorrect, NextSerialized, PTL DEF Spec

-----------------------------------------------------------------------------
(* What the store calls do to the ids on record. *)

LEMMA JournalEndIds ==
  ASSUME NEW id, JournalEnd(id)
  PROVE  Ids' = Ids \ {id} /\ journal' \subseteq journal
BY DEF JournalEnd, Ids

\* Outside an expired context record adds the attempt to the logged ones.
LEMMA RecordLogs ==
  ASSUME TypeOK, NEW o \in Procs, ~op[o].expired,
         NEW act, NEW to, NEW ok, Record(o, act, to, ok)
  PROVE  Logged' = Logged \cup {op[o].att}
<1> DEFINE e == [id |-> op[o].att, act |-> act, ring |-> op[o].ring, to |-> to,
                 result |-> IF ok THEN "success" ELSE "failure"]
<1>1. history' = Append(history, e) /\ e.id = op[o].att
  BY DEF Record
<1>2. history \in Seq(Entry)
  BY DEF TypeOK
<1> HIDE DEF e
<1>3. /\ DOMAIN history' = DOMAIN history \cup {Len(history) + 1}
      /\ Len(history) + 1 \notin DOMAIN history
      /\ history'[Len(history) + 1] = e
      /\ \A k \in DOMAIN history : history'[k] = history[k]
  BY <1>1, <1>2
<1>4. QED
  BY <1>1, <1>3 DEF Logged

-----------------------------------------------------------------------------
(* Steps of one operation.  It is enough to account for that operation     *)
(* and for the attempts: the others keep their promises, as no id leaves   *)
(* the logged ones and the ids only grow.                                  *)

Others(o) == \A x \in Procs \ {o} : op'[x] = op[x]

LEMMA LongerInterval ==
  ASSUME NEW m \in Nat, NEW n \in Nat, m <= n
  PROVE  0 .. m - 1 \subseteq 0 .. n - 1
OBVIOUS

LEMMA OneSteps ==
  ASSUME TypeOK, Accountable, NEW o \in Procs, Others(o), cfg' = cfg,
         Logged \subseteq Logged', nextId' \in Nat, nextId <= nextId',
         RowsKnown', NoSilentLoss', Answerable(o)'
  PROVE  Accountable'
<1>1. ASSUME NEW x \in Procs
      PROVE  Answerable(x)'
  <2>1. CASE x = o
    BY <2>1
  <2>2. CASE x # o
    <3>1. op'[x] = op[x] /\ Answerable(x) /\ op[x] \in OpRec /\ nextId \in Nat
      BY <2>2 DEF Others, Accountable, TypeOK
    <3>2. 0 .. nextId - 1 \subseteq 0 .. nextId' - 1
      BY <3>1, LongerInterval
    <3>3. QED
      BY <3>1, <3>2 DEF Answerable
  <2>3. QED
    BY <2>1, <2>2
<1>2. QED
  BY <1>1 DEF Accountable

LEMMA BecomeOthers ==
  ASSUME TypeOK, NEW o \in Procs, NEW l, Become(o, l)
  PROVE  Others(o) /\ op'[o] = l
BY DEF TypeOK, Become, Others

\* A step that neither journals nor records.
LEMMA QuietStep ==
  ASSUME TypeOK, Accountable, NEW o \in Procs, Others(o),
         UNCHANGED <<journal, nextId, history, cfg>>, Answerable(o)'
  PROVE  Accountable'
<1>1. Ids' = Ids /\ Logged' = Logged /\ nextId \in Nat
  BY DEF Ids, Logged, TypeOK
<1>2. NoSilentLoss' /\ RowsKnown'
  BY <1>1 DEF Accountable, NoSilentLoss, RowsKnown
<1>3. QED
  BY <1>1, <1>2, OneSteps

\* A step that writes a journal row.
LEMMA JournalingStep ==
  ASSUME TypeOK, Accountable, NEW o \in Procs, NEW l, Become(o, l),
         NEW act, NEW r \in Configured, NEW from, NEW v, NEW prev,
         JournalStart(o, act, r, from, v, prev),
         UNCHANGED <<history, cfg>>,
         op[o].pc = "begin", l.att = NewAttempt(o), l.rec = op[o].rec,
         l.kind = op[o].kind, ~l.expired, l.ring \in Configured,
         l.pc \in {"deploy", "rbdeploy"}
  PROVE  Accountable'
<1> DEFINE row == [id |-> nextId, act |-> act, ring |-> r, from |-> from,
                   version |-> v, prev |-> prev]
<1>1. /\ Answerable(o) /\ nextId \in Nat \ {0}
      /\ op[o].rec \in Nat /\ op[o].att \in Nat
  BY DEF Accountable, TypeOK, OpRec
<1>2. /\ journal' = journal \cup {row}
      /\ nextId' = nextId + 1
      /\ l.att = nextId
  BY <1>1 DEF JournalStart, NewAttempt, Answerable
<1>3. Ids' = Ids \cup {nextId} /\ Logged' = Logged
  <2>1. row.id = nextId
    OBVIOUS
  <2> HIDE DEF row
  <2>2. Ids' = Ids \cup {nextId}
    BY <1>2, <2>1 DEF Ids
  <2>3. QED
    BY <2>2 DEF Logged
<1>4. NoSilentLoss'
  BY <1>1, <1>2, <1>3 DEF Accountable, NoSilentLoss
<1>5. RowsKnown'
  BY <1>1, <1>2 DEF Accountable, RowsKnown
<1>6. Answerable(o)'
  BY <1>1, <1>2, <1>3, BecomeOthers DEF Answerable, Resolving
<1>7. QED
  BY <1>1, <1>2, <1>3, <1>4, <1>5, <1>6, BecomeOthers, OneSteps

\* A step that adds a history entry.
LEMMA RecordingStep ==
  ASSUME TypeOK, Accountable, NEW o \in Procs, NEW l, Become(o, l),
         NEW act, NEW to, NEW ok, Record(o, act, to, ok),
         UNCHANGED <<journal, nextId, cfg>>,
         op[o].pc \in {"record", "unhealthy", "rbrecord"},
         l.att = op[o].att, l.rec = op[o].rec, l.kind = op[o].kind,
         ~l.expired, l.ring \in Configured,
         l.pc \in {"clear", "resave", "rbdeploy"}
  PROVE  Accountable'
<1>1. Answerable(o) /\ nextId \in Nat \ {0}
  BY DEF Accountable, TypeOK
<1>2. Logged' = Logged \cup {op[o].att} /\ Ids' = Ids
  BY <1>1, RecordLogs DEF Answerable, Ids
<1>3. NoSilentLoss' /\ RowsKnown'
  BY <1>2 DEF Accountable, NoSilentLoss, RowsKnown
<1>4. Answerable(o)'
  BY <1>1, <1>2, BecomeOthers DEF Answerable, Resolving
<1>5. QED
  BY <1>1, <1>2, <1>3, <1>4, BecomeOthers, OneSteps

\* A step that clears a journal row of an attempt that is logged.
LEMMA ClearingStep ==
  ASSUME TypeOK, Accountable, NEW o \in Procs, Others(o),
         NEW id \in Logged \cup {0}, JournalEnd(id),
         UNCHANGED <<nextId, history, cfg>>, Answerable(o)'
  PROVE  Accountable'
<1>1. Ids' = Ids \ {id} /\ journal' \subseteq journal /\ Logged' = Logged
  BY JournalEndIds DEF Logged
<1>2. NoSilentLoss'
  BY <1>1 DEF Accountable, NoSilentLoss
<1>3. RowsKnown'
  BY <1>1 DEF Accountable, RowsKnown
<1>4. nextId \in Nat
  BY DEF TypeOK
<1>5. QED
  BY <1>1, <1>2, <1>3, <1>4, OneSteps

-----------------------------------------------------------------------------
(* The actions of an operation. *)

\* Neither journals nor records.
Quiet(o) ==
  \/ AcquireLock(o) \/ BeginRestart(o) \/ SourceUnhealthy(o) \/ Refuse(o)
  \/ DeployOk(o) \/ DeployFails(o) \/ RestartPods(o) \/ Persist(o)
  \/ CheckPasses(o) \/ CheckFails(o) \/ Save(o) \/ NothingToRestore(o)
  \/ RollbackDeployOk(o) \/ RollbackDeployFails(o)
  \/ RollbackCheckPasses(o) \/ RollbackCheckFails(o) \/ RollbackSave(o)
  \/ Chain(o) \/ Recheck(o) \/ Landed(o) \/ GiveUp(o)

LEMMA QuietUnchanged ==
  ASSUME TypeOK, NEW o \in Procs, Quiet(o)
  PROVE  Others(o) /\ UNCHANGED <<journal, nextId, history, cfg>>
<1>1. UNCHANGED <<journal, nextId, history, cfg>>
  BY DEF Quiet, storeVars, serviceVars, boundVars, AcquireLock, BeginRestart,
         SourceUnhealthy, Refuse, DeployOk, DeployFails, RestartPods, Persist,
         CheckPasses, CheckFails, Save, NothingToRestore, RollbackDeployOk,
         RollbackDeployFails, RollbackCheckPasses, RollbackCheckFails,
         RollbackSave, Chain, Recheck, Landed, GiveUp
<1>2. \E l : Become(o, l)
  BY DEF Quiet, AcquireLock, BeginRestart, SourceUnhealthy, Refuse, DeployOk,
         DeployFails, RestartPods, Persist, CheckPasses, CheckFails, Save,
         NothingToRestore, RollbackDeployOk, RollbackDeployFails,
         RollbackCheckPasses, RollbackCheckFails, RollbackSave, Chain, Recheck,
         Landed, GiveUp, Goto
<1>3. QED
  BY <1>1, <1>2, BecomeOthers

LEMMA HopConfigured ==
  ASSUME TypeOK, Accountable, NEW o \in Procs, Promotable(o)
  PROVE  NextRing(op[o].ring) \in Configured
BY DEF TypeOK, OpRec, Accountable, Promotable

LEMMA QuietAnswers ==
  ASSUME TypeOK, Accountable, NEW o \in Procs, Quiet(o)
  PROVE  Answerable(o)'
<1> DEFINE me == op[o]
<1>0. /\ me \in OpRec /\ op \in [Procs -> OpRec]
      /\ nextId' = nextId /\ Logged' = Logged
      /\ Answerable(o) /\ nextId \in Nat \ {0}
  BY QuietUnchanged DEF TypeOK, Accountable, Logged
<1> USE DEF Answerable, Resolving, Become, OpRec
<1>1. CASE AcquireLock(o)
  BY <1>0, <1>1 DEF AcquireLock, Goto
<1>2. CASE BeginRestart(o)
  BY <1>0, <1>2 DEF BeginRestart
<1>3. CASE SourceUnhealthy(o)
  <2>1. me.pc = "begin" /\ NextRing(me.ring) \in Configured
    BY <1>0, <1>3, HopConfigured DEF SourceUnhealthy, Promotable
  <2>2. QED
    BY <1>0, <1>3, <2>1 DEF SourceUnhealthy
<1>4. CASE Refuse(o)
  BY <1>0, <1>4 DEF Refuse, Goto
<1>5. CASE DeployOk(o)
  BY <1>0, <1>5 DEF DeployOk, AfterDeploy, Goto
<1>6. CASE DeployFails(o)
  BY <1>0, <1>6 DEF DeployFails, FailedDeploy
<1>7. CASE RestartPods(o)
  <2>1. me.pc = "restart"
    BY <1>7 DEF RestartPods
  <2>2. CASE Goto(o, "check")
    BY <1>0, <2>1, <2>2 DEF Goto
  <2>3. CASE Become(o, [me EXCEPT !.pc = "record", !.ok = FALSE])
    BY <1>0, <2>1, <2>3
  <2>4. QED
    BY <1>7, <2>2, <2>3 DEF RestartPods
<1>8. CASE Persist(o)
  BY <1>0, <1>8 DEF Persist, Goto
<1>9. CASE CheckPasses(o)
  BY <1>0, <1>9 DEF CheckPasses
<1>10. CASE CheckFails(o)
  BY <1>0, <1>10 DEF CheckFails
<1>11. CASE Save(o)
  BY <1>0, <1>11 DEF Save, Goto
<1>12. CASE NothingToRestore(o)
  BY <1>0, <1>12 DEF NothingToRestore, Goto
<1>13. CASE RollbackDeployOk(o)
  BY <1>0, <1>13 DEF RollbackDeployOk, Goto
<1>14. CASE RollbackDeployFails(o)
  BY <1>0, <1>14 DEF RollbackDeployFails
<1>15. CASE RollbackCheckPasses(o)
  BY <1>0, <1>15 DEF RollbackCheckPasses
<1>16. CASE RollbackCheckFails(o)
  BY <1>0, <1>16 DEF RollbackCheckFails
<1>17. CASE RollbackSave(o)
  BY <1>0, <1>17 DEF RollbackSave, Goto
<1>18. CASE Chain(o)
  BY <1>0, <1>18 DEF Chain
<1>19. CASE Recheck(o)
  <2>1. me.rec # 0 /\ ~StillJournaled(o) => me.rec \in Logged
    BY <1>0 DEF Accountable, NoSilentLoss, StillJournaled
  <2>2. me.pc = "recheck" /\ me.att = me.rec /\ ~me.expired
    BY <1>0, <1>19 DEF Recheck
  <2>3. CASE ~StillJournaled(o)
    <3>1. Become(o, [me EXCEPT !.pc = "finish"])
      BY <1>19, <2>2, <2>3 DEF Recheck
    <3>2. QED
      BY <1>0, <2>1, <2>2, <2>3, <3>1
  <2>4. CASE StillJournaled(o)
    <3>1. \E pc \in {"await", "record"} : Become(o, [me EXCEPT !.pc = pc])
      BY <1>19, <2>2, <2>4 DEF Recheck
    <3>2. QED
      BY <1>0, <2>2, <3>1
  <2>5. QED
    BY <2>3, <2>4
<1>20. CASE Landed(o)
  BY <1>0, <1>20 DEF Landed
<1>21. CASE GiveUp(o)
  BY <1>0, <1>21 DEF GiveUp, GivenUp
<1>22. QED
  BY <1>1, <1>2, <1>3, <1>4, <1>5, <1>6, <1>7, <1>8, <1>9, <1>10, <1>11,
     <1>12, <1>13, <1>14, <1>15, <1>16, <1>17, <1>18, <1>19, <1>20, <1>21
     DEF Quiet

LEMMA StepAccountable ==
  ASSUME TypeOK, Accountable, NEW o \in Procs, Step(o)
  PROVE  Accountable'
<1> DEFINE me == op[o]
<1>0. /\ me \in OpRec /\ op \in [Procs -> OpRec] /\ Answerable(o)
      /\ nextId \in Nat \ {0}
      /\ me.pc # "idle" => me.ring \in Configured /\ cfg[me.home] = Configured
  BY DEF TypeOK, Accountable, Answerable, OpRec
<1> USE DEF storeVars, worldVars, serviceVars, boundVars
<1>1. CASE Quiet(o)
  BY <1>1, QuietUnchanged, QuietAnswers, QuietStep
<1>2. CASE BeginSeed(o)
  <2> DEFINE prev == CurrentVersion(o, me.ring)
             l == [me EXCEPT !.pc = "deploy", !.prev = prev,
                             !.att = NewAttempt(o)]
  <2>1. /\ Become(o, l) /\ me.pc = "begin"
        /\ JournalStart(o, "seed", me.ring, 0, me.version, prev)
        /\ UNCHANGED <<history, cfg>>
    BY <1>2 DEF BeginSeed
  <2>2. /\ l.att = NewAttempt(o) /\ l.rec = me.rec /\ l.kind = me.kind
        /\ l.expired = me.expired /\ l.ring = me.ring /\ l.pc = "deploy"
    BY <1>0 DEF OpRec
  <2> HIDE DEF l, prev
  <2>3. ~l.expired /\ l.ring \in Configured /\ me.ring \in Configured
    BY <1>0, <2>1, <2>2 DEF Answerable
  <2>4. QED
    BY <2>1, <2>2, <2>3, JournalingStep
<1>3. CASE BeginPromote(o)
  <2> DEFINE dst == NextRing(me.ring)
             v == DeployVersion(dst, state[me.ring].cur)
             prev == state[dst].cur
             l == [me EXCEPT !.pc = "deploy", !.ring = dst, !.from = me.ring,
                             !.version = v, !.prev = prev, !.ok = FALSE,
                             !.att = NewAttempt(o)]
  <2>1. /\ Become(o, l) /\ me.pc = "begin" /\ Promotable(o)
        /\ JournalStart(o, "promote", dst, me.ring, v, prev)
        /\ UNCHANGED <<history, cfg>>
    BY <1>3 DEF BeginPromote, Promotable
  <2>2. /\ l.att = NewAttempt(o) /\ l.rec = me.rec /\ l.kind = me.kind
        /\ l.expired = me.expired /\ l.ring = dst /\ l.pc = "deploy"
    BY <1>0 DEF OpRec
  <2>3. dst \in Configured
    BY <2>1, HopConfigured
  <2> HIDE DEF l, prev, v, dst
  <2>4. ~l.expired
    BY <1>0, <2>2 DEF Answerable
  <2>5. QED
    BY <2>1, <2>2, <2>3, <2>4, JournalingStep
<1>4. CASE BeginRollback(o)
  <2> DEFINE row == state[me.ring]
             l == [me EXCEPT !.pc = "rbdeploy", !.version = row.cur,
                             !.prev = row.prev, !.att = NewAttempt(o)]
  <2>1. /\ Become(o, l) /\ me.pc = "begin"
        /\ JournalStart(o, "rollback", me.ring, 0, row.prev, row.cur)
        /\ UNCHANGED <<history, cfg>>
    BY <1>4 DEF BeginRollback
  <2>2. /\ l.att = NewAttempt(o) /\ l.rec = me.rec /\ l.kind = me.kind
        /\ l.expired = me.expired /\ l.ring = me.ring /\ l.pc = "rbdeploy"
    BY <1>0 DEF OpRec
  <2> HIDE DEF l, row
  <2>3. ~l.expired /\ l.ring \in Configured /\ me.ring \in Configured
    BY <1>0, <2>1, <2>2 DEF Answerable
  <2>4. QED
    BY <2>1, <2>2, <2>3, JournalingStep
<1>5. CASE RecordOutcome(o) \/ RecordUnhealthy(o)
  <2>1. PICK pc \in {"clear", "resave", "rbdeploy"} : Goto(o, pc)
    BY <1>5 DEF RecordOutcome, RecordUnhealthy
  <2> DEFINE l == [me EXCEPT !.pc = pc]
  <2>2. Become(o, l)
    BY <2>1 DEF Goto
  <2>3. /\ l.att = me.att /\ l.rec = me.rec /\ l.kind = me.kind
        /\ l.expired = me.expired /\ l.ring = me.ring /\ l.pc = pc
    BY <1>0 DEF OpRec
  <2>4. /\ \E act, ok : Record(o, act, me.version, ok)
        /\ me.pc \in {"record", "unhealthy"}
        /\ UNCHANGED <<journal, nextId, cfg>>
    BY <1>5 DEF RecordOutcome, RecordUnhealthy
  <2> HIDE DEF l
  <2>5. ~l.expired /\ l.ring \in Configured
    BY <1>0, <2>3, <2>4 DEF Answerable
  <2>6. QED
    BY <2>2, <2>3, <2>4, <2>5, RecordingStep
<1>6. CASE RollbackRecord(o)
  <2> DEFINE l == [me EXCEPT !.pc = "clear", !.act = "rollback"]
  <2>1. /\ Become(o, l) /\ me.pc = "rbrecord"
        /\ Record(o, "rollback", me.prev, me.ok)
        /\ UNCHANGED <<journal, nextId, cfg>>
    BY <1>6 DEF RollbackRecord
  <2>2. /\ l.att = me.att /\ l.rec = me.rec /\ l.kind = me.kind
        /\ l.expired = me.expired /\ l.ring = me.ring /\ l.pc = "clear"
    BY <1>0 DEF OpRec
  <2> HIDE DEF l
  <2>3. ~l.expired /\ l.ring \in Configured
    BY <1>0, <2>1, <2>2 DEF Answerable
  <2>4. QED
    BY <2>1, <2>2, <2>3, RecordingStep
<1>7. CASE ClearAttempt(o)
  <2>1. PICK pc \in {"chain", "finish"} : Goto(o, pc)
    BY <1>7 DEF ClearAttempt
  <2>2. /\ me.pc = "clear" /\ UNCHANGED <<nextId, history, cfg>>
        /\ JournalEnd(me.att) \/ UNCHANGED journal
    BY <1>7 DEF ClearAttempt
  <2>3. me.att \in Logged \cup {0} /\ Logged' = Logged
    BY <1>0, <2>2 DEF Answerable, Logged
  <2>4. Others(o) /\ op'[o] = [me EXCEPT !.pc = pc]
    BY <2>1, BecomeOthers DEF Goto
  <2>5. Answerable(o)'
    BY <1>0, <2>2, <2>3, <2>4 DEF Answerable, Resolving, OpRec
  <2>6. QED
    BY <2>2, <2>3, <2>4, <2>5, ClearingStep, QuietStep
<1>8. CASE Finish(o)
  <2>1. /\ me.pc = "finish" /\ JournalEnd(me.rec)
        /\ UNCHANGED <<nextId, history, cfg>>
        /\ Others(o) /\ op'[o] = Idle
    BY <1>8, BecomeOthers DEF Finish
  <2>2. me.rec \in Logged \cup {0}
    BY <1>0, <2>1 DEF Answerable, Resolving
  <2>3. Answerable(o)'
    BY <1>0, <2>1 DEF Answerable, Resolving, Idle
  <2>4. QED
    BY <2>1, <2>2, <2>3, ClearingStep
<1>9. CASE LockRefused(o) \/ RecoverDropped(o)
  BY <1>0, <1>9 DEF LockRefused, RecoverDropped, Dropped, Answerable
<1>10. QED
  BY <1>1, <1>2, <1>3, <1>4, <1>5, <1>6, <1>7, <1>8, <1>9 DEF Step, Quiet

-----------------------------------------------------------------------------
(* The other steps, and the theorem. *)

LEMMA RequestAccountable ==
  ASSUME TypeOK, Accountable, NEW o \in Procs, NEW p \in Replicas,
         NEW r \in Ring, Api(o, p, r)
  PROVE  Accountable'
<1>1. PICK kind, v : kind \in ApiKind /\ Request(o, p, kind, r, v)
  BY DEF Api, RequestSeed, RequestPromote, RequestRollback, RequestRestart,
         ApiKind
<1> DEFINE l == [Idle EXCEPT !.kind = kind, !.pc = "lock", !.home = p,
                             !.act = kind, !.ring = r, !.version = v]
<1>2. Become(o, l) /\ UNCHANGED <<journal, nextId, history, cfg>>
  BY <1>1 DEF Request, storeVars, serviceVars
<1>3. r \in Configured /\ nextId \in Nat \ {0}
  BY <1>1 DEF Request, Accountable, TypeOK
<1>4. /\ l.kind # "recover" /\ l.pc = "lock" /\ l.ring = r
      /\ l.att = 0 /\ l.rec = 0 /\ ~l.expired
  BY <1>1 DEF Idle, ApiKind
<1> HIDE DEF l
<1>5. Others(o) /\ op'[o] = l
  BY <1>2, BecomeOthers
<1>6. Answerable(o)'
  BY <1>2, <1>3, <1>4, <1>5 DEF Answerable, Resolving
<1>7. QED
  BY <1>2, <1>5, <1>6, QuietStep

\* An idle operation owes nothing; a recovery that starts owes an answer only
\* about the row it was started for.
LEMMA IdleAnswers ==
  ASSUME TypeOK, NEW l, l = Idle
  PROVE  /\ ~l.expired /\ l.pc = "idle" /\ l.kind # "recover"
         /\ l.att = 0 /\ l.rec = 0
BY DEF Idle

LEMMA CrashAccountable ==
  ASSUME TypeOK, Accountable, NEW p \in Replicas, Crash(p)
  PROVE  Accountable'
<1>1. UNCHANGED <<journal, nextId, history, cfg>> /\ nextId \in Nat \ {0}
  BY DEF Crash, storeVars, TypeOK
<1>2. Ids' = Ids /\ Logged' = Logged
  BY <1>1 DEF Ids, Logged
<1>3. ASSUME NEW o \in Procs
      PROVE  Answerable(o)'
  <2>1. op'[o] = Idle \/ op'[o] = op[o]
    BY DEF Crash
  <2>2. CASE op'[o] = Idle
    BY <1>1, <2>2, IdleAnswers DEF Answerable, Resolving
  <2>3. CASE op'[o] = op[o]
    BY <1>1, <1>2, <2>3 DEF Answerable, Accountable
  <2>4. QED
    BY <2>1, <2>2, <2>3
<1>4. NoSilentLoss' /\ RowsKnown'
  BY <1>1, <1>2 DEF Accountable, NoSilentLoss, RowsKnown
<1>5. QED
  BY <1>1, <1>3, <1>4 DEF Accountable

LEMMA BootAccountable ==
  ASSUME TypeOK, Accountable, Removable = {}, NEW p \in Replicas, Boot(p)
  PROVE  Accountable'
<1>1. UNCHANGED <<journal, nextId, history>> /\ nextId \in Nat \ {0}
  BY DEF Boot, storeVars, TypeOK
<1>2. Ids' = Ids /\ Logged' = Logged
  BY <1>1 DEF Ids, Logged
<1>3. cfg' = [x \in Replicas |-> Configured]
  <2>1. \E gone \in SUBSET Removable : cfg' = [cfg EXCEPT ![p] = Configured \ gone]
    BY DEF Boot, Loads
  <2>2. cfg' = [cfg EXCEPT ![p] = Configured]
    BY <2>1
  <2>3. QED
    BY <2>2 DEF Accountable
<1>4. PICK slot \in [journal -> IdleSlots] :
        op' = [o \in Procs |->
                 IF \E j \in journal : slot[j] = o
                 THEN RecoverOp(p, CHOOSE j \in journal : slot[j] = o)
                 ELSE op[o]]
  BY DEF Boot, Leftover
<1>5. ASSUME NEW o \in Procs
      PROVE  Answerable(o)'
  <2>1. CASE \E j \in journal : slot[j] = o
    <3>1. PICK j \in journal : op'[o] = RecoverOp(p, j)
      BY <1>4, <2>1
    <3>2. j.id \in 1 .. nextId - 1 /\ j.ring \in Configured
      BY DEF Accountable, RowsKnown
    <3>3. /\ op'[o].att = j.id /\ op'[o].rec = j.id /\ op'[o].ring = j.ring
          /\ op'[o].pc = "lock" /\ op'[o].kind = "recover" /\ ~op'[o].expired
      BY <3>1 DEF RecoverOp, Idle
    <3>4. QED
      BY <1>1, <3>2, <3>3 DEF Answerable, Resolving
  <2>2. CASE ~\E j \in journal : slot[j] = o
    <3>1. op'[o] = op[o]
      BY <1>4, <2>2
    <3>2. QED
      BY <1>1, <1>2, <3>1 DEF Answerable, Accountable
  <2>3. QED
    BY <2>1, <2>2
<1>6. NoSilentLoss' /\ RowsKnown'
  BY <1>1, <1>2 DEF Accountable, NoSilentLoss, RowsKnown
<1>7. QED
  BY <1>3, <1>5, <1>6 DEF Accountable

LEMMA NextAccountable ==
  ASSUME Timeouts = FALSE, Removable = {}
  PROVE  TypeOK /\ Accountable /\ [Next]_vars => Accountable'
<1> SUFFICES ASSUME TypeOK, Accountable, [Next]_vars
             PROVE  Accountable'
  OBVIOUS
<1>1. CASE \E o \in Procs : Step(o) \/ Expire(o)
  BY <1>1, StepAccountable DEF Expire
<1>2. CASE \E o \in Procs, p \in Replicas, r \in Ring : Api(o, p, r)
  BY <1>2, RequestAccountable
<1>3. CASE \E p \in Replicas : Crash(p) \/ Boot(p)
  BY <1>3, CrashAccountable, BootAccountable
<1>4. CASE \/ \E p \in Replicas, r \in Ring, b \in BOOLEAN : SetAutoPromote(p, r, b)
           \/ \E d \in orphans : Land(d)
           \/ UNCHANGED vars
  <2>1. UNCHANGED <<journal, nextId, history, cfg, op>>
    BY <1>4 DEF SetAutoPromote, Land, vars, storeVars, serviceVars, worldVars
  <2>2. Ids' = Ids /\ Logged' = Logged
    BY <2>1 DEF Ids, Logged
  <2>3. NoSilentLoss' /\ RowsKnown' /\ \A o \in Procs : Answerable(o)'
    BY <2>1, <2>2 DEF Accountable, NoSilentLoss, RowsKnown, Answerable
  <2>4. QED
    BY <2>1, <2>3 DEF Accountable
<1>5. QED
  BY <1>1, <1>2, <1>3, <1>4 DEF Next

LEMMA InitAccountable == Init => Accountable
<1> SUFFICES ASSUME Init
             PROVE  Accountable
  OBVIOUS
<1>1. /\ journal = {} /\ nextId = 1 /\ cfg = [p \in Replicas |-> Configured]
      /\ \A o \in Procs : op[o] = Idle
  BY DEF Init
<1>2. NoSilentLoss /\ RowsKnown
  BY <1>1 DEF NoSilentLoss, RowsKnown
<1>3. \A o \in Procs : Answerable(o)
  BY <1>1, InitTyped, IdleAnswers DEF Answerable, Resolving
<1>4. QED
  BY <1>1, <1>2, <1>3 DEF Accountable

\* When operation contexts do not expire and no ring leaves the configuration,
\* no journaled attempt is ever lost: it is in the journal until it is in the
\* history, whatever crashes between any two steps.
THEOREM AttemptsNeverLost ==
  ASSUME Timeouts = FALSE, Removable = {}
  PROVE  Spec => []NoSilentLoss
<1>1. TypeOK /\ Accountable /\ [Next]_vars => Accountable'
  BY NextAccountable
<1>2. Accountable => NoSilentLoss
  BY DEF Accountable
<1>3. QED
  BY <1>1, <1>2, InitAccountable, TypeCorrect, PTL DEF Spec
=============================================================================
