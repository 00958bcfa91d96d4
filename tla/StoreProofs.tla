----------------------------- MODULE StoreProofs -----------------------------
(***************************************************************************)
(* What the promotion engine keeps in its store: which attempts the        *)
(* journal and the history hold, what a promotion ships, the version a     *)
(* ring can go back to, and that the store says what the clusters run.     *)
(* Only the operation inside the lock writes the store, so the inductive   *)
(* invariants below say, for each point of an operation's program, how its *)
(* locals are related to the row, the journal and the history.             *)
(***************************************************************************)
EXTENDS PromoterProofs, WellFoundedInduction

-----------------------------------------------------------------------------
(* The invariants.                                                         *)

Deploying == {"deploy", "persist", "check", "unhealthy", "resave", "rbdeploy"}
RollingBack == {"rbdeploy", "rbcheck", "rbsave"}
Hopping == Deploying \cup RollingBack \cup {"save", "record", "rbrecord", "clear"}

\* Which kinds of operation reach which point, and with which locals.
Shaped(o) ==
  LET me == op[o]
  IN /\ me.kind # "recover" => me.rec = 0
     /\ me.pc \in {"lock", "recheck", "await"} => ~me.ok /\ me.att = me.rec
     /\ me.pc \in {"recheck", "await"} => me.kind = "recover"
     /\ me.kind # "recover" /\ me.pc = "lock" => me.act = me.kind
     /\ me.kind # "recover" /\ me.act = "restart" => me.att = 0
     /\ me.kind = "recover" /\ me.pc = "begin" => me.act = "promote"
     /\ me.act # "promote" /\ me.pc = "begin" => me.att = 0
     /\ me.pc = "deploy" => me.act \in {"seed", "promote"}
     /\ me.pc = "restart" => me.act = "restart"
     /\ me.act = "restart" /\ me.pc \in {"restart", "check"} => me.kind # "recover"
     /\ me.pc = "check" => me.act \in {"seed", "promote", "restart"}
     /\ me.kind # "recover" /\ me.pc = "save" => me.act \in {"seed", "promote", "restart"}
     /\ me.pc \in {"persist", "unhealthy", "resave"} => me.act = "promote"
     /\ me.pc \in {"unhealthy", "resave"} => ~me.ok
     /\ me.pc \in RollingBack \cup {"rbrecord"} => me.act \in {"promote", "rollback"}

\* Every attempt on record has an id that was handed out.
Numbered ==
  /\ \A j \in journal : j.id \in 1 .. nextId - 1
  /\ Logged \subseteq 0 .. nextId - 1
  /\ \A o \in Procs : op[o].att \in 0 .. nextId - 1 /\ op[o].rec \in 0 .. nextId - 1

\* The ring a chain goes on from has been recorded healthy, and the source of a
\* hop still is what it was when the hop began.
Proven(o) ==
  LET me == op[o]
  IN /\ ~me.expired =>
          /\ \/ me.pc \in {"record", "clear"} /\ me.ok /\ me.act \in {"seed", "promote"}
             \/ me.pc = "chain"
             \/ me.pc = "begin" /\ me.act = "promote" /\ me.kind # "promote"
             => state[me.ring].healthy
     /\ me.pc \in Deploying /\ me.act = "promote" /\ me.att # me.rec =>
          /\ me.from \in Ring /\ me.from # me.ring
          /\ me.ring \notin Pinned => state[me.from].cur = me.version
          /\ me.kind # "promote" => state[me.from].healthy

\* Without a crash a journal row is the attempt of the operation in the lock.
Owned ==
  crashes = 0 => \A j \in journal :
    /\ holder \in Procs
    /\ op[holder].att = j.id /\ op[holder].att # op[holder].rec
    /\ op[holder].pc \in Hopping

\* ... so there is nothing for a recovery to do,
Redundant(o) ==
  crashes = 0 /\ op[o].kind = "recover" =>
    op[o].pc \in {"lock", "recheck", "finish", "idle"}

\* ... an attempt has not been recorded before it is, and
Unrecorded(o) ==
  LET me == op[o]
  IN crashes = 0 /\ me.att # 0 =>
       /\ me.pc \in {"deploy", "persist", "check", "save", "record", "unhealthy"} =>
            me.att \notin Logged
       /\ me.pc \in RollingBack \cup {"rbrecord"} =>
            \A k \in DOMAIN history :
              history[k].id = me.att => history[k].act = "promote" /\ me.act = "promote"

\* ... the operation knows the row it is about to change.
Informed(o) ==
  LET me == op[o]
      row == state[me.ring]
  IN crashes = 0 /\ ~me.expired =>
       /\ me.pc = "deploy" \/ me.pc = "persist" => me.prev = row.cur
       /\ me.act = "seed" /\ me.pc \in {"check", "save"} => me.prev = row.cur
       /\ me.act = "promote" /\ me.pc \in {"check", "save", "unhealthy", "resave"} =>
            me.prev = row.prev
       /\ me.act = "promote" /\ me.pc = "save" => me.ring \in Pinned \/ me.version = row.cur
       /\ me.act = "promote" /\ me.pc \in {"check", "unhealthy", "resave"} => me.version = row.cur
       /\ me.act = "restart" /\ me.pc \in {"restart", "check", "save"} =>
            me.version = row.cur /\ me.prev = row.prev
       /\ me.pc \in RollingBack => me.version = row.cur

\* Nothing fails but checks: deploys that report an error did nothing, no
\* context expires and no process dies.
NoFaults == DeployFaults = {} /\ ~Timeouts /\ MaxCrashes = 0

\* Then the clusters run what the store says, but for the ring whose hop is
\* between its deploy and its save,
Unsaved(o, r) ==
  r = op[o].ring /\ op[o].pc \in {"persist", "check", "save", "rbcheck", "rbsave"}
SyncedBut(o) == \A r \in Ring \ Pinned : state[r].cur = live[r] \/ Unsaved(o, r)

\* ... and there the operation knows what it deployed.
Knows(o) ==
  LET me == op[o]
  IN me.ring \notin Pinned =>
       /\ me.pc \in {"persist", "check", "save"} => live[me.ring] = me.version
       /\ me.pc \in {"rbcheck", "rbsave"} => live[me.ring] = me.prev
InStep ==
  /\ orphans = {}
  /\ \A o \in Procs : ~op[o].expired /\ (Inside(o) => SyncedBut(o) /\ Knows(o))
  /\ StoreMatchesCluster

-----------------------------------------------------------------------------
(* Who acts.  Whatever happens, an operation that is inside the lock after  *)
(* a step either took it or stood aside while others did.                  *)

Aside(o) ==
  /\ UNCHANGED <<state, history, nextId, holder>>
  /\ journal' \subseteq journal
  /\ op'[o] = op[o] \/ op'[o] = [op[o] EXCEPT !.expired = TRUE]
  /\ crashes' = 0 => crashes = 0

\* The three steps an operation takes outside the lock.
StepOutside(o) == AcquireLock(o) \/ LockRefused(o) \/ RecoverDropped(o)

LEMMA OutsideStep ==
  ASSUME TypeOK, OperationsSerialized, NEW o \in Procs, StepOutside(o)
  PROVE  /\ ~Inside(o)
         /\ UNCHANGED <<state, history, nextId, crashes>>
         /\ journal' \subseteq journal
         /\ \A x \in Procs \ {o} : op'[x] = op[x] /\ (Inside(x) => holder' = holder)
<1>1. CASE AcquireLock(o)
  <2>1. \A x \in Procs : ~Inside(x)
    BY <1>1, ProcAssumption DEF AcquireLock, Free, OperationsSerialized
  <2>2. QED
    BY <1>1, <2>1, BecomeOthers
       DEF AcquireLock, Goto, Others, storeVars, boundVars
<1>2. CASE LockRefused(o)
  BY <1>2, BecomeOthers DEF LockRefused, Inside, Others, storeVars, boundVars
<1>3. CASE RecoverDropped(o)
  BY <1>3, BecomeOthers, JournalEndIds DEF RecoverDropped, Inside, Others, boundVars
<1>4. QED
  BY <1>1, <1>2, <1>3 DEF StepOutside

LEMMA InsideStep ==
  ASSUME TypeOK, NEW o \in Procs, StepInside(o) \/ Finish(o)
  PROVE  Inside(o)
BY StepMoves DEF Inside, Finish

LEMMA StepsSplit ==
  ASSUME NEW o \in Procs, Step(o)
  PROVE  StepOutside(o) \/ StepInside(o) \/ Finish(o)
BY DEF StepOutside, StepInside

\* What may happen besides the steps of an operation.
Elsewhere ==
  \/ \E o \in Procs : Expire(o)
  \/ \E o \in Procs, p \in Replicas, r \in Ring : Api(o, p, r)
  \/ \E p \in Replicas, r \in Ring, b \in BOOLEAN : SetAutoPromote(p, r, b)
  \/ \E p \in Replicas : Crash(p) \/ Boot(p)
  \/ \E d \in orphans : Land(d)
  \/ UNCHANGED vars

LEMMA NextSplit ==
  ASSUME [Next]_vars
  PROVE  (\E o \in Procs : Step(o)) \/ Elsewhere
BY DEF Next, Elsewhere

\* An operation that is not inside the lock never was asked for more than to
\* wait for it.
Waiting(l) ==
  /\ l.pc = "lock" /\ l.att = l.rec /\ ~l.ok
  /\ l.kind # "recover" => l.act = l.kind /\ l.rec = 0

LEMMA ElsewhereKeeps ==
  ASSUME TypeOK, Elsewhere
  PROVE  UNCHANGED <<state, history, nextId, journal>> /\ (crashes' = 0 => crashes = 0)
<1>1. CASE \E p \in Replicas : Crash(p)
  BY <1>1 DEF Crash, TypeOK, storeVars
<1>2. CASE \E p \in Replicas : Boot(p)
  BY <1>2 DEF Boot, boundVars
<1>3. CASE \E o \in Procs, p \in Replicas, r \in Ring : Api(o, p, r)
  <2>1. PICK o, p, r, kind, v : Request(o, p, kind, r, v)
    BY <1>3 DEF Api, RequestSeed, RequestPromote, RequestRollback, RequestRestart
  <2>2. QED
    BY <2>1 DEF Request, storeVars
<1>4. CASE \E o \in Procs : Expire(o)
  BY <1>4 DEF Expire, storeVars, boundVars
<1>5. CASE \E p \in Replicas, r \in Ring, b \in BOOLEAN : SetAutoPromote(p, r, b)
  BY <1>5 DEF SetAutoPromote, boundVars
<1>6. CASE (\E d \in orphans : Land(d)) \/ UNCHANGED vars
  BY <1>6 DEF Land, vars, storeVars, boundVars
<1>7. QED
  BY <1>1, <1>2, <1>3, <1>4, <1>5, <1>6 DEF Elsewhere

LEMMA ElsewhereEffect ==
  ASSUME TypeOK, OperationsSerialized, Elsewhere, NEW x \in Procs
  PROVE  /\ UNCHANGED <<state, history, nextId, journal>>
         /\ crashes' = 0 => crashes = 0
         /\ Inside(x)' => Inside(x) /\ UNCHANGED holder
         /\ \/ op'[x] = op[x]
            \/ op'[x] = [op[x] EXCEPT !.expired = TRUE]
            \/ op'[x] = Idle
            \/ /\ Waiting(op'[x])
               /\ \/ op'[x].rec = 0 /\ op'[x].kind # "recover"
                  \/ op'[x].rec \in Ids /\ op'[x].kind = "recover"
<1> USE DEF storeVars, worldVars, serviceVars, boundVars
<1>1. CASE \E o \in Procs : Expire(o)
  <2>1. PICK o \in Procs : Expire(o)
    BY <1>1
  <2>2. op' = [op EXCEPT ![o] = [op[o] EXCEPT !.expired = TRUE]]
    BY <2>1 DEF Expire, Become
  <2>3. QED
    BY <2>1, <2>2 DEF Expire, Inside, TypeOK, OpRec
<1>2. CASE \E o \in Procs, p \in Replicas, r \in Ring : Api(o, p, r)
  <2>0. PICK o \in Procs, p \in Replicas, r \in Ring : Api(o, p, r)
    BY <1>2
  <2>1. PICK kind, v : Request(o, p, kind, r, v)
    BY <2>0 DEF Api, RequestSeed, RequestPromote, RequestRollback, RequestRestart
  <2> DEFINE l == [Idle EXCEPT !.kind = kind, !.pc = "lock", !.home = p,
                               !.act = kind, !.ring = r, !.version = v]
  <2>2. op' = [op EXCEPT ![o] = l]
    BY <2>1 DEF Request, Become
  <2>3. l.pc = "lock" /\ Waiting(l) /\ l.rec = 0 /\ l.kind = kind
    BY DEF Idle, Waiting
  <2> HIDE DEF l
  <2>4. kind # "recover"
    BY <2>1, FaultAssumption DEF Request, ApiKind
  <2>5. UNCHANGED <<state, history, nextId, journal, crashes, holder>>
    BY <2>1 DEF Request
  <2>6. QED
    BY <2>2, <2>3, <2>4, <2>5 DEF Inside, TypeOK
<1>3. CASE \E p \in Replicas, r \in Ring, b \in BOOLEAN : SetAutoPromote(p, r, b)
  BY <1>3 DEF SetAutoPromote, Inside
<1>4. CASE \E p \in Replicas : Crash(p)
  <2>1. PICK p \in Replicas : Crash(p)
    BY <1>4
  <2>2. /\ op' = [o \in Procs |-> IF o \in OpsOf(p) THEN Idle ELSE op[o]]
        /\ holder' = IF holder \in OpsOf(p) THEN NoProc ELSE holder
        /\ crashes' = crashes + 1 /\ crashes \in Nat
        /\ UNCHANGED <<state, history, nextId, journal>>
    BY <2>1 DEF Crash, LockAfterCrash, TypeOK
  <2>3. Idle.pc = "idle"
    BY DEF Idle
  <2>4. x \in OpsOf(p) => op'[x] = Idle
    BY <2>2
  <2>5. x \notin OpsOf(p) => op'[x] = op[x]
    BY <2>2
  <2>6. Inside(x)' => Inside(x) /\ UNCHANGED holder
    <3>1. SUFFICES ASSUME Inside(x)'
                   PROVE  Inside(x) /\ UNCHANGED holder
      OBVIOUS
    <3>2. x \notin OpsOf(p) /\ Inside(x)
      BY <2>3, <2>4, <2>5, <3>1 DEF Inside
    <3>3. QED
      BY <2>2, <3>2 DEF OperationsSerialized
  <2>7. crashes' # 0
    BY <2>2
  <2>8. QED
    BY <2>2, <2>4, <2>5, <2>6, <2>7
<1>5. CASE \E p \in Replicas : Boot(p)
  <2>1. PICK p \in Replicas : Boot(p)
    BY <1>5
  <2>2. PICK slot \in [Leftover -> IdleSlots] :
          op' = [o \in Procs |->
                   IF \E j \in Leftover : slot[j] = o
                   THEN RecoverOp(p, CHOOSE j \in Leftover : slot[j] = o)
                   ELSE op[o]]
    BY <2>1 DEF Boot
  <2>3. UNCHANGED <<state, history, nextId, journal, holder, crashes>>
    BY <2>1 DEF Boot
  <2>4. CASE \E j \in Leftover : slot[j] = x
    <3>1. PICK j \in journal : op'[x] = RecoverOp(p, j)
      BY <2>2, <2>4 DEF Leftover
    <3>2. /\ RecoverOp(p, j).pc = "lock" /\ RecoverOp(p, j).rec = j.id
          /\ RecoverOp(p, j).att = j.id /\ ~RecoverOp(p, j).ok
          /\ RecoverOp(p, j).kind = "recover"
      BY DEF RecoverOp, Idle
    <3>3. QED
      BY <2>3, <3>1, <3>2 DEF Inside, Waiting, Ids
  <2>5. CASE ~\E j \in Leftover : slot[j] = x
    BY <2>2, <2>3, <2>5 DEF Inside
  <2>6. QED
    BY <2>4, <2>5
<1>6. CASE (\E d \in orphans : Land(d)) \/ UNCHANGED vars
  BY <1>6 DEF Land, vars, Inside
<1>7. QED
  BY <1>1, <1>2, <1>3, <1>4, <1>5, <1>6 DEF Elsewhere

LEMMA Acts ==
  ASSUME TypeOK, OperationsSerialized, [Next]_vars, NEW x \in Procs, Inside(x)'
  PROVE  AcquireLock(x) \/ StepInside(x) \/ (Inside(x) /\ Aside(x))
<1>1. CASE Elsewhere
  <2>1. Inside(x) /\ UNCHANGED holder
    BY <1>1, ElsewhereEffect
  <2>2. op'[x] # Idle /\ ~Waiting(op'[x])
    BY DEF Inside, Idle, Waiting
  <2>3. QED
    BY <1>1, <2>1, <2>2, ElsewhereEffect DEF Aside
<1>2. ASSUME NEW o \in Procs, Step(o)
      PROVE  AcquireLock(x) \/ StepInside(x) \/ (Inside(x) /\ Aside(x))
  <2>1. CASE o = x
    <3>1. ~Finish(x) /\ ~LockRefused(x) /\ ~RecoverDropped(x)
      BY DEF Finish, LockRefused, RecoverDropped, Become, Inside, TypeOK, Idle
    <3>2. QED
      BY <1>2, <2>1, <3>1, StepsSplit DEF StepOutside
  <2>2. CASE o # x /\ StepOutside(o)
    <3>1. op'[x] = op[x] /\ Inside(x)
      BY <2>2, OutsideStep DEF Inside
    <3>2. QED
      BY <2>2, <3>1, OutsideStep DEF Aside
  <2>3. CASE o # x /\ (StepInside(o) \/ Finish(o))
    <3>1. Inside(o) /\ ~Inside(x)
      BY <2>3, InsideStep DEF OperationsSerialized
    <3>2. op'[x].pc = op[x].pc
      BY <2>3, StepMoves DEF Moves, Finish, Become, TypeOK
    <3>3. QED
      BY <3>1, <3>2 DEF Inside
  <2>4. QED
    BY <1>2, <2>1, <2>2, <2>3, StepsSplit
<1>3. QED
  BY <1>1, <1>2, NextSplit

-----------------------------------------------------------------------------
(* The shape of an operation's locals.                                     *)

\* The actions of an operation by what they are about.
Queues(o) == AcquireLock(o) \/ LockRefused(o) \/ RecoverDropped(o)
Resolves(o) == Recheck(o) \/ Landed(o) \/ GiveUp(o)
Begins(o) == BeginSeed(o) \/ BeginPromote(o) \/ BeginRollback(o)
BeginsUnjournaled(o) == SourceUnhealthy(o) \/ BeginRestart(o) \/ Refuse(o)
Deploys(o) == DeployOk(o) \/ DeployFails(o) \/ RestartPods(o)
Checks(o) == CheckPasses(o) \/ CheckFails(o)
Saves(o) == Persist(o) \/ Save(o) \/ NothingToRestore(o) \/ RollbackSave(o)
RollsBack(o) ==
  \/ RollbackDeployOk(o) \/ RollbackDeployFails(o)
  \/ RollbackCheckPasses(o) \/ RollbackCheckFails(o)
Records(o) == RecordOutcome(o) \/ RecordUnhealthy(o) \/ RollbackRecord(o)
Ends(o) == ClearAttempt(o) \/ Chain(o) \/ Finish(o)

LEMMA StepKinds ==
  ASSUME NEW o \in Procs, Step(o)
  PROVE  \/ Queues(o) \/ Resolves(o) \/ Begins(o) \/ BeginsUnjournaled(o)
         \/ Deploys(o) \/ Checks(o) \/ Saves(o) \/ RollsBack(o) \/ Records(o)
         \/ Ends(o)
BY DEF Step, Queues, Resolves, Begins, BeginsUnjournaled, Deploys, Checks, Saves,
       RollsBack, Records, Ends

LEMMA ShapedStep ==
  ASSUME TypeOK, NEW o \in Procs, Shaped(o), Step(o)
  PROVE  Shaped(o)'
<1> DEFINE me == op[o]
<1>0. me \in OpRec /\ op \in [Procs -> OpRec]
  BY DEF TypeOK
<1> USE DEF Shaped, Become, Goto, RollingBack, OpRec
<1>1. CASE Queues(o)
  <2>1. CASE AcquireLock(o)
    BY <1>0, <2>1 DEF AcquireLock
  <2>2. CASE LockRefused(o)
    BY <1>0, <2>2 DEF LockRefused, Idle
  <2>3. CASE RecoverDropped(o)
    BY <1>0, <2>3 DEF RecoverDropped, Idle
  <2>4. QED
    BY <1>1, <2>1, <2>2, <2>3 DEF Queues
<1>2. CASE Resolves(o)
  <2>1. CASE Recheck(o)
    BY <1>0, <2>1 DEF Recheck
  <2>2. CASE Landed(o)
    BY <1>0, <2>2 DEF Landed
  <2>3. CASE GiveUp(o)
    BY <1>0, <2>3 DEF GiveUp, GivenUp
  <2>4. QED
    BY <1>2, <2>1, <2>2, <2>3 DEF Resolves
<1>3. CASE Begins(o)
  <2>1. CASE BeginSeed(o)
    BY <1>0, <2>1 DEF BeginSeed
  <2>2. CASE BeginPromote(o)
    BY <1>0, <2>2 DEF BeginPromote, Promotable
  <2>3. CASE BeginRollback(o)
    BY <1>0, <2>3 DEF BeginRollback
  <2>4. QED
    BY <1>3, <2>1, <2>2, <2>3 DEF Begins
<1>4. CASE BeginsUnjournaled(o)
  <2>1. CASE SourceUnhealthy(o)
    BY <1>0, <2>1 DEF SourceUnhealthy, Promotable
  <2>2. CASE BeginRestart(o)
    BY <1>0, <2>2 DEF BeginRestart
  <2>3. CASE Refuse(o)
    BY <1>0, <2>3 DEF Refuse
  <2>4. QED
    BY <1>4, <2>1, <2>2, <2>3 DEF BeginsUnjournaled
<1>5. CASE Deploys(o)
  <2>1. CASE DeployOk(o)
    BY <1>0, <2>1 DEF DeployOk, AfterDeploy
  <2>2. CASE DeployFails(o)
    BY <1>0, <2>2 DEF DeployFails, FailedDeploy
  <2>3. CASE RestartPods(o)
    <3>1. /\ me.pc = "restart"
          /\ Goto(o, "check") \/ Become(o, [me EXCEPT !.pc = "record", !.ok = FALSE])
      BY <2>3 DEF RestartPods
    <3>2. CASE Goto(o, "check")
      BY <1>0, <3>1, <3>2
    <3>3. CASE Become(o, [me EXCEPT !.pc = "record", !.ok = FALSE])
      BY <1>0, <3>1, <3>3
    <3>4. QED
      BY <3>1, <3>2, <3>3
  <2>4. QED
    BY <1>5, <2>1, <2>2, <2>3 DEF Deploys
<1>6. CASE Checks(o)
  <2>1. CASE CheckPasses(o)
    BY <1>0, <2>1 DEF CheckPasses
  <2>2. CASE CheckFails(o)
    BY <1>0, <2>2 DEF CheckFails
  <2>3. QED
    BY <1>6, <2>1, <2>2 DEF Checks
<1>7. CASE Saves(o)
  <2>1. CASE Persist(o)
    BY <1>0, <2>1 DEF Persist
  <2>2. CASE Save(o)
    BY <1>0, <2>2 DEF Save
  <2>3. CASE NothingToRestore(o)
    BY <1>0, <2>3 DEF NothingToRestore
  <2>4. CASE RollbackSave(o)
    BY <1>0, <2>4 DEF RollbackSave
  <2>5. QED
    BY <1>7, <2>1, <2>2, <2>3, <2>4 DEF Saves
<1>8. CASE RollsBack(o)
  <2>1. CASE RollbackDeployOk(o)
    BY <1>0, <2>1 DEF RollbackDeployOk
  <2>2. CASE RollbackDeployFails(o)
    BY <1>0, <2>2 DEF RollbackDeployFails
  <2>3. CASE RollbackCheckPasses(o)
    BY <1>0, <2>3 DEF RollbackCheckPasses
  <2>4. CASE RollbackCheckFails(o)
    BY <1>0, <2>4 DEF RollbackCheckFails
  <2>5. QED
    BY <1>8, <2>1, <2>2, <2>3, <2>4 DEF RollsBack
<1>9. CASE Records(o)
  <2>1. CASE RecordOutcome(o)
    BY <1>0, <2>1 DEF RecordOutcome
  <2>2. CASE RecordUnhealthy(o)
    BY <1>0, <2>2 DEF RecordUnhealthy
  <2>3. CASE RollbackRecord(o)
    BY <1>0, <2>3 DEF RollbackRecord
  <2>4. QED
    BY <1>9, <2>1, <2>2, <2>3 DEF Records
<1>10. CASE Ends(o)
  <2>1. CASE ClearAttempt(o)
    BY <1>0, <2>1 DEF ClearAttempt
  <2>2. CASE Chain(o)
    BY <1>0, <2>2 DEF Chain
  <2>3. CASE Finish(o)
    BY <1>0, <2>3 DEF Finish, Idle
  <2>4. QED
    BY <1>10, <2>1, <2>2, <2>3 DEF Ends
<1>11. QED
  BY <1>1, <1>2, <1>3, <1>4, <1>5, <1>6, <1>7, <1>8, <1>9, <1>10, StepKinds

\* A step of an operation leaves the others alone.
LEMMA StepOthers ==
  ASSUME TypeOK, NEW o \in Procs, Step(o)
  PROVE  Others(o)
<1>1. CASE Quiet(o)
  BY <1>1, QuietUnchanged
<1>2. CASE ~Quiet(o)
  BY <1>2, BecomeOthers
     DEF Step, Quiet, LockRefused, RecoverDropped, BeginSeed, BeginPromote,
         BeginRollback, RecordOutcome, RecordUnhealthy, RollbackRecord,
         ClearAttempt, Finish, Goto
<1>3. QED
  BY <1>1, <1>2

AllShaped == \A o \in Procs : Shaped(o)

LEMMA NextShaped ==
  TypeOK /\ OperationsSerialized /\ AllShaped /\ [Next]_vars => AllShaped'
<1> SUFFICES ASSUME TypeOK, OperationsSerialized, AllShaped, [Next]_vars,
                    NEW x \in Procs
             PROVE  Shaped(x)'
  BY DEF AllShaped
<1>0. Shaped(x) /\ op[x] \in OpRec
  BY DEF AllShaped, TypeOK
<1>1. CASE Elsewhere
  <2>1. CASE op'[x] = op[x]
    BY <1>0, <2>1 DEF Shaped
  <2>2. CASE op'[x] = [op[x] EXCEPT !.expired = TRUE]
    BY <1>0, <2>2 DEF Shaped, OpRec
  <2>3. CASE op'[x] = Idle
    BY <2>3 DEF Shaped, Idle, RollingBack
  <2>4. CASE Waiting(op'[x])
    BY <2>4 DEF Shaped, Waiting, RollingBack
  <2>5. QED
    BY <1>1, <2>1, <2>2, <2>3, <2>4, ElsewhereEffect
<1>2. ASSUME NEW o \in Procs, Step(o)
      PROVE  Shaped(x)'
  <2>1. CASE x = o
    BY <1>0, <1>2, <2>1, ShapedStep
  <2>2. CASE x # o
    BY <1>0, <1>2, <2>2, StepOthers DEF Others, Shaped
  <2>3. QED
    BY <2>1, <2>2
<1>3. QED
  BY <1>1, <1>2, NextSplit

-----------------------------------------------------------------------------
(* Ids.                                                                     *)

LEMMA RecordedIds ==
  ASSUME TypeOK, NEW o \in Procs, NEW act, NEW to, NEW ok, Record(o, act, to, ok)
  PROVE  Logged' \subseteq Logged \cup {op[o].att}
<1>1. CASE op[o].expired
  BY <1>1 DEF Record, Logged
<1>2. CASE ~op[o].expired
  BY <1>2, RecordLogs
<1>3. QED
  BY <1>1, <1>2

\* The attempts an operation has after a quiet step it had before.
LEMMA QuietIds ==
  ASSUME TypeOK, NEW o \in Procs, Quiet(o)
  PROVE  op'[o].att \in {op[o].att, 0} /\ op'[o].rec \in {op[o].rec, 0}
<1> DEFINE me == op[o]
<1>0. me \in OpRec /\ op \in [Procs -> OpRec]
  BY DEF TypeOK
<1> USE DEF Become, Goto, OpRec
<1>1. CASE AcquireLock(o)
  BY <1>0, <1>1 DEF AcquireLock
<1>2. CASE BeginRestart(o)
  BY <1>0, <1>2 DEF BeginRestart
<1>3. CASE SourceUnhealthy(o)
  BY <1>0, <1>3 DEF SourceUnhealthy
<1>4. CASE Refuse(o)
  BY <1>0, <1>4 DEF Refuse
<1>5. CASE DeployOk(o)
  BY <1>0, <1>5 DEF DeployOk, AfterDeploy
<1>6. CASE DeployFails(o)
  BY <1>0, <1>6 DEF DeployFails, FailedDeploy
<1>7. CASE RestartPods(o)
  <2>1. CASE Goto(o, "check")
    BY <1>0, <2>1
  <2>2. CASE Become(o, [me EXCEPT !.pc = "record", !.ok = FALSE])
    BY <1>0, <2>2
  <2>3. QED
    BY <1>7, <2>1, <2>2 DEF RestartPods
<1>8. CASE CheckPasses(o)
  BY <1>0, <1>8 DEF CheckPasses
<1>9. CASE CheckFails(o)
  BY <1>0, <1>9 DEF CheckFails
<1>10. CASE Persist(o)
  BY <1>0, <1>10 DEF Persist
<1>11. CASE Save(o)
  BY <1>0, <1>11 DEF Save
<1>12. CASE NothingToRestore(o)
  BY <1>0, <1>12 DEF NothingToRestore
<1>13. CASE RollbackSave(o)
  BY <1>0, <1>13 DEF RollbackSave
<1>14. CASE RollbackDeployOk(o)
  BY <1>0, <1>14 DEF RollbackDeployOk
<1>15. CASE RollbackDeployFails(o)
  BY <1>0, <1>15 DEF RollbackDeployFails
<1>16. CASE RollbackCheckPasses(o)
  BY <1>0, <1>16 DEF RollbackCheckPasses
<1>17. CASE RollbackCheckFails(o)
  BY <1>0, <1>17 DEF RollbackCheckFails
<1>18. CASE Recheck(o)
  BY <1>0, <1>18 DEF Recheck
<1>19. CASE Landed(o)
  BY <1>0, <1>19 DEF Landed
<1>20. CASE GiveUp(o)
  BY <1>0, <1>20 DEF GiveUp, GivenUp
<1>21. CASE Chain(o)
  BY <1>0, <1>21 DEF Chain
<1>22. QED
  BY <1>1, <1>2, <1>3, <1>4, <1>5, <1>6, <1>7, <1>8, <1>9, <1>10,
     <1>11, <1>12, <1>13, <1>14, <1>15, <1>16, <1>17, <1>18, <1>19,
     <1>20, <1>21 DEF Quiet

\* What the other steps do to the ids.
LEMMA BeginIds ==
  ASSUME TypeOK, NEW o \in Procs, Begins(o)
  PROVE  /\ op'[o].rec = op[o].rec
         /\ UNCHANGED <<history, crashes, holder>>
         /\ \/ /\ ~op[o].expired /\ op'[o].att = nextId /\ nextId' = nextId + 1
               /\ \E j : j.id = nextId /\ journal' = journal \cup {j}
            \/ op[o].expired /\ op'[o].att = 0 /\ UNCHANGED <<journal, nextId>>
<1>0. op \in [Procs -> OpRec] /\ op[o] \in OpRec
  BY DEF TypeOK
<1>1. \E act, r, from, v, prev : JournalStart(o, act, r, from, v, prev)
  BY DEF Begins, BeginSeed, BeginPromote, BeginRollback
<1>2. /\ op'[o].rec = op[o].rec /\ op'[o].att = NewAttempt(o)
      /\ UNCHANGED <<history, crashes, holder>>
  <2> USE DEF Become, OpRec, boundVars
  <2>1. CASE BeginSeed(o)
    BY <1>0, <2>1 DEF BeginSeed
  <2>2. CASE BeginPromote(o)
    BY <1>0, <2>2 DEF BeginPromote, Promotable
  <2>3. CASE BeginRollback(o)
    BY <1>0, <2>3 DEF BeginRollback
  <2>4. QED
    BY <2>1, <2>2, <2>3 DEF Begins
<1>3. QED
  BY <1>1, <1>2 DEF JournalStart, NewAttempt

LEMMA RecordsIds ==
  ASSUME TypeOK, NEW o \in Procs, Records(o)
  PROVE  /\ op'[o].rec = op[o].rec /\ op'[o].att = op[o].att
         /\ op'[o].expired = op[o].expired
         /\ UNCHANGED <<journal, nextId, state, crashes, holder>>
         /\ Logged' \subseteq Logged \cup {op[o].att}
<1>0. op \in [Procs -> OpRec] /\ op[o] \in OpRec
  BY DEF TypeOK
<1>1. \E act, to, ok : Record(o, act, to, ok)
  BY DEF Records, RecordOutcome, RecordUnhealthy, RollbackRecord
<1>2. /\ op'[o].rec = op[o].rec /\ op'[o].att = op[o].att
      /\ op'[o].expired = op[o].expired
      /\ UNCHANGED <<journal, nextId, state, crashes, holder>>
  <2> USE DEF Become, Goto, OpRec, boundVars
  <2>1. CASE RecordOutcome(o)
    BY <1>0, <2>1 DEF RecordOutcome
  <2>2. CASE RecordUnhealthy(o)
    BY <1>0, <2>2 DEF RecordUnhealthy
  <2>3. CASE RollbackRecord(o)
    BY <1>0, <2>3 DEF RollbackRecord
  <2>4. QED
    BY <2>1, <2>2, <2>3 DEF Records
<1>3. QED
  BY <1>1, <1>2, RecordedIds

\* The rest only takes rows away.
LEMMA RowsGo ==
  ASSUME TypeOK, NEW o \in Procs,
         LockRefused(o) \/ RecoverDropped(o) \/ ClearAttempt(o) \/ Finish(o)
  PROVE  /\ op'[o].att \in {op[o].att, 0} /\ op'[o].rec \in {op[o].rec, 0}
         /\ journal' \subseteq journal
         /\ UNCHANGED <<history, nextId, state, crashes>>
<1>0. op \in [Procs -> OpRec] /\ op[o] \in OpRec
  BY DEF TypeOK
<1>1. UNCHANGED journal \/ \E id : JournalEnd(id)
  BY DEF LockRefused, RecoverDropped, ClearAttempt, Finish, storeVars
<1>2. /\ op'[o].att \in {op[o].att, 0} /\ op'[o].rec \in {op[o].rec, 0}
      /\ UNCHANGED <<history, nextId, state, crashes>>
  BY <1>0 DEF LockRefused, RecoverDropped, ClearAttempt, Finish, Become, Goto, Idle,
              OpRec, storeVars, boundVars
<1>3. QED
  BY <1>1, <1>2, JournalEndIds

\* Every step of an operation is of one of these sorts.
LEMMA StepSorts ==
  ASSUME NEW o \in Procs, Step(o)
  PROVE  \/ Quiet(o) \/ Begins(o) \/ Records(o)
         \/ LockRefused(o) \/ RecoverDropped(o) \/ ClearAttempt(o) \/ Finish(o)
BY DEF Step, Quiet, Begins, Records

LEMMA NextNumbered ==
  TypeOK /\ OperationsSerialized /\ Numbered /\ [Next]_vars => Numbered'
<1> SUFFICES ASSUME TypeOK, OperationsSerialized, Numbered, [Next]_vars
             PROVE  Numbered'
  OBVIOUS
<1> USE DEF Numbered
<1>0. nextId \in Nat \ {0}
  BY DEF TypeOK
<1>1. ASSUME NEW o \in Procs, Step(o)
      PROVE  Numbered'
  <2>0. Others(o)
    BY <1>1, StepOthers
  <2>1. CASE Quiet(o)
    BY <2>0, <2>1, QuietUnchanged, QuietIds, <1>0 DEF Others, Logged
  <2>2. CASE Begins(o)
    <3>1. nextId' \in Nat /\ nextId' >= nextId /\ Logged' = Logged
      BY <1>0, <2>2, BeginIds DEF Logged
    <3>2. op'[o].att \in 0 .. nextId' - 1 /\ op'[o].rec \in 0 .. nextId' - 1
      BY <1>0, <2>2, <3>1, BeginIds
    <3>3. \A j \in journal' : j.id \in 1 .. nextId' - 1
      BY <1>0, <2>2, <3>1, BeginIds
    <3>4. \A x \in Procs \ {o} : op'[x].att \in 0 .. nextId' - 1 /\ op'[x].rec \in 0 .. nextId' - 1
      BY <1>0, <2>0, <3>1 DEF Others
    <3>5. Logged' \subseteq 0 .. nextId' - 1
      BY <1>0, <3>1, LongerInterval
    <3>6. \A x \in Procs : op'[x].att \in 0 .. nextId' - 1 /\ op'[x].rec \in 0 .. nextId' - 1
      BY <3>2, <3>4
    <3> HIDE DEF Numbered
    <3>7. QED
      BY <3>3, <3>5, <3>6 DEF Numbered
  <2>3. CASE Records(o)
    BY <2>0, <2>3, RecordsIds DEF Others
  <2>4. CASE LockRefused(o) \/ RecoverDropped(o) \/ ClearAttempt(o) \/ Finish(o)
    BY <1>0, <2>0, <2>4, RowsGo DEF Others, Logged
  <2>5. QED
    BY <1>1, <2>1, <2>2, <2>3, <2>4, StepSorts
<1>2. CASE Elsewhere
  <2>1. UNCHANGED <<history, nextId, journal>> /\ Logged' = Logged
    BY <1>2, ElsewhereKeeps DEF Logged
  <2>2. ASSUME NEW x \in Procs
        PROVE  op'[x].att \in 0 .. nextId - 1 /\ op'[x].rec \in 0 .. nextId - 1
    <3>1. op[x] \in OpRec
      BY DEF TypeOK
    <3>2. CASE op'[x] = op[x] \/ op'[x] = [op[x] EXCEPT !.expired = TRUE]
      BY <3>1, <3>2 DEF OpRec
    <3>3. CASE op'[x] = Idle
      BY <1>0, <3>3 DEF Idle
    <3>4. CASE Waiting(op'[x]) /\ (op'[x].rec = 0 \/ op'[x].rec \in Ids)
      BY <1>0, <3>4 DEF Waiting, Ids
    <3>5. QED
      BY <1>2, <3>2, <3>3, <3>4, ElsewhereEffect
  <2>3. QED
    BY <2>1, <2>2
<1>3. QED
  BY <1>1, <1>2, NextSplit

-----------------------------------------------------------------------------
(* What a promotion ships.                                                 *)

LEMMA ProvenStep ==
  ASSUME TypeOK, NEW o \in Procs, Shaped(o), Proven(o), StepInside(o)
  PROVE  Proven(o)'
<1> DEFINE me == op[o]
<1>0. /\ me \in OpRec /\ op \in [Procs -> OpRec]
      /\ state \in [Ring -> Row] /\ Shaped(o) /\ Proven(o)
  BY DEF TypeOK
<1> USE DEF Shaped, Proven, Become, Goto, Deploying, RollingBack, OpRec, Row, storeVars
<1>1. CASE BeginSeed(o)
  BY <1>0, <1>1 DEF BeginSeed
<1>2. CASE BeginPromote(o)
  <2>1. /\ me.ring \in Ring /\ NextRing(me.ring) # me.ring
        /\ me.pc = "begin" /\ me.act = "promote" /\ ~me.expired
        /\ UNCHANGED state
    BY <1>0, <1>2 DEF BeginPromote, Promotable, NextRing, Ring
  <2>2. /\ op'[o].pc = "deploy" /\ op'[o].act = "promote" /\ op'[o].kind = me.kind
        /\ op'[o].from = me.ring /\ op'[o].ring = NextRing(me.ring)
        /\ op'[o].version = DeployVersion(NextRing(me.ring), state[me.ring].cur)
    BY <1>0, <1>2, <2>1 DEF BeginPromote
  <2>3. QED
    BY <1>0, <2>1, <2>2 DEF DeployVersion
<1>3. CASE SourceUnhealthy(o)
  BY <1>0, <1>3 DEF SourceUnhealthy, Promotable
<1>4. CASE BeginRollback(o)
  BY <1>0, <1>4 DEF BeginRollback
<1>5. CASE BeginRestart(o)
  BY <1>0, <1>5 DEF BeginRestart
<1>6. CASE Refuse(o)
  BY <1>0, <1>6 DEF Refuse
<1>7. CASE DeployOk(o)
  BY <1>0, <1>7 DEF DeployOk, AfterDeploy
<1>8. CASE DeployFails(o)
  BY <1>0, <1>8 DEF DeployFails, FailedDeploy
<1>9. CASE RestartPods(o)
  <2>1. /\ me.pc = "restart" /\ UNCHANGED storeVars
        /\ Goto(o, "check") \/ Become(o, [me EXCEPT !.pc = "record", !.ok = FALSE])
    BY <1>9 DEF RestartPods
  <2>2. CASE Goto(o, "check")
    BY <1>0, <2>1, <2>2
  <2>3. CASE Become(o, [me EXCEPT !.pc = "record", !.ok = FALSE])
    BY <1>0, <2>1, <2>3
  <2>4. QED
    BY <2>1, <2>2, <2>3
<1>10. CASE Persist(o)
  BY <1>0, <1>10 DEF Persist, SaveState
<1>11. CASE CheckPasses(o)
  BY <1>0, <1>11 DEF CheckPasses
<1>12. CASE CheckFails(o)
  BY <1>0, <1>12 DEF CheckFails
<1>13. CASE Save(o)
  BY <1>0, <1>13 DEF Save, SaveState
<1>14. CASE RecordOutcome(o)
  BY <1>0, <1>14 DEF RecordOutcome
<1>15. CASE RecordUnhealthy(o)
  BY <1>0, <1>15 DEF RecordUnhealthy
<1>16. CASE NothingToRestore(o)
  BY <1>0, <1>16 DEF NothingToRestore, SaveState
<1>17. CASE RollbackDeployOk(o)
  BY <1>0, <1>17 DEF RollbackDeployOk
<1>18. CASE RollbackDeployFails(o)
  BY <1>0, <1>18 DEF RollbackDeployFails
<1>19. CASE RollbackCheckPasses(o)
  BY <1>0, <1>19 DEF RollbackCheckPasses
<1>20. CASE RollbackCheckFails(o)
  BY <1>0, <1>20 DEF RollbackCheckFails
<1>21. CASE RollbackSave(o)
  BY <1>0, <1>21 DEF RollbackSave, SaveState
<1>22. CASE RollbackRecord(o)
  BY <1>0, <1>22 DEF RollbackRecord
<1>23. CASE ClearAttempt(o)
  BY <1>0, <1>23 DEF ClearAttempt, ChainsOn
<1>24. CASE Chain(o)
  BY <1>0, <1>24 DEF Chain
<1>25. CASE Recheck(o)
  BY <1>0, <1>25 DEF Recheck
<1>26. CASE Landed(o)
  BY <1>0, <1>26 DEF Landed
<1>27. CASE GiveUp(o)
  BY <1>0, <1>27 DEF GiveUp, GivenUp
<1>28. QED
  BY <1>1, <1>2, <1>3, <1>4, <1>5, <1>6, <1>7, <1>8, <1>9, <1>10,
     <1>11, <1>12, <1>13, <1>14, <1>15, <1>16, <1>17, <1>18, <1>19,
     <1>20, <1>21, <1>22, <1>23, <1>24, <1>25, <1>26, <1>27
     DEF StepInside, Step

AllProven == \A o \in Procs : Proven(o)

LEMMA NextProven ==
  TypeOK /\ OperationsSerialized /\ AllShaped /\ AllProven /\ [Next]_vars => AllProven'
<1> SUFFICES ASSUME TypeOK, OperationsSerialized, AllShaped, AllProven, [Next]_vars,
                    NEW x \in Procs
             PROVE  Proven(x)'
  BY DEF AllProven
<1>0. /\ op[x] \in OpRec /\ op \in [Procs -> OpRec] /\ state \in [Ring -> Row]
      /\ Shaped(x) /\ Proven(x)
  BY DEF TypeOK, AllShaped, AllProven
<1>1. CASE ~Inside(x)'
  BY <1>1 DEF Inside, Proven, Deploying
<1>2. CASE AcquireLock(x)
  BY <1>0, <1>2 DEF AcquireLock, Goto, Become, Shaped, Proven, Deploying, OpRec
<1>3. CASE StepInside(x)
  BY <1>0, <1>3, ProvenStep
<1>4. CASE Inside(x) /\ Aside(x)
  BY <1>0, <1>4 DEF Aside, Proven, OpRec
<1>5. QED
  BY <1>1, <1>2, <1>3, <1>4, Acts

\* Initially nobody is at work.
LEMMA NobodyInside ==
  ASSUME Init
  PROVE  AllShaped /\ AllProven /\ Numbered
<1>1. \A o \in Procs : op[o] = Idle
  BY DEF Init
<1>2. nextId = 1 /\ journal = {} /\ Logged = {}
  BY DEF Init, Logged
<1>3. /\ Idle.pc = "idle" /\ Idle.rec = 0 /\ Idle.att = 0 /\ ~Idle.ok
      /\ Idle.kind = Idle.act
  BY DEF Idle
<1>4. AllShaped
  BY <1>1, <1>3, Zenon DEF AllShaped, Shaped, RollingBack
<1>5. AllProven
  BY <1>1, <1>3 DEF AllProven, Proven, Deploying
<1>6. Numbered
  BY <1>1, <1>2, <1>3 DEF Numbered
<1>7. QED
  BY <1>4, <1>5, <1>6

\* What a hop ships is what its source is recorded to run, and a chain goes on
\* only from a ring recorded healthy, whatever fails, expires or crashes.
THEOREM ShipsRecordedSource == Spec => []PromotesRecordedSource
<1>1. Init => AllShaped /\ AllProven
  BY NobodyInside
<1>2. AllProven => PromotesRecordedSource
  BY DEF AllProven, Proven, PromotesRecordedSource, Deploying
<1>3. QED
  BY <1>1, <1>2, TypeCorrect, Serialized, NextShaped, NextProven, PTL DEF Spec

-----------------------------------------------------------------------------
(* Who owns a journal row.                                                  *)

\* Unless a process dies, what happens elsewhere leaves the lock and whoever
\* holds it alone, but for an expired context.
LEMMA ElsewhereAlive ==
  ASSUME TypeOK, OperationsSerialized, Elsewhere, crashes' = 0
  PROVE  /\ UNCHANGED <<holder, crashes>>
         /\ \A x \in Procs : Inside(x) =>
              op'[x] = op[x] \/ op'[x] = [op[x] EXCEPT !.expired = TRUE]
<1> USE DEF storeVars, worldVars, serviceVars, boundVars
<1>1. CASE \E o \in Procs : Expire(o)
  BY <1>1 DEF Expire, Become, TypeOK
<1>2. CASE \E o \in Procs, p \in Replicas, r \in Ring : Api(o, p, r)
  <2>0. PICK o \in Procs, p \in Replicas, r \in Ring : Api(o, p, r)
    BY <1>2
  <2>1. PICK kind, v : Request(o, p, kind, r, v)
    BY <2>0 DEF Api, RequestSeed, RequestPromote, RequestRollback, RequestRestart
  <2>2. op[o].pc = "idle" /\ \A x \in Procs \ {o} : op'[x] = op[x]
    BY <2>1 DEF Request, Become, TypeOK
  <2>3. QED
    BY <2>1, <2>2 DEF Request, Inside
<1>3. CASE \E p \in Replicas, r \in Ring, b \in BOOLEAN : SetAutoPromote(p, r, b)
  BY <1>3 DEF SetAutoPromote
<1>4. CASE \E p \in Replicas : Crash(p)
  BY <1>4 DEF Crash, TypeOK
<1>5. CASE \E p \in Replicas : Boot(p)
  <2>1. PICK p \in Replicas : Boot(p)
    BY <1>5
  <2>2. PICK slot \in [Leftover -> IdleSlots] :
          op' = [o \in Procs |->
                   IF \E j \in Leftover : slot[j] = o
                   THEN RecoverOp(p, CHOOSE j \in Leftover : slot[j] = o)
                   ELSE op[o]]
    BY <2>1 DEF Boot
  <2>3. \A x \in Procs : Inside(x) => op'[x] = op[x]
    BY <2>2 DEF IdleSlots, Inside
  <2>4. QED
    BY <2>1, <2>3 DEF Boot
<1>6. CASE (\E d \in orphans : Land(d)) \/ UNCHANGED vars
  BY <1>6 DEF Land, vars
<1>7. QED
  BY <1>1, <1>2, <1>3, <1>4, <1>5, <1>6 DEF Elsewhere

\* A quiet step inside a hop stays in it, and inside the lock no quiet step
\* lets go of it.
LEMMA QuietHop ==
  ASSUME TypeOK, NEW o \in Procs, Quiet(o), op[o].pc \in Hopping
  PROVE  op'[o].att = op[o].att /\ op'[o].rec = op[o].rec /\ op'[o].pc \in Hopping
<1> DEFINE me == op[o]
<1>0. me \in OpRec /\ op \in [Procs -> OpRec] /\ me.pc \in Hopping
  BY DEF TypeOK
<1> USE DEF Become, Goto, OpRec, Hopping, Deploying, RollingBack
<1>1. CASE DeployOk(o)
  BY <1>0, <1>1 DEF DeployOk, AfterDeploy
<1>2. CASE DeployFails(o)
  BY <1>0, <1>2 DEF DeployFails, FailedDeploy
<1>3. CASE Persist(o)
  BY <1>0, <1>3 DEF Persist
<1>4. CASE CheckPasses(o)
  BY <1>0, <1>4 DEF CheckPasses
<1>5. CASE CheckFails(o)
  BY <1>0, <1>5 DEF CheckFails
<1>6. CASE Save(o)
  BY <1>0, <1>6 DEF Save
<1>7. CASE NothingToRestore(o)
  BY <1>0, <1>7 DEF NothingToRestore
<1>8. CASE RollbackDeployOk(o)
  BY <1>0, <1>8 DEF RollbackDeployOk
<1>9. CASE RollbackDeployFails(o)
  BY <1>0, <1>9 DEF RollbackDeployFails
<1>10. CASE RollbackCheckPasses(o)
  BY <1>0, <1>10 DEF RollbackCheckPasses
<1>11. CASE RollbackCheckFails(o)
  BY <1>0, <1>11 DEF RollbackCheckFails
<1>12. CASE RollbackSave(o)
  BY <1>0, <1>12 DEF RollbackSave
<1>13. CASE \/ AcquireLock(o) \/ BeginRestart(o) \/ SourceUnhealthy(o) \/ Refuse(o)
          \/ RestartPods(o) \/ Recheck(o) \/ Landed(o) \/ GiveUp(o) \/ Chain(o)
  BY <1>0, <1>13 DEF AcquireLock, BeginRestart, SourceUnhealthy, Promotable, Refuse,
     RestartPods, Recheck, Landed, GiveUp, Chain
<1>14. QED
  BY <1>1, <1>2, <1>3, <1>4, <1>5, <1>6, <1>7, <1>8, <1>9, <1>10,
     <1>11, <1>12, <1>13 DEF Quiet

LEMMA OwnedInside ==
  ASSUME TypeOK, OperationsSerialized, Numbered, Owned, NEW o \in Procs, Inside(o),
         Step(o), crashes' = 0
  PROVE  Owned'
<1>0. /\ holder = o /\ op \in [Procs -> OpRec] /\ op[o] \in OpRec
      /\ crashes \in Nat /\ nextId \in Nat \ {0}
  BY DEF OperationsSerialized, TypeOK
<1>1. CASE Quiet(o)
  <2>1. UNCHANGED <<journal, crashes, holder>>
    BY <1>1, QuietUnchanged
       DEF Quiet, storeVars, serviceVars, boundVars, AcquireLock, Inside, BeginRestart,
         SourceUnhealthy, Refuse, DeployOk, DeployFails, RestartPods, Persist,
         CheckPasses, CheckFails, Save, NothingToRestore, RollbackDeployOk,
         RollbackDeployFails, RollbackCheckPasses, RollbackCheckFails,
         RollbackSave, Chain, Recheck, Landed, GiveUp
  <2>2. QED
    BY <1>0, <1>1, <2>1, QuietHop DEF Owned
<1>2. CASE Begins(o)
  <2>1. journal = {} /\ crashes = 0
    <3>1. op[o].pc = "begin"
      BY <1>2 DEF Begins, BeginSeed, BeginPromote, Promotable, BeginRollback
    <3>2. QED
      BY <1>0, <1>2, <3>1, BeginIds DEF Owned, Hopping, Deploying, RollingBack
  <2>2. op'[o].pc \in {"deploy", "rbdeploy"}
    <3> USE DEF Become, OpRec
    <3>1. CASE BeginSeed(o)
      BY <1>0, <3>1 DEF BeginSeed
    <3>2. CASE BeginPromote(o)
      BY <1>0, <3>2 DEF BeginPromote
    <3>3. CASE BeginRollback(o)
      BY <1>0, <3>3 DEF BeginRollback
    <3>4. QED
      BY <1>2, <3>1, <3>2, <3>3 DEF Begins
  <2>3. op[o].rec < nextId
    BY <1>0 DEF Numbered
  <2>4. QED
    BY <1>0, <1>2, <2>1, <2>2, <2>3, BeginIds DEF Owned, Hopping, Deploying, OpRec
<1>3. CASE Records(o)
  <2>1. op'[o].pc \in Hopping
    <3> USE DEF Become, Goto, OpRec, Hopping, Deploying, RollingBack
    <3>1. CASE RecordOutcome(o)
      BY <1>0, <3>1 DEF RecordOutcome
    <3>2. CASE RecordUnhealthy(o)
      BY <1>0, <3>2 DEF RecordUnhealthy
    <3>3. CASE RollbackRecord(o)
      BY <1>0, <3>3 DEF RollbackRecord
    <3>4. QED
      BY <1>3, <3>1, <3>2, <3>3 DEF Records
  <2>2. QED
    BY <1>0, <1>3, <2>1, RecordsIds DEF Owned
<1>4. CASE ClearAttempt(o) \/ Finish(o)
  <2>1. op[o].pc = "finish" \/ (op[o].pc = "clear" /\ ClearAttempt(o))
    BY <1>4 DEF ClearAttempt, Finish
  <2>2. UNCHANGED crashes /\ journal' \subseteq journal
    BY <1>4, RowsGo
  <2>3. ASSUME NEW j \in journal'
        PROVE  FALSE
    <3>1. /\ op[o].att = j.id /\ op[o].att # op[o].rec /\ op[o].pc \in Hopping
      BY <1>0, <2>2, <2>3 DEF Owned
    <3>2. ClearAttempt(o) /\ Clears(op[o])
      BY <1>4, <2>1, <3>1 DEF Hopping, Deploying, RollingBack, Clears
    <3>3. JournalEnd(op[o].att)
      BY <3>2 DEF ClearAttempt
    <3>4. QED
      BY <2>3, <3>1, <3>3 DEF JournalEnd
  <2>4. QED
    BY <2>3 DEF Owned
<1>5. CASE LockRefused(o) \/ RecoverDropped(o)
  BY <1>5 DEF LockRefused, RecoverDropped, Inside
<1>6. QED
  BY <1>1, <1>2, <1>3, <1>4, <1>5, StepSorts

LEMMA NextOwned ==
  TypeOK /\ OperationsSerialized /\ Numbered /\ Owned /\ [Next]_vars => Owned'
<1> SUFFICES ASSUME TypeOK, OperationsSerialized, Numbered, Owned, [Next]_vars,
                    crashes' = 0
             PROVE  Owned'
  BY DEF Owned
<1>1. CASE Elsewhere
  <2>1. journal' = journal /\ holder' = holder /\ crashes = 0
    BY <1>1, ElsewhereKeeps, ElsewhereAlive
  <2>2. ASSUME NEW j \in journal
        PROVE  /\ holder \in Procs /\ op'[holder].att = j.id
               /\ op'[holder].att # op'[holder].rec /\ op'[holder].pc \in Hopping
    <3>1. /\ holder \in Procs /\ Inside(holder) /\ op[holder].att = j.id
          /\ op[holder].att # op[holder].rec /\ op[holder].pc \in Hopping
          /\ op[holder] \in OpRec
      BY <2>1 DEF Owned, OperationsSerialized, TypeOK
    <3>2. op'[holder] = op[holder] \/ op'[holder] = [op[holder] EXCEPT !.expired = TRUE]
      BY <1>1, <3>1, ElsewhereAlive
    <3>3. QED
      BY <3>1, <3>2 DEF OpRec
  <2>3. QED
    BY <2>1, <2>2 DEF Owned
<1>2. ASSUME NEW o \in Procs, Step(o)
      PROVE  Owned'
  <2>1. CASE Inside(o)
    BY <1>2, <2>1, OwnedInside
  <2>2. CASE ~Inside(o)
    <3>1. StepOutside(o)
      BY <1>2, <2>2, StepsSplit, InsideStep
    <3>2. journal' \subseteq journal /\ crashes = 0
      BY <3>1, OutsideStep
    <3>3. ASSUME NEW j \in journal
          PROVE  /\ holder' = holder /\ holder \in Procs /\ op'[holder] = op[holder]
                 /\ op[holder].att = j.id
                 /\ op[holder].att # op[holder].rec /\ op[holder].pc \in Hopping
      <4>1. /\ holder \in Procs /\ Inside(holder) /\ op[holder].att = j.id
            /\ op[holder].att # op[holder].rec /\ op[holder].pc \in Hopping
        BY <3>2 DEF Owned, OperationsSerialized
      <4>2. QED
        BY <2>2, <3>1, <4>1, OutsideStep
    <3>4. QED
      BY <3>2, <3>3 DEF Owned
  <2>3. QED
    BY <2>1, <2>2
<1>3. QED
  BY <1>1, <1>2, NextSplit

\* Without a crash every journal row is the attempt of the operation that holds
\* the application's lock.
THEOREM LeftoversMeanCrashes == Spec => []LeftoverMeansCrash
<1>1. Init => Owned
  BY DEF Init, Owned
<1>2. Owned => LeftoverMeansCrash
  BY ProcAssumption DEF Owned, LeftoverMeansCrash
<1>3. QED
  BY <1>1, <1>2, NobodyInside, TypeCorrect, Serialized, NextNumbered, NextOwned, PTL
     DEF Spec

-----------------------------------------------------------------------------
(* Each attempt is recorded once for each action.                           *)

LEMMA StepCrashes ==
  ASSUME NEW o \in Procs, Step(o)
  PROVE  crashes' = crashes
BY DEF Step, StepOutside, AcquireLock, LockRefused, RecoverDropped, BeginSeed,
       BeginPromote, SourceUnhealthy, BeginRollback, BeginRestart, Refuse, DeployOk,
       DeployFails, RestartPods, Persist, CheckPasses, CheckFails, Save, RecordOutcome,
       RecordUnhealthy, NothingToRestore, RollbackDeployOk, RollbackDeployFails,
       RollbackCheckPasses, RollbackCheckFails, RollbackSave, RollbackRecord,
       ClearAttempt, Chain, Finish, Recheck, Landed, GiveUp, boundVars

\* Without a crash a recovery finds its row gone.
LEMMA RedundantStep ==
  ASSUME TypeOK, NEW o \in Procs, holder = o, Owned, Redundant(o), StepInside(o)
  PROVE  Redundant(o)'
<1> SUFFICES ASSUME crashes = 0, op'[o].kind = "recover"
             PROVE  op'[o].pc \in {"lock", "recheck", "finish", "idle"}
  BY StepCrashes DEF StepInside, Redundant
<1> DEFINE me == op[o]
<1>0. /\ me \in OpRec /\ op \in [Procs -> OpRec]
      /\ me.kind = "recover" => me.pc \in {"lock", "recheck", "finish", "idle"}
  BY DEF TypeOK, Redundant
<1>j. me.pc = "recheck" => Ids = {}
  BY DEF Owned, Hopping, Deploying, RollingBack, Ids
<1> USE DEF Become, Goto, OpRec
<1>1. CASE BeginSeed(o)
  BY <1>0, <1>1 DEF BeginSeed
<1>2. CASE BeginPromote(o)
  BY <1>0, <1>2 DEF BeginPromote, Promotable
<1>3. CASE SourceUnhealthy(o)
  BY <1>0, <1>3 DEF SourceUnhealthy, Promotable
<1>4. CASE BeginRollback(o)
  BY <1>0, <1>4 DEF BeginRollback
<1>5. CASE BeginRestart(o)
  BY <1>0, <1>5 DEF BeginRestart
<1>6. CASE Refuse(o)
  BY <1>0, <1>6 DEF Refuse
<1>7. CASE DeployOk(o)
  BY <1>0, <1>7 DEF DeployOk, AfterDeploy
<1>8. CASE DeployFails(o)
  BY <1>0, <1>8 DEF DeployFails, FailedDeploy
<1>9. CASE RestartPods(o)
  <2>1. /\ me.pc = "restart" /\ UNCHANGED storeVars
        /\ Goto(o, "check") \/ Become(o, [me EXCEPT !.pc = "record", !.ok = FALSE])
    BY <1>9 DEF RestartPods
  <2>2. CASE Goto(o, "check")
    BY <1>0, <2>1, <2>2
  <2>3. CASE Become(o, [me EXCEPT !.pc = "record", !.ok = FALSE])
    BY <1>0, <2>1, <2>3
  <2>4. QED
    BY <2>1, <2>2, <2>3
<1>10. CASE Persist(o)
  BY <1>0, <1>10 DEF Persist, SaveState
<1>11. CASE CheckPasses(o)
  BY <1>0, <1>11 DEF CheckPasses
<1>12. CASE CheckFails(o)
  BY <1>0, <1>12 DEF CheckFails
<1>13. CASE Save(o)
  BY <1>0, <1>13 DEF Save, SaveState
<1>14. CASE RecordOutcome(o)
  BY <1>0, <1>14 DEF RecordOutcome
<1>15. CASE RecordUnhealthy(o)
  BY <1>0, <1>15 DEF RecordUnhealthy
<1>16. CASE NothingToRestore(o)
  BY <1>0, <1>16 DEF NothingToRestore, SaveState
<1>17. CASE RollbackDeployOk(o)
  BY <1>0, <1>17 DEF RollbackDeployOk
<1>18. CASE RollbackDeployFails(o)
  BY <1>0, <1>18 DEF RollbackDeployFails
<1>19. CASE RollbackCheckPasses(o)
  BY <1>0, <1>19 DEF RollbackCheckPasses
<1>20. CASE RollbackCheckFails(o)
  BY <1>0, <1>20 DEF RollbackCheckFails
<1>21. CASE RollbackSave(o)
  BY <1>0, <1>21 DEF RollbackSave, SaveState
<1>22. CASE RollbackRecord(o)
  BY <1>0, <1>22 DEF RollbackRecord
<1>23. CASE ClearAttempt(o)
  BY <1>0, <1>23 DEF ClearAttempt, ChainsOn
<1>24. CASE Chain(o)
  BY <1>0, <1>24 DEF Chain
<1>25. CASE Recheck(o)
  BY <1>0, <1>25, <1>j DEF Recheck, StillJournaled
<1>26. CASE Landed(o)
  BY <1>0, <1>26 DEF Landed
<1>27. CASE GiveUp(o)
  BY <1>0, <1>27 DEF GiveUp, GivenUp
<1>28. QED
  BY <1>1, <1>2, <1>3, <1>4, <1>5, <1>6, <1>7, <1>8, <1>9, <1>10,
     <1>11, <1>12, <1>13, <1>14, <1>15, <1>16, <1>17, <1>18, <1>19,
     <1>20, <1>21, <1>22, <1>23, <1>24, <1>25, <1>26, <1>27
     DEF StepInside, Step


AllRedundant == \A o \in Procs : Redundant(o)

LEMMA NextRedundant ==
  TypeOK /\ OperationsSerialized /\ Owned /\ AllRedundant /\ [Next]_vars => AllRedundant'
<1> SUFFICES ASSUME TypeOK, OperationsSerialized, Owned, AllRedundant, [Next]_vars,
                    NEW x \in Procs, crashes' = 0
             PROVE  Redundant(x)'
  BY DEF AllRedundant, Redundant
<1>0. op[x] \in OpRec /\ op \in [Procs -> OpRec] /\ Redundant(x)
  BY DEF TypeOK, AllRedundant
<1>1. CASE ~Inside(x)'
  BY <1>1 DEF Inside, Redundant
<1>2. CASE AcquireLock(x)
  BY <1>0, <1>2 DEF AcquireLock, Goto, Become, Redundant, OpRec
<1>3. CASE StepInside(x)
  <2>1. holder = x
    BY <1>3, InsideStep DEF OperationsSerialized
  <2>2. QED
    BY <1>0, <1>3, <2>1, RedundantStep
<1>4. CASE Inside(x) /\ Aside(x)
  BY <1>0, <1>4 DEF Aside, Redundant, OpRec
<1>5. QED
  BY <1>1, <1>2, <1>3, <1>4, Acts

\* What recording an attempt adds to the history.
LEMMA RecordAppends ==
  ASSUME TypeOK, NEW o \in Procs, ~op[o].expired,
         NEW act, NEW to, NEW ok, Record(o, act, to, ok)
  PROVE  /\ Len(history) \in Nat /\ DOMAIN history = 1 .. Len(history)
         /\ DOMAIN history' = 1 .. Len(history) + 1
         /\ \A k \in DOMAIN history : history'[k] = history[k]
         /\ history'[Len(history) + 1].id = op[o].att
         /\ history'[Len(history) + 1].act = act
         /\ history'[Len(history) + 1].ring = op[o].ring
         /\ history'[Len(history) + 1].result = IF ok THEN "success" ELSE "failure"
<1> DEFINE e == [id |-> op[o].att, act |-> act, ring |-> op[o].ring, to |-> to,
                 result |-> IF ok THEN "success" ELSE "failure"]
<1>1. history' = Append(history, e)
  BY DEF Record
<1>2. history \in Seq(Entry)
  BY DEF TypeOK
<1>3. /\ e.id = op[o].att /\ e.act = act /\ e.ring = op[o].ring
      /\ e.result = IF ok THEN "success" ELSE "failure"
  OBVIOUS
<1> HIDE DEF e
<1>4. QED
  BY <1>1, <1>2, <1>3

\* The claim of an operation about the history, from what was there before it
\* recorded its attempt.
LEMMA UnrecordedStep ==
  ASSUME TypeOK, NEW o \in Procs, Numbered, Shaped(o), Redundant(o), Unrecorded(o),
         StepInside(o), Redundant(o)'
  PROVE  Unrecorded(o)'
<1> SUFFICES ASSUME crashes = 0, crashes' = 0, op'[o].att # 0
             PROVE  Unrecorded(o)'
  BY StepCrashes DEF StepInside, Unrecorded
<1> DEFINE me == op[o]
<1>0. /\ me \in OpRec /\ op \in [Procs -> OpRec] /\ nextId \in Nat \ {0}
      /\ Shaped(o) /\ Redundant(o) /\ Unrecorded(o) /\ crashes = 0 /\ crashes' = 0
  BY DEF TypeOK
<1>n. nextId \notin Logged /\ \A k \in DOMAIN history : history[k].id # nextId
  <2>1. nextId \notin 0 .. nextId - 1
    BY <1>0
  <2>2. nextId \notin Logged
    BY <2>1 DEF Numbered
  <2>3. QED
    BY <2>2 DEF Logged
<1>q. history' = history => Logged' = Logged
  BY DEF Logged
<1> USE DEF Shaped, Redundant, Unrecorded, Become, Goto, RollingBack, OpRec, storeVars
<1>1. CASE BeginSeed(o)
  BY <1>0, <1>q, <1>n, <1>1 DEF BeginSeed, JournalStart, NewAttempt
<1>2. CASE BeginPromote(o)
  BY <1>0, <1>q, <1>n, <1>2 DEF BeginPromote, Promotable, JournalStart, NewAttempt
<1>3. CASE SourceUnhealthy(o)
  BY <1>0, <1>q, <1>3 DEF SourceUnhealthy, Promotable
<1>4. CASE BeginRollback(o)
  BY <1>0, <1>q, <1>n, <1>4 DEF BeginRollback, JournalStart, NewAttempt
<1>5. CASE BeginRestart(o)
  BY <1>0, <1>q, <1>5 DEF BeginRestart
<1>6. CASE Refuse(o)
  BY <1>0, <1>q, <1>6 DEF Refuse
<1>7. CASE DeployOk(o)
  BY <1>0, <1>q, <1>7 DEF DeployOk, AfterDeploy
<1>8. CASE DeployFails(o)
  BY <1>0, <1>q, <1>8 DEF DeployFails, FailedDeploy
<1>9. CASE RestartPods(o)
  <2>1. /\ me.pc = "restart" /\ UNCHANGED storeVars
        /\ Goto(o, "check") \/ Become(o, [me EXCEPT !.pc = "record", !.ok = FALSE])
    BY <1>9 DEF RestartPods
  <2>2. CASE Goto(o, "check")
    BY <1>0, <1>q, <2>1, <2>2
  <2>3. CASE Become(o, [me EXCEPT !.pc = "record", !.ok = FALSE])
    BY <1>0, <1>q, <2>1, <2>3
  <2>4. QED
    BY <2>1, <2>2, <2>3
<1>10. CASE Persist(o)
  BY <1>0, <1>q, <1>10 DEF Persist, SaveState
<1>11. CASE CheckPasses(o)
  BY <1>0, <1>q, <1>11 DEF CheckPasses
<1>12. CASE CheckFails(o)
  BY <1>0, <1>q, <1>12 DEF CheckFails
<1>13. CASE Save(o)
  BY <1>0, <1>q, <1>13 DEF Save, SaveState
<1>14. CASE RecordOutcome(o)
  BY <1>0, <1>q, <1>14 DEF RecordOutcome
<1>15. CASE RecordUnhealthy(o)
  <2>1. /\ me.att # 0 /\ op'[o].att = me.att /\ me.act = "promote" /\ op'[o].act = me.act
        /\ me.att \notin Logged
        /\ op'[o].pc \in {"resave", "rbdeploy"}
    BY <1>0, <1>15 DEF RecordUnhealthy
  <2>2. CASE me.expired
    BY <1>0, <1>15, <1>q, <2>1, <2>2 DEF RecordUnhealthy, Record, Logged
  <2>3. CASE ~me.expired
    <3>1. ASSUME NEW k \in DOMAIN history', history'[k].id = me.att
          PROVE  history'[k].act = "promote"
      <4>1. Record(o, "promote", me.version, FALSE)
        BY <1>15 DEF RecordUnhealthy
      <4>2. \A i \in DOMAIN history : history[i].id # me.att
        BY <2>1 DEF Logged
      <4>3. /\ DOMAIN history = 1 .. Len(history) /\ DOMAIN history' = 1 .. Len(history) + 1
            /\ Len(history) \in Nat
            /\ \A i \in DOMAIN history : history'[i] = history[i]
            /\ history'[Len(history) + 1].act = "promote"
        BY <2>3, <4>1, RecordAppends
      <4>4. k \in DOMAIN history \/ k = Len(history) + 1
        BY <3>1, <4>3
      <4>5. QED
        BY <3>1, <4>2, <4>3, <4>4
    <3>2. QED
      BY <2>1, <3>1
  <2>4. QED
    BY <2>2, <2>3
<1>16. CASE NothingToRestore(o)
  BY <1>0, <1>q, <1>16 DEF NothingToRestore, SaveState
<1>17. CASE RollbackDeployOk(o)
  BY <1>0, <1>q, <1>17 DEF RollbackDeployOk
<1>18. CASE RollbackDeployFails(o)
  BY <1>0, <1>q, <1>18 DEF RollbackDeployFails
<1>19. CASE RollbackCheckPasses(o)
  BY <1>0, <1>q, <1>19 DEF RollbackCheckPasses
<1>20. CASE RollbackCheckFails(o)
  BY <1>0, <1>q, <1>20 DEF RollbackCheckFails
<1>21. CASE RollbackSave(o)
  BY <1>0, <1>q, <1>21 DEF RollbackSave, SaveState
<1>22. CASE RollbackRecord(o)
  BY <1>0, <1>q, <1>22 DEF RollbackRecord
<1>23. CASE ClearAttempt(o)
  BY <1>0, <1>q, <1>23 DEF ClearAttempt, ChainsOn
<1>24. CASE Chain(o)
  BY <1>0, <1>q, <1>24 DEF Chain
<1>25. CASE Recheck(o)
  BY <1>0, <1>q, <1>25, Redundant(o)' DEF Recheck
<1>26. CASE Landed(o)
  BY <1>0, <1>q, <1>26 DEF Landed
<1>27. CASE GiveUp(o)
  BY <1>0, <1>q, <1>27 DEF GiveUp, GivenUp
<1>28. QED
  BY <1>1, <1>2, <1>3, <1>4, <1>5, <1>6, <1>7, <1>8, <1>9, <1>10,
     <1>11, <1>12, <1>13, <1>14, <1>15, <1>16, <1>17, <1>18, <1>19,
     <1>20, <1>21, <1>22, <1>23, <1>24, <1>25, <1>26, <1>27
     DEF StepInside, Step

AllUnrecorded == \A o \in Procs : Unrecorded(o)

LEMMA NextUnrecorded ==
  /\ TypeOK /\ OperationsSerialized /\ Numbered
  /\ AllShaped /\ AllRedundant /\ AllUnrecorded
  /\ [Next]_vars /\ AllRedundant'
  => AllUnrecorded'
<1> SUFFICES ASSUME TypeOK, OperationsSerialized, Numbered,
                    AllShaped, AllRedundant, AllUnrecorded, [Next]_vars, AllRedundant',
                    NEW x \in Procs, crashes' = 0
             PROVE  Unrecorded(x)'
  BY DEF AllUnrecorded, Unrecorded
<1>0. /\ op[x] \in OpRec /\ op \in [Procs -> OpRec]
      /\ Shaped(x) /\ Redundant(x) /\ Unrecorded(x) /\ Redundant(x)'
  BY DEF TypeOK, AllShaped, AllRedundant, AllUnrecorded
<1>1. CASE ~Inside(x)'
  BY <1>1 DEF Inside, Unrecorded, RollingBack
<1>2. CASE AcquireLock(x)
  BY <1>0, <1>2 DEF AcquireLock, Goto, Become, Unrecorded, OpRec, RollingBack
<1>3. CASE StepInside(x)
  BY <1>0, <1>3, UnrecordedStep
<1>4. CASE Inside(x) /\ Aside(x)
  <2>1. history' = history /\ Logged' = Logged /\ crashes = 0
    BY <1>4 DEF Aside, Logged
  <2>2. CASE op'[x] = op[x]
    BY <1>0, <2>1, <2>2 DEF Unrecorded
  <2>3. CASE op'[x] = [op[x] EXCEPT !.expired = TRUE]
    BY <1>0, <2>1, <2>3 DEF Unrecorded, OpRec
  <2>4. QED
    BY <1>4, <2>2, <2>3 DEF Aside
<1>5. QED
  BY <1>1, <1>2, <1>3, <1>4, Acts

LEMMA RecordingOnce ==
  ASSUME TypeOK, RecordedOnce, NEW o \in Procs, Shaped(o), Redundant(o), Unrecorded(o),
         Records(o), crashes = 0
  PROVE  RecordedOnce'
<1> DEFINE me == op[o]
           n == Len(history)
<1>1. PICK act, to, ok : /\ Record(o, act, to, ok)
                         /\ \/ act = me.act /\ me.pc = "record"
                            \/ act = "promote" /\ me.pc = "unhealthy"
                            \/ act = "rollback" /\ me.pc = "rbrecord"
  BY DEF Records, RecordOutcome, RecordUnhealthy, RollbackRecord
<1>2. CASE me.expired
  BY <1>1, <1>2 DEF Record, RecordedOnce
<1>3. CASE ~me.expired
  <2>1. /\ DOMAIN history = 1 .. n /\ DOMAIN history' = 1 .. n + 1 /\ n \in Nat
        /\ \A k \in DOMAIN history : history'[k] = history[k]
        /\ history'[n + 1].id = me.att /\ history'[n + 1].act = act
    BY <1>1, <1>3, RecordAppends
  <2>2. ASSUME NEW k \in DOMAIN history, history[k].id = me.att, me.att # 0
        PROVE  history[k].act # act
    <3>1. me.att \in Logged
      BY <2>2 DEF Logged
    <3>2. me.pc = "rbrecord"
      BY <1>1, <2>2, <3>1 DEF Unrecorded
    <3>3. history[k].act = "promote"
      BY <2>2, <3>2 DEF Unrecorded
    <3>4. QED
      BY <1>1, <3>2, <3>3
  <2>3. ASSUME NEW k \in DOMAIN history', NEW l \in DOMAIN history',
               k # l, history'[k].id = history'[l].id, history'[k].id # 0
        PROVE  history'[k].act # history'[l].act
    <3>1. CASE k \in DOMAIN history /\ l \in DOMAIN history
      BY <2>1, <2>3, <3>1 DEF RecordedOnce
    <3>2. CASE k \in DOMAIN history /\ l = n + 1
      BY <2>1, <2>2, <2>3, <3>2
    <3>3. CASE k = n + 1 /\ l \in DOMAIN history
      BY <2>1, <2>2, <2>3, <3>3
    <3>4. QED
      BY <2>1, <2>3, <3>1, <3>2, <3>3
  <2>4. QED
    BY <2>3 DEF RecordedOnce
<1>4. QED
  BY <1>2, <1>3

LEMMA NextRecordedOnce ==
  /\ TypeOK /\ OperationsSerialized /\ AllShaped /\ AllRedundant /\ AllUnrecorded
  /\ RecordedOnce /\ [Next]_vars
  => RecordedOnce'
<1> SUFFICES ASSUME TypeOK, OperationsSerialized, AllShaped, AllRedundant, AllUnrecorded,
                    RecordedOnce, [Next]_vars, crashes' = 0
             PROVE  RecordedOnce'
  BY DEF RecordedOnce
<1>1. CASE Elsewhere
  <2>1. history' = history /\ crashes = 0
    BY <1>1, ElsewhereKeeps
  <2>2. QED
    BY <2>1 DEF RecordedOnce
<1>2. ASSUME NEW o \in Procs, Step(o)
      PROVE  RecordedOnce'
  <2>1. crashes = 0
    BY <1>2, StepCrashes
  <2>2. CASE Records(o)
    BY <2>1, <2>2, RecordingOnce DEF AllShaped, AllRedundant, AllUnrecorded
  <2>3. CASE Quiet(o)
    BY <2>1, <2>3, QuietUnchanged DEF RecordedOnce
  <2>4. CASE Begins(o)
    BY <2>1, <2>4, BeginIds DEF RecordedOnce
  <2>5. CASE LockRefused(o) \/ RecoverDropped(o) \/ ClearAttempt(o) \/ Finish(o)
    BY <2>1, <2>5, RowsGo DEF RecordedOnce
  <2>6. QED
    BY <1>2, <2>2, <2>3, <2>4, <2>5, StepSorts
<1>3. QED
  BY <1>1, <1>2, NextSplit

\* Initially there is nothing to record and nothing to recover.
LEMMA NothingYet ==
  ASSUME Init
  PROVE  Owned /\ AllRedundant /\ AllUnrecorded /\ RecordedOnce
<1>1. \A o \in Procs : op[o] = Idle
  BY DEF Init
<1>2. Idle.att = 0 /\ Idle.pc = "idle" /\ journal = {} /\ DOMAIN history = {}
  BY DEF Idle, Init
<1>3. QED
  BY <1>1, <1>2 DEF Owned, AllRedundant, AllUnrecorded, Redundant, Unrecorded,
                    RecordedOnce

\* Without a crash no attempt is recorded twice for the same action, although
\* a replica that starts also looks at the rows of operations still running.
THEOREM AttemptsRecordedOnce == Spec => []RecordedOnce
<1>1. Init => /\ AllShaped /\ Numbered /\ Owned /\ AllRedundant /\ AllUnrecorded
              /\ RecordedOnce
  BY NobodyInside, NothingYet
<1>2. QED
  BY <1>1, TypeCorrect, Serialized, NextShaped, NextNumbered, NextOwned, NextRedundant,
     NextUnrecorded, NextRecordedOnce, PTL DEF Spec

-----------------------------------------------------------------------------
(* The version a ring goes back to.                                         *)

LEMMA InformedStep ==
  ASSUME TypeOK, NEW o \in Procs, Shaped(o), Redundant(o), Informed(o), StepInside(o)
  PROVE  Informed(o)'
<1> SUFFICES ASSUME crashes = 0, crashes' = 0, ~op'[o].expired
             PROVE  Informed(o)'
  BY StepCrashes DEF StepInside, Informed
<1> DEFINE me == op[o]
<1>0. /\ me \in OpRec /\ op \in [Procs -> OpRec] /\ state \in [Ring -> Row]
      /\ Shaped(o) /\ Redundant(o) /\ Informed(o) /\ crashes = 0 /\ crashes' = 0
      /\ ~op'[o].expired
  BY DEF TypeOK
<1> USE DEF Shaped, Redundant, Informed, Become, Goto, RollingBack, OpRec, Row, storeVars
<1>1. CASE BeginSeed(o)
  BY <1>0, <1>1 DEF BeginSeed, CurrentVersion
<1>2. CASE BeginPromote(o)
  BY <1>0, <1>2 DEF BeginPromote, Promotable
<1>3. CASE SourceUnhealthy(o)
  BY <1>0, <1>3 DEF SourceUnhealthy, Promotable
<1>4. CASE BeginRollback(o)
  BY <1>0, <1>4 DEF BeginRollback
<1>5. CASE BeginRestart(o)
  BY <1>0, <1>5 DEF BeginRestart
<1>6. CASE Refuse(o)
  BY <1>0, <1>6 DEF Refuse
<1>7. CASE DeployOk(o)
  BY <1>0, <1>7 DEF DeployOk, AfterDeploy
<1>8. CASE DeployFails(o)
  BY <1>0, <1>8 DEF DeployFails, FailedDeploy
<1>9. CASE RestartPods(o)
  <2>1. /\ me.pc = "restart" /\ UNCHANGED storeVars
        /\ Goto(o, "check") \/ Become(o, [me EXCEPT !.pc = "record", !.ok = FALSE])
    BY <1>9 DEF RestartPods
  <2>2. CASE Goto(o, "check")
    BY <1>0, <2>1, <2>2
  <2>3. CASE Become(o, [me EXCEPT !.pc = "record", !.ok = FALSE])
    BY <1>0, <2>1, <2>3
  <2>4. QED
    BY <2>1, <2>2, <2>3
<1>10. CASE Persist(o)
  BY <1>0, <1>10 DEF Persist, SaveState
<1>11. CASE CheckPasses(o)
  <2>1. PICK v : /\ me.act = "restart" => v = me.version
                 /\ me.act # "restart" /\ me.ring \notin Pinned => v = me.version
                 /\ Become(o, [me EXCEPT !.pc = "save", !.version = v, !.ok = TRUE])
    BY <1>11 DEF CheckPasses, Recorded
  <2>2. me.pc = "check" /\ state' = state
    BY <1>11 DEF CheckPasses
  <2>3. QED
    BY <1>0, <2>1, <2>2
<1>12. CASE CheckFails(o)
  BY <1>0, <1>12 DEF CheckFails
<1>13. CASE Save(o)
  BY <1>0, <1>13 DEF Save, SaveState
<1>14. CASE RecordOutcome(o)
  BY <1>0, <1>14 DEF RecordOutcome
<1>15. CASE RecordUnhealthy(o)
  BY <1>0, <1>15 DEF RecordUnhealthy
<1>16. CASE NothingToRestore(o)
  BY <1>0, <1>16 DEF NothingToRestore, SaveState
<1>17. CASE RollbackDeployOk(o)
  BY <1>0, <1>17 DEF RollbackDeployOk
<1>18. CASE RollbackDeployFails(o)
  BY <1>0, <1>18 DEF RollbackDeployFails
<1>19. CASE RollbackCheckPasses(o)
  BY <1>0, <1>19 DEF RollbackCheckPasses
<1>20. CASE RollbackCheckFails(o)
  BY <1>0, <1>20 DEF RollbackCheckFails
<1>21. CASE RollbackSave(o)
  BY <1>0, <1>21 DEF RollbackSave, SaveState
<1>22. CASE RollbackRecord(o)
  BY <1>0, <1>22 DEF RollbackRecord
<1>23. CASE ClearAttempt(o)
  BY <1>0, <1>23 DEF ClearAttempt, ChainsOn
<1>24. CASE Chain(o)
  BY <1>0, <1>24 DEF Chain
<1>25. CASE Recheck(o)
  BY <1>0, <1>25 DEF Recheck
<1>26. CASE Landed(o)
  BY <1>0, <1>26 DEF Landed
<1>27. CASE GiveUp(o)
  BY <1>0, <1>27 DEF GiveUp, GivenUp
<1>28. QED
  BY <1>1, <1>2, <1>3, <1>4, <1>5, <1>6, <1>7, <1>8, <1>9, <1>10,
     <1>11, <1>12, <1>13, <1>14, <1>15, <1>16, <1>17, <1>18, <1>19,
     <1>20, <1>21, <1>22, <1>23, <1>24, <1>25, <1>26, <1>27
     DEF StepInside, Step


AllInformed == \A o \in Procs : Informed(o)

LEMMA NextInformed ==
  /\ TypeOK /\ OperationsSerialized /\ AllShaped /\ AllRedundant /\ AllInformed
  /\ [Next]_vars
  => AllInformed'
<1> SUFFICES ASSUME TypeOK, OperationsSerialized, AllShaped, AllRedundant, AllInformed,
                    [Next]_vars, NEW x \in Procs, crashes' = 0
             PROVE  Informed(x)'
  BY DEF AllInformed, Informed
<1>0. /\ op[x] \in OpRec /\ op \in [Procs -> OpRec]
      /\ Shaped(x) /\ Redundant(x) /\ Informed(x)
  BY DEF TypeOK, AllShaped, AllRedundant, AllInformed
<1>1. CASE ~Inside(x)'
  BY <1>1 DEF Inside, Informed, RollingBack
<1>2. CASE AcquireLock(x)
  BY <1>0, <1>2 DEF AcquireLock, Goto, Become, Informed, OpRec, RollingBack
<1>3. CASE StepInside(x)
  BY <1>0, <1>3, InformedStep
<1>4. CASE Inside(x) /\ Aside(x)
  <2>1. state' = state /\ crashes = 0
    BY <1>4 DEF Aside
  <2>2. CASE op'[x] = op[x]
    BY <1>0, <2>1, <2>2 DEF Informed
  <2>3. CASE op'[x] = [op[x] EXCEPT !.expired = TRUE]
    BY <1>0, <2>1, <2>3 DEF Informed, OpRec
  <2>4. QED
    BY <1>4, <2>2, <2>3 DEF Aside
<1>5. QED
  BY <1>1, <1>2, <1>3, <1>4, Acts

\* What a step may do to the versions of a row.
KeepsBaseline ==
  \A r \in Ring :
    VersionsOf(state'[r]) # VersionsOf(state[r]) =>
      \/ state'[r].prev = state[r].cur
      \/ r \in Pinned /\ state'[r].prev = state[r].prev

LEMMA Saved ==
  ASSUME TypeOK, NEW o \in Procs, NEW r \in Ring, NEW prev, NEW cur, NEW healthy,
         SaveState(o, r, prev, cur, healthy),
         \/ op[o].expired
         \/ prev = state[r].cur
         \/ prev = state[r].prev /\ (r \in Pinned \/ cur = state[r].cur)
  PROVE  KeepsBaseline
BY DEF SaveState, KeepsBaseline, VersionsOf, TypeOK, Row

LEMMA StepBaseline ==
  ASSUME TypeOK, NEW o \in Procs, Shaped(o), Redundant(o), Informed(o), crashes = 0,
         Step(o)
  PROVE  KeepsBaseline
<1> DEFINE me == op[o]
<1>0. me \in OpRec /\ me.ring \in Ring /\ state \in [Ring -> Row]
  BY DEF TypeOK, OpRec
<1>1. CASE Persist(o)
  BY <1>0, <1>1, Saved DEF Persist, Informed
<1>2. CASE Save(o)
  <2>1. \/ me.expired
        \/ me.prev = state[me.ring].cur
        \/ /\ me.prev = state[me.ring].prev
           /\ me.ring \in Pinned \/ me.version = state[me.ring].cur
    BY <1>2 DEF Save, Shaped, Redundant, Informed
  <2>2. QED
    BY <1>0, <1>2, <2>1, Saved DEF Save
<1>3. CASE NothingToRestore(o)
  BY <1>0, <1>3, Saved DEF NothingToRestore, Shaped, Informed
<1>4. CASE RollbackSave(o)
  BY <1>0, <1>4, Saved DEF RollbackSave, Left, Informed, RollingBack
<1>5. CASE SourceUnhealthy(o)
  <2>1. state' = [state EXCEPT ![me.ring].healthy = FALSE]
    BY <1>5 DEF SourceUnhealthy
  <2>2. QED
    BY <1>0, <2>1 DEF KeepsBaseline, VersionsOf, Row
<1>6. CASE UNCHANGED state
  BY <1>6 DEF KeepsBaseline
<1>7. CASE Records(o) \/ Begins(o) \/ LockRefused(o) \/ RecoverDropped(o)
           \/ ClearAttempt(o) \/ Finish(o)
  <2>1. state' = state
    BY <1>7, RecordsIds, RowsGo DEF Begins, BeginSeed, BeginPromote, BeginRollback
  <2>2. QED
    BY <1>6, <2>1
<1>8. CASE Quiet(o)
  <2>1. \/ Persist(o) \/ Save(o) \/ NothingToRestore(o) \/ RollbackSave(o)
        \/ SourceUnhealthy(o) \/ UNCHANGED state
    BY <1>8 DEF Quiet, storeVars, AcquireLock, BeginRestart, Refuse, DeployOk,
         DeployFails, RestartPods, CheckPasses, CheckFails, RollbackDeployOk,
         RollbackDeployFails, RollbackCheckPasses, RollbackCheckFails, Chain,
         Recheck, Landed, GiveUp
  <2>2. QED
    BY <1>1, <1>2, <1>3, <1>4, <1>5, <1>6, <2>1
<1>9. QED
  BY <1>7, <1>8, StepSorts

\* Whatever is deployed, fails or expires, the version a ring leaves is the one
\* it can go back to, in a service that does not crash: a recovery writes the
\* row with the previous version its attempt began with, and another replica
\* may have changed the ring since.
THEOREM BaselineAlwaysKept ==
  ASSUME MaxCrashes = 0
  PROVE  Spec => BaselineKept
<1>1. TypeOK => crashes = 0
  BY DEF TypeOK
<1>2. TypeOK /\ AllShaped /\ AllRedundant /\ AllInformed /\ [Next]_vars
      => [KeepsBaseline]_vars
  <2> SUFFICES ASSUME TypeOK, AllShaped, AllRedundant, AllInformed, [Next]_vars
               PROVE  KeepsBaseline
    OBVIOUS
  <2>1. CASE Elsewhere
    BY <2>1, ElsewhereKeeps DEF KeepsBaseline
  <2>2. ASSUME NEW o \in Procs, Step(o)
        PROVE  KeepsBaseline
    BY <1>1, <2>2, StepBaseline DEF AllShaped, AllRedundant, AllInformed
  <2>3. QED
    BY <2>1, <2>2, NextSplit
<1>3. Init => AllInformed
  <2>1. ASSUME Init, NEW o \in Procs
        PROVE  Informed(o)
    <3>1. op[o].pc = "idle"
      BY <2>1 DEF Init, Idle
    <3>2. QED
      BY <3>1 DEF Informed, RollingBack
  <2>2. QED
    BY <2>1 DEF AllInformed
<1>4. Init => /\ AllShaped /\ Numbered /\ Owned /\ AllRedundant
  BY NobodyInside, NothingYet
<1>5. [KeepsBaseline]_vars <=>
        [\A r \in Ring :
           VersionsOf(state'[r]) # VersionsOf(state[r]) =>
             \/ state'[r].prev = state[r].cur
             \/ r \in Pinned /\ state'[r].prev = state[r].prev]_vars
  BY DEF KeepsBaseline
<1>6. QED
  BY <1>2, <1>3, <1>4, <1>5, TypeCorrect, Serialized, NextShaped, NextNumbered, NextOwned,
     NextRedundant, NextInformed, PTL DEF Spec, BaselineKept

-----------------------------------------------------------------------------
(* The store and the clusters.                                              *)

LEMMA InStepStep ==
  ASSUME NoFaults, TypeOK, NEW o \in Procs, Shaped(o), Redundant(o), Informed(o),
         crashes = 0, orphans = {}, ~op[o].expired, SyncedBut(o), Knows(o),
         StepInside(o)
  PROVE  orphans' = {} /\ ~op'[o].expired /\ SyncedBut(o)' /\ Knows(o)'
<1> DEFINE me == op[o]
<1>0. /\ me \in OpRec /\ op \in [Procs -> OpRec] /\ state \in [Ring -> Row]
      /\ live \in [Ring -> VersionX] /\ me.ring \in Ring
      /\ Shaped(o) /\ Redundant(o) /\ Informed(o) /\ crashes = 0
      /\ orphans = {} /\ ~me.expired /\ SyncedBut(o) /\ Knows(o)
  BY DEF TypeOK, OpRec
<1> USE DEF Shaped, Redundant, Informed, SyncedBut, Unsaved, Knows, Become, Goto,
            RollingBack, OpRec, Row, storeVars, worldVars
<1>1. CASE BeginSeed(o)
  BY <1>0, <1>1 DEF BeginSeed
<1>2. CASE BeginPromote(o)
  BY <1>0, <1>2 DEF BeginPromote, Promotable
<1>3. CASE SourceUnhealthy(o)
  BY <1>0, <1>3 DEF SourceUnhealthy, Promotable
<1>4. CASE BeginRollback(o)
  BY <1>0, <1>4 DEF BeginRollback
<1>5. CASE BeginRestart(o)
  BY <1>0, <1>5 DEF BeginRestart
<1>6. CASE Refuse(o)
  BY <1>0, <1>6 DEF Refuse
<1>7. CASE DeployOk(o)
  <2>1. PICK build \in Shipped(me.ring, me.version) :
          live' = [live EXCEPT ![me.ring] = build]
    BY <1>7 DEF DeployOk, Lands
  <2>2. me.ring \notin Pinned => build = me.version
    BY DEF Shipped
  <2>3. /\ op' = [op EXCEPT ![o] = [me EXCEPT !.pc = AfterDeploy(me.act)]]
        /\ UNCHANGED <<state, orphans>>
    BY <1>7 DEF DeployOk, Lands
  <2>4. QED
    BY <1>0, <1>7, <2>1, <2>2, <2>3 DEF DeployOk, AfterDeploy
<1>8. CASE DeployFails(o)
  BY <1>0, <1>8 DEF DeployFails, FailedDeploy, DeployError, NoFaults
<1>9. CASE RestartPods(o)
  <2>1. /\ me.pc = "restart" /\ UNCHANGED <<storeVars, worldVars>>
        /\ Goto(o, "check") \/ Become(o, [me EXCEPT !.pc = "record", !.ok = FALSE])
    BY <1>9 DEF RestartPods
  <2>2. CASE Goto(o, "check")
    BY <1>0, <2>1, <2>2
  <2>3. CASE Become(o, [me EXCEPT !.pc = "record", !.ok = FALSE])
    BY <1>0, <2>1, <2>3
  <2>4. QED
    BY <2>1, <2>2, <2>3
<1>10. CASE Persist(o)
  BY <1>0, <1>10 DEF Persist, SaveState
<1>11. CASE CheckPasses(o)
  <2>1. PICK v : /\ me.act = "restart" => v = me.version
                 /\ me.act # "restart" /\ me.ring \notin Pinned => v = me.version
                 /\ Become(o, [me EXCEPT !.pc = "save", !.version = v, !.ok = TRUE])
    BY <1>11 DEF CheckPasses, Recorded
  <2>2. me.pc = "check" /\ state' = state /\ live' = live /\ orphans' = orphans
    BY <1>11 DEF CheckPasses
  <2>3. QED
    BY <1>0, <2>1, <2>2
<1>12. CASE CheckFails(o)
  BY <1>0, <1>12 DEF CheckFails
<1>13. CASE Save(o)
  BY <1>0, <1>13 DEF Save, SaveState
<1>14. CASE RecordOutcome(o)
  BY <1>0, <1>14 DEF RecordOutcome
<1>15. CASE RecordUnhealthy(o)
  BY <1>0, <1>15 DEF RecordUnhealthy
<1>16. CASE NothingToRestore(o)
  BY <1>0, <1>16 DEF NothingToRestore, SaveState
<1>17. CASE RollbackDeployOk(o)
  <2>1. PICK build \in Shipped(me.ring, me.prev) :
          live' = [live EXCEPT ![me.ring] = build]
    BY <1>17 DEF RollbackDeployOk, Lands
  <2>2. me.ring \notin Pinned => build = me.prev
    BY DEF Shipped
  <2>3. /\ op' = [op EXCEPT ![o] = [me EXCEPT !.pc = "rbcheck"]]
        /\ UNCHANGED <<state, orphans>>
    BY <1>17 DEF RollbackDeployOk, Lands
  <2>4. QED
    BY <1>0, <1>17, <2>1, <2>2, <2>3 DEF RollbackDeployOk
<1>18. CASE RollbackDeployFails(o)
  BY <1>0, <1>18 DEF RollbackDeployFails, DeployError, NoFaults
<1>19. CASE RollbackCheckPasses(o)
  <2>1. PICK v : /\ me.ring \notin Pinned => v = me.prev
                 /\ Become(o, [me EXCEPT !.pc = "rbsave", !.prev = v, !.ok = TRUE])
    BY <1>19 DEF RollbackCheckPasses, Recorded
  <2>2. me.pc = "rbcheck" /\ state' = state /\ live' = live /\ orphans' = orphans
    BY <1>19 DEF RollbackCheckPasses
  <2>3. QED
    BY <1>0, <2>1, <2>2
<1>20. CASE RollbackCheckFails(o)
  BY <1>0, <1>20 DEF RollbackCheckFails
<1>21. CASE RollbackSave(o)
  BY <1>0, <1>21 DEF RollbackSave, SaveState, Left
<1>22. CASE RollbackRecord(o)
  BY <1>0, <1>22 DEF RollbackRecord
<1>23. CASE ClearAttempt(o)
  BY <1>0, <1>23 DEF ClearAttempt, ChainsOn
<1>24. CASE Chain(o)
  BY <1>0, <1>24 DEF Chain
<1>25. CASE Recheck(o)
  BY <1>0, <1>25 DEF Recheck
<1>26. CASE Landed(o)
  BY <1>0, <1>26 DEF Landed
<1>27. CASE GiveUp(o)
  BY <1>0, <1>27 DEF GiveUp, GivenUp
<1>28. QED
  BY <1>1, <1>2, <1>3, <1>4, <1>5, <1>6, <1>7, <1>8, <1>9, <1>10,
     <1>11, <1>12, <1>13, <1>14, <1>15, <1>16, <1>17, <1>18, <1>19,
     <1>20, <1>21, <1>22, <1>23, <1>24, <1>25, <1>26, <1>27
     DEF StepInside, Step

\* Nothing but the operations touches a cluster when no deploy is astray, and
\* then no context expires and no process dies.
LEMMA ElsewhereCalm ==
  ASSUME NoFaults, TypeOK, orphans = {}, Elsewhere
  PROVE  UNCHANGED <<live, orphans, crashes>> /\ ~\E o \in Procs : Expire(o)
<1> USE DEF worldVars, boundVars
<1>1. ~\E o \in Procs : Expire(o)
  BY DEF Expire, NoFaults
<1>2. ~\E p \in Replicas : Crash(p)
  BY DEF Crash, NoFaults, TypeOK
<1>3. ASSUME NEW o \in Procs, NEW p \in Replicas, NEW r \in Ring, Api(o, p, r)
      PROVE  UNCHANGED <<live, orphans, crashes>>
  <2>1. PICK kind, v : Request(o, p, kind, r, v)
    BY <1>3 DEF Api, RequestSeed, RequestPromote, RequestRollback, RequestRestart
  <2>2. QED
    BY <2>1 DEF Request
<1>4. ASSUME NEW p \in Replicas, NEW r \in Ring, NEW b \in BOOLEAN, SetAutoPromote(p, r, b)
      PROVE  UNCHANGED <<live, orphans, crashes>>
  BY <1>4 DEF SetAutoPromote
<1>5. ASSUME NEW p \in Replicas, Boot(p)
      PROVE  UNCHANGED <<live, orphans, crashes>>
  BY <1>5 DEF Boot
<1>6. ASSUME UNCHANGED vars
      PROVE  UNCHANGED <<live, orphans, crashes>>
  BY <1>6 DEF vars
<1>7. QED
  BY <1>1, <1>2, <1>3, <1>4, <1>5, <1>6 DEF Elsewhere

LEMMA ElsewhereOnTime ==
  ASSUME NoFaults, TypeOK, OperationsSerialized, orphans = {}, Elsewhere, NEW x \in Procs,
         ~op[x].expired
  PROVE  ~op'[x].expired
<1>1. CASE \E o \in Procs, p \in Replicas, r \in Ring : Api(o, p, r)
  <2>0. PICK o \in Procs, p \in Replicas, r \in Ring : Api(o, p, r)
    BY <1>1
  <2>1. PICK kind, v : Request(o, p, kind, r, v)
    BY <2>0 DEF Api, RequestSeed, RequestPromote, RequestRollback, RequestRestart
  <2>2. QED
    BY <2>1 DEF Request, Become, Idle, TypeOK
<1>2. CASE \E p \in Replicas : Boot(p)
  <2>1. PICK p \in Replicas : Boot(p)
    BY <1>2
  <2>2. PICK slot \in [Leftover -> IdleSlots] :
          op' = [o \in Procs |->
                   IF \E j \in Leftover : slot[j] = o
                   THEN RecoverOp(p, CHOOSE j \in Leftover : slot[j] = o)
                   ELSE op[o]]
    BY <2>1 DEF Boot
  <2>3. \A j : ~RecoverOp(p, j).expired
    BY DEF RecoverOp, Idle
  <2>4. QED
    BY <2>2, <2>3
<1>3. CASE \/ \E p \in Replicas, r \in Ring, b \in BOOLEAN : SetAutoPromote(p, r, b)
           \/ \E d \in orphans : Land(d)
           \/ UNCHANGED vars
  BY <1>3 DEF SetAutoPromote, Land, vars
<1>4. CASE \E p \in Replicas : Crash(p)
  BY <1>4 DEF Crash, NoFaults, TypeOK
<1>5. CASE \E o \in Procs : Expire(o)
  BY <1>5, ElsewhereCalm
<1>6. QED
  BY <1>1, <1>2, <1>3, <1>4, <1>5 DEF Elsewhere

LEMMA StepInStep ==
  ASSUME NoFaults, TypeOK, OperationsSerialized, AllShaped, AllRedundant, AllInformed,
         InStep, NEW o \in Procs, Step(o), OperationsSerialized'
  PROVE  InStep'
<1>0. /\ Shaped(o) /\ Redundant(o) /\ Informed(o) /\ Others(o) /\ crashes = 0
      /\ op[o] \in OpRec /\ op \in [Procs -> OpRec] /\ NoProc \notin Procs
  BY StepOthers, ProcAssumption DEF AllShaped, AllRedundant, AllInformed, TypeOK, NoFaults
<1>1. CASE StepInside(o)
  <2>1. holder = o /\ Inside(o)
    BY <1>1, InsideStep DEF OperationsSerialized
  <2>2. orphans' = {} /\ ~op'[o].expired /\ SyncedBut(o)' /\ Knows(o)'
    BY <1>0, <1>1, <2>1, InStepStep DEF InStep
  <2>3. Inside(o)' /\ holder' = o
    BY <1>1, <2>1, StepMoves DEF Inside, Moves, OperationsSerialized
  <2>4. \A x \in Procs \ {o} : ~op'[x].expired /\ ~Inside(x)'
    BY <1>0, <2>3 DEF InStep, Others, OperationsSerialized
  <2>5. StoreMatchesCluster'
    BY <1>0, <2>3 DEF StoreMatchesCluster
  <2>6. QED
    BY <2>2, <2>4, <2>5 DEF InStep
<1>2. CASE AcquireLock(o)
  <2>1. /\ holder = NoProc /\ UNCHANGED <<state, live, orphans>> /\ holder' = o
        /\ op[o].pc = "lock" /\ op'[o].pc \in {"recheck", "begin"}
        /\ op'[o].expired = op[o].expired
    BY <1>0, <1>2 DEF AcquireLock, Free, Goto, Become, storeVars, worldVars, OpRec
  <2>2. SyncedBut(o)' /\ Knows(o)' /\ ~op'[o].expired
    BY <2>1 DEF SyncedBut, Knows, InStep, StoreMatchesCluster
  <2>3. \A x \in Procs \ {o} : ~op'[x].expired /\ ~Inside(x)'
    BY <1>0, <2>1 DEF InStep, Others, OperationsSerialized
  <2>4. StoreMatchesCluster'
    BY <1>0, <2>1 DEF StoreMatchesCluster
  <2>5. QED
    BY <2>1, <2>2, <2>3, <2>4 DEF InStep
<1>3. CASE Finish(o)
  <2>1. /\ op[o].pc = "finish" /\ UNCHANGED <<state, live, orphans>> /\ holder' = NoProc
        /\ op'[o] = Idle
    BY <1>0, <1>3 DEF Finish, Become, worldVars
  <2>2. \A x \in Procs : ~Inside(x)'
    BY <1>0, <2>1 DEF OperationsSerialized
  <2>3. SyncedBut(o)
    BY <2>1 DEF InStep, Inside
  <2>4. StoreMatchesCluster'
    BY <2>1, <2>3 DEF SyncedBut, Unsaved, StoreMatchesCluster
  <2>5. \A x \in Procs : ~op'[x].expired
    BY <1>0, <2>1 DEF InStep, Others, Idle
  <2>6. QED
    BY <2>1, <2>2, <2>4, <2>5 DEF InStep
<1>4. CASE LockRefused(o)
  BY <1>4 DEF LockRefused, InStep
<1>5. CASE RecoverDropped(o)
  <2>1. /\ op[o].pc = "lock" /\ UNCHANGED <<state, live, orphans, holder>>
        /\ op'[o] = Idle
    BY <1>0, <1>5 DEF RecoverDropped, Become, worldVars
  <2>2. ~op'[o].expired /\ ~Inside(o)'
    BY <2>1 DEF Idle, Inside
  <2>3. \A x \in Procs \ {o} : ~op'[x].expired /\ (Inside(x)' => Inside(x) /\ op'[x] = op[x])
    BY <1>0 DEF InStep, Others, Inside
  <2>4. ASSUME NEW x \in Procs, Inside(x)'
        PROVE  SyncedBut(x)' /\ Knows(x)'
    <3>1. x # o /\ Inside(x) /\ op'[x] = op[x]
      BY <2>2, <2>3, <2>4
    <3>2. QED
      BY <2>1, <3>1 DEF InStep, SyncedBut, Unsaved, Knows
  <2>5. StoreMatchesCluster'
    BY <2>1 DEF InStep, StoreMatchesCluster
  <2>6. QED
    BY <2>1, <2>2, <2>3, <2>4, <2>5 DEF InStep
<1>6. QED
  BY <1>1, <1>2, <1>3, <1>4, <1>5, StepsSplit DEF StepOutside

LEMMA NextInStep ==
  ASSUME NoFaults
  PROVE  /\ TypeOK /\ OperationsSerialized /\ AllShaped /\ AllRedundant /\ AllInformed
         /\ InStep /\ [Next]_vars /\ OperationsSerialized'
         => InStep'
<1> SUFFICES ASSUME TypeOK, OperationsSerialized, AllShaped, AllRedundant, AllInformed,
                    InStep, [Next]_vars, OperationsSerialized'
             PROVE  InStep'
  OBVIOUS
<1>1. CASE \E o \in Procs : Step(o)
  BY <1>1, StepInStep
<1>2. CASE Elsewhere
  <2>1. /\ UNCHANGED <<state, live, orphans, crashes>> /\ crashes = 0
        /\ ~\E o \in Procs : Expire(o)
    BY <1>2, ElsewhereKeeps, ElsewhereCalm DEF InStep, TypeOK, NoFaults
  <2>2. UNCHANGED holder
    BY <1>2, <2>1, ElsewhereAlive
  <2>3. ASSUME NEW x \in Procs
        PROVE  ~op'[x].expired /\ (Inside(x)' => SyncedBut(x)' /\ Knows(x)')
    <3>1. ~op'[x].expired
      BY <1>2, <2>1, ElsewhereOnTime DEF InStep
    <3>2. ASSUME Inside(x)'
          PROVE  SyncedBut(x)' /\ Knows(x)'
      <4>1. Inside(x)
        BY <1>2, <3>2, ElsewhereEffect
      <4>2. op'[x] = op[x] \/ op'[x] = [op[x] EXCEPT !.expired = TRUE]
        BY <1>2, <2>1, <4>1, ElsewhereAlive
      <4>3. op'[x] = op[x]
        BY <3>1, <4>2 DEF TypeOK, OpRec
      <4>4. QED
        BY <2>1, <4>1, <4>3 DEF InStep, SyncedBut, Unsaved, Knows
    <3>3. QED
      BY <3>1, <3>2
  <2>4. QED
    BY <2>1, <2>2, <2>3 DEF InStep, StoreMatchesCluster
<1>3. QED
  BY <1>1, <1>2, NextSplit

\* When deploys fail only without effect, contexts do not expire and no process
\* dies, the store says what every unpinned ring runs whenever no operation is
\* at work, whatever checks, rollbacks and recoveries of others' rows did.
THEOREM StoreIsTrue ==
  ASSUME NoFaults
  PROVE  Spec => []StoreMatchesCluster
<1>1. Init => InStep /\ AllInformed
  <2> SUFFICES ASSUME Init
               PROVE  InStep /\ AllInformed
    OBVIOUS
  <2>1. \A o \in Procs : op[o].pc = "idle" /\ ~op[o].expired
    BY DEF Init, Idle
  <2>2. orphans = {} /\ \A r \in Ring : live[r] = state[r].cur
    BY DEF Init
  <2>3. QED
    BY <2>1, <2>2 DEF InStep, AllInformed, Informed, Inside, StoreMatchesCluster, RollingBack
<1>2. Init => /\ AllShaped /\ Numbered /\ Owned /\ AllRedundant
  BY NobodyInside, NothingYet
<1>3. InStep => StoreMatchesCluster
  BY DEF InStep
<1>4. /\ TypeOK /\ OperationsSerialized /\ AllShaped /\ AllRedundant /\ AllInformed
      /\ InStep /\ [Next]_vars /\ OperationsSerialized'
      => InStep'
  BY NextInStep
<1>5. QED
  BY <1>1, <1>2, <1>3, <1>4, TypeCorrect, Serialized, NextShaped, NextNumbered, NextOwned,
     NextRedundant, NextInformed, PTL DEF Spec

-----------------------------------------------------------------------------
(* History and the clusters.                                                *)
(*                                                                          *)
(* A ring last reported a success runs what the store says, or a journal    *)
(* row says its fate is open.  The invariant must name the row: an          *)
(* operation that is about to clear a row has settled the ring, or another  *)
(* row is left open.                                                        *)

Succeeded(r) == Entries(r) # {} /\ LastResult(r) = "success"
Settled(r) == Succeeded(r) => state[r].cur = live[r]

\* A row that operation o is not about to clear.
OpenElse(o, r) ==
  \E j \in journal : j.ring = r /\ j.id # op[o].att /\ j.id # op[o].rec

\* The fate of r is in the hands of o, which has not recorded it yet.
Undecided ==
  {"recheck", "await", "deploy", "persist", "check", "save", "record", "unhealthy",
   "rbrecord"} \cup RollingBack
InHand(o, r) ==
  /\ r = op[o].ring /\ op[o].pc \in Undecided
  /\ \E j \in journal : j.id = op[o].att /\ j.ring = r

Reported == Verifies \ Pinned
FatesKnown(o) == \A r \in Reported : Settled(r) \/ OpenElse(o, r) \/ InHand(o, r)
FatesOpen == \A r \in Reported : Settled(r) \/ \E j \in journal : j.ring = r

\* A journal row is the one of its id, and awaits a version.
RowsDistinct ==
  /\ \A j, k \in journal : j.id = k.id => j = k
  /\ \A j \in journal : j.version # NoVersion

\* An operation journals before it changes a cluster or a row, ships a version,
\* and knows what it has proved.
Journaling(o) ==
  LET me == op[o]
  IN /\ \/ me.pc \in {"deploy", "persist", "unhealthy", "resave", "await"} \cup RollingBack
        \/ me.pc \in {"check", "save"} /\ ~(me.kind # "recover" /\ me.act = "restart")
        => \E j \in journal : j.id = me.att /\ j.ring = me.ring
     /\ me.kind = "recover" /\ me.pc \in {"lock", "recheck"} =>
          \A j \in journal : j.id = me.rec => j.ring = me.ring
Shipping(o) ==
  LET me == op[o]
  IN /\ me.kind = "recover" /\ me.pc \in {"lock", "recheck", "await"} =>
          me.version # NoVersion
     /\ me.act = "seed" /\ me.pc \in {"lock", "begin"} => me.version # NoVersion
     /\ me.pc \in {"deploy", "persist", "check", "restart"} => me.version # NoVersion
     /\ me.pc \in {"rbdeploy", "rbcheck"} => me.prev # NoVersion
     /\ me.kind # "recover" /\ me.act = "restart" /\ me.pc \in {"restart", "check", "save"} =>
          me.version = state[me.ring].cur
Proving(o) ==
  LET me == op[o]
  IN me.ring \in Reported =>
       /\ me.pc = "save" /\ me.ok => live[me.ring] = me.version
       /\ me.pc = "rbsave" /\ me.ok => live[me.ring] = me.prev
       /\ me.pc \in {"record", "rbrecord"} /\ me.ok => state[me.ring].cur = live[me.ring]
       /\ me.pc = "resave" => ~Succeeded(me.ring)

Truthful ==
  /\ orphans = {}
  /\ RowsDistinct
  /\ \A o \in Procs : Journaling(o) /\ Shipping(o)
  /\ \A o \in Procs : Inside(o) => Proving(o) /\ FatesKnown(o)
  /\ holder = NoProc => FatesOpen

LEMMA MaxExists ==
  ASSUME NEW n \in Nat, NEW S, S \subseteq 1 .. n, S # {}
  PROVE  Max(S) \in S /\ \A x \in S : Max(S) >= x
<1> DEFINE R == OpToRel(<, Nat)
           T == {n - x : x \in S}
<1>1. \A x, y \in Nat : <<x, y>> \in R <=> x < y
  BY DEF OpToRel
<1>2. T \subseteq Nat /\ T # {}
  <2>1. \A x \in S : n - x \in Nat
    OBVIOUS
  <2>2. QED
    BY <2>1
<1>3. IsWellFoundedOn(R, Nat)
  BY NatLessThanWellFounded
<1> HIDE DEF R
<1>4. PICK t \in T : \A u \in T : ~(<<u, t>> \in R)
  BY <1>2, <1>3, WFMin
<1>5. \E x \in S : \A y \in S : x >= y
  <2>1. PICK x \in S : t = n - x
    OBVIOUS
  <2>2. ASSUME NEW y \in S
        PROVE  x >= y
    <3>1. ~(n - y < t)
      BY <1>1, <1>2, <1>4
    <3>2. QED
      BY <2>1, <3>1
  <2>3. QED
    BY <2>2
<1>6. QED
  BY <1>5 DEF Max

\* Recording tells the ring at hand, and no other, what became of it.
LEMMA RecordTells ==
  ASSUME TypeOK, NEW o \in Procs, ~op[o].expired,
         NEW act, NEW to, NEW ok \in BOOLEAN, Record(o, act, to, ok)
  PROVE  \A r : Succeeded(r)' <=> IF r = op[o].ring THEN ok ELSE Succeeded(r)
<1> DEFINE n == Len(history)
<1>1. /\ n \in Nat /\ DOMAIN history = 1 .. n /\ DOMAIN history' = 1 .. n + 1
      /\ \A k \in DOMAIN history : history'[k] = history[k]
      /\ history'[n + 1].ring = op[o].ring
      /\ history'[n + 1].result = IF ok THEN "success" ELSE "failure"
  BY RecordAppends
<1>2. ASSUME NEW r, r # op[o].ring
      PROVE  Succeeded(r)' <=> Succeeded(r)
  <2>1. Entries(r)' = Entries(r)
    BY <1>1, <1>2 DEF Entries
  <2>2. Entries(r) # {} => Max(Entries(r)) \in Entries(r)
    <3>1. Entries(r) \subseteq 1 .. n
      BY <1>1 DEF Entries
    <3>2. QED
      BY <1>1, <3>1, MaxExists
  <2>3. Entries(r) # {} => LastResult(r)' = LastResult(r)
    BY <1>1, <2>1, <2>2 DEF LastResult, Entries
  <2>4. QED
    BY <2>1, <2>3 DEF Succeeded
<1>3. ASSUME NEW r, r = op[o].ring
      PROVE  Succeeded(r)' <=> ok
  <2>1. Entries(r)' \subseteq 1 .. n + 1 /\ n + 1 \in Entries(r)' /\ n + 1 \in Nat
    BY <1>1, <1>3 DEF Entries
  <2>2. Max(Entries(r)') \in Entries(r)' /\ Max(Entries(r)') >= n + 1
    BY <2>1, MaxExists
  <2>3. Max(Entries(r)') = n + 1
    BY <1>1, <2>1, <2>2
  <2>4. LastResult(r)' = (IF ok THEN "success" ELSE "failure")
    BY <1>1, <2>3 DEF LastResult
  <2>5. QED
    BY <2>1, <2>4 DEF Succeeded
<1>4. QED
  BY <1>2, <1>3

LEMMA BeginRow ==
  ASSUME TypeOK, NEW o \in Procs, ~op[o].expired, Shipping(o), Begins(o)
  PROVE  \E j : /\ journal' = journal \cup {j} /\ nextId' = nextId + 1
                /\ j.id = nextId /\ j.ring = op'[o].ring /\ j.version # NoVersion
                /\ op'[o].att = nextId /\ op'[o].rec = op[o].rec
                /\ op'[o].pc \in {"deploy", "rbdeploy"}
<1> DEFINE me == op[o]
<1>0. op \in [Procs -> OpRec] /\ op[o] \in OpRec
  BY DEF TypeOK
<1>1. PICK act, r, from, v, prev :
        /\ JournalStart(o, act, r, from, v, prev) /\ v # NoVersion /\ r = op'[o].ring
        /\ op'[o].att = nextId /\ op'[o].rec = op[o].rec
        /\ op'[o].pc \in {"deploy", "rbdeploy"}
  <2> USE DEF Shipping, Become, OpRec, NewAttempt
  <2>1. CASE BeginSeed(o)
    <3>1. op' = [op EXCEPT ![o] = [me EXCEPT !.pc = "deploy", !.att = nextId,
                                     !.prev = CurrentVersion(o, me.ring)]]
      BY <2>1 DEF BeginSeed
    <3>2. /\ JournalStart(o, "seed", me.ring, 0, me.version, CurrentVersion(o, me.ring))
          /\ me.version # NoVersion
      BY <2>1 DEF BeginSeed
    <3> HIDE DEF Shipping, Become, NewAttempt
    <3>3. op'[o].ring = me.ring /\ op'[o].att = nextId /\ op'[o].rec = op[o].rec
          /\ op'[o].pc = "deploy"
      BY <1>0, <3>1
    <3>4. QED
      BY <3>2, <3>3
  <2>2. CASE BeginPromote(o)
    <3> DEFINE dst == NextRing(me.ring)
               v == DeployVersion(dst, state[me.ring].cur)
               prev == state[dst].cur
    <3>1. op' = [op EXCEPT ![o] = [me EXCEPT !.pc = "deploy", !.ring = dst, !.from = me.ring,
                             !.version = v, !.prev = prev, !.ok = FALSE, !.att = nextId]]
      BY <2>2 DEF BeginPromote
    <3>2. /\ JournalStart(o, "promote", dst, me.ring, v, prev)
          /\ v # NoVersion
      BY <2>2, VersionAssumption DEF BeginPromote, Promotable, DeployVersion
    <3> HIDE DEF dst, v, prev, Shipping, Become, NewAttempt
    <3>3. op'[o].ring = dst /\ op'[o].att = nextId /\ op'[o].rec = op[o].rec
          /\ op'[o].pc = "deploy"
      BY <1>0, <3>1
    <3>4. QED
      BY <3>2, <3>3
  <2>3. CASE BeginRollback(o)
    <3> DEFINE row == state[me.ring]
    <3>1. op' = [op EXCEPT ![o] = [me EXCEPT !.pc = "rbdeploy", !.version = row.cur,
                                             !.prev = row.prev, !.att = nextId]]
      BY <2>3 DEF BeginRollback
    <3>2. /\ JournalStart(o, "rollback", me.ring, 0, row.prev, row.cur)
          /\ row.prev # NoVersion
      BY <2>3 DEF BeginRollback
    <3> HIDE DEF Shipping, Become, NewAttempt
    <3>3. op'[o].ring = me.ring /\ op'[o].att = nextId /\ op'[o].rec = op[o].rec
          /\ op'[o].pc = "rbdeploy"
      BY <1>0, <3>1
    <3>4. QED
      BY <3>2, <3>3
  <2>4. QED
    BY <2>1, <2>2, <2>3 DEF Begins
<1> DEFINE j == [id |-> nextId, act |-> act, ring |-> r, from |-> from,
                 version |-> v, prev |-> prev]
<1>2. journal' = journal \cup {j} /\ nextId' = nextId + 1
  BY <1>1 DEF JournalStart
<1>3. j.id = nextId /\ j.ring = r /\ j.version = v
  OBVIOUS
<1> HIDE DEF j
<1>4. QED
  BY <1>1, <1>2, <1>3

\* The rows stay distinct, whatever an operation does.
LEMMA StepRows ==
  ASSUME TypeOK, Accountable, Numbered, RowsDistinct, NEW o \in Procs, Shipping(o), Step(o)
  PROVE  RowsDistinct'
<1>1. CASE Begins(o)
  <2>1. ~op[o].expired
    BY DEF Accountable, Answerable
  <2>2. PICK j : journal' = journal \cup {j} /\ j.id = nextId /\ j.version # NoVersion
    BY <1>1, <2>1, BeginRow
  <2>3. \A k \in journal : k.id # nextId
    BY DEF Numbered, TypeOK
  <2>4. QED
    BY <2>2, <2>3 DEF RowsDistinct
<1>2. CASE journal' \subseteq journal
  BY <1>2 DEF RowsDistinct
<1>3. CASE Quiet(o)
  BY <1>2, <1>3, QuietUnchanged
<1>4. QED
  BY <1>1, <1>2, <1>3, RecordsIds, RowsGo, StepSorts

\* Journaling, shipping and proving are kept by the operation itself.
LEMMA JournalsStep ==
  ASSUME TypeOK, NEW o \in Procs, ~op[o].expired, Shaped(o), Journaling(o), Shipping(o),
         StepInside(o)
  PROVE  Journaling(o)'
<1> DEFINE me == op[o]
<1>0. /\ me \in OpRec /\ op \in [Procs -> OpRec]
      /\ Shaped(o) /\ Journaling(o) /\ ~me.expired
  BY DEF TypeOK
<1>b. Begins(o) => /\ op'[o].pc \in {"deploy", "rbdeploy"}
                   /\ \E j \in journal' : j.id = op'[o].att /\ j.ring = op'[o].ring
  BY BeginRow
<1> USE DEF Shaped, Journaling, Become, Goto, RollingBack, OpRec, storeVars
<1>1. CASE BeginSeed(o)
  BY <1>0, <1>b, <1>1 DEF Begins
<1>2. CASE BeginPromote(o)
  BY <1>0, <1>b, <1>2 DEF Begins
<1>3. CASE SourceUnhealthy(o)
  BY <1>0, <1>3 DEF SourceUnhealthy, Promotable
<1>4. CASE BeginRollback(o)
  BY <1>0, <1>b, <1>4 DEF Begins
<1>5. CASE BeginRestart(o)
  BY <1>0, <1>5 DEF BeginRestart
<1>6. CASE Refuse(o)
  BY <1>0, <1>6 DEF Refuse
<1>7. CASE DeployOk(o)
  BY <1>0, <1>7 DEF DeployOk, AfterDeploy
<1>8. CASE DeployFails(o)
  BY <1>0, <1>8 DEF DeployFails, FailedDeploy
<1>9. CASE RestartPods(o)
  <2>1. /\ me.pc = "restart" /\ UNCHANGED storeVars
        /\ Goto(o, "check") \/ Become(o, [me EXCEPT !.pc = "record", !.ok = FALSE])
    BY <1>9 DEF RestartPods
  <2>2. CASE Goto(o, "check")
    BY <1>0, <2>1, <2>2
  <2>3. CASE Become(o, [me EXCEPT !.pc = "record", !.ok = FALSE])
    BY <1>0, <2>1, <2>3
  <2>4. QED
    BY <2>1, <2>2, <2>3
<1>10. CASE Persist(o)
  BY <1>0, <1>10 DEF Persist, SaveState
<1>11. CASE CheckPasses(o)
  BY <1>0, <1>11 DEF CheckPasses
<1>12. CASE CheckFails(o)
  BY <1>0, <1>12 DEF CheckFails
<1>13. CASE Save(o)
  BY <1>0, <1>13 DEF Save, SaveState
<1>14. CASE RecordOutcome(o)
  BY <1>0, <1>14 DEF RecordOutcome
<1>15. CASE RecordUnhealthy(o)
  BY <1>0, <1>15 DEF RecordUnhealthy
<1>16. CASE NothingToRestore(o)
  BY <1>0, <1>16 DEF NothingToRestore, SaveState
<1>17. CASE RollbackDeployOk(o)
  BY <1>0, <1>17 DEF RollbackDeployOk
<1>18. CASE RollbackDeployFails(o)
  BY <1>0, <1>18 DEF RollbackDeployFails
<1>19. CASE RollbackCheckPasses(o)
  BY <1>0, <1>19 DEF RollbackCheckPasses
<1>20. CASE RollbackCheckFails(o)
  BY <1>0, <1>20 DEF RollbackCheckFails
<1>21. CASE RollbackSave(o)
  BY <1>0, <1>21 DEF RollbackSave, SaveState
<1>22. CASE RollbackRecord(o)
  BY <1>0, <1>22 DEF RollbackRecord
<1>23. CASE ClearAttempt(o)
  BY <1>0, <1>23 DEF ClearAttempt, ChainsOn
<1>24. CASE Chain(o)
  BY <1>0, <1>24 DEF Chain
<1>25. CASE Recheck(o)
  BY <1>0, <1>25 DEF Recheck, StillJournaled, Ids
<1>26. CASE Landed(o)
  BY <1>0, <1>26 DEF Landed
<1>27. CASE GiveUp(o)
  BY <1>0, <1>27 DEF GiveUp, GivenUp
<1>28. QED
  BY <1>1, <1>2, <1>3, <1>4, <1>5, <1>6, <1>7, <1>8, <1>9, <1>10,
     <1>11, <1>12, <1>13, <1>14, <1>15, <1>16, <1>17, <1>18, <1>19,
     <1>20, <1>21, <1>22, <1>23, <1>24, <1>25, <1>26, <1>27
     DEF StepInside, Step


LEMMA ShipsStep ==
  ASSUME TypeOK, NEW o \in Procs, ~op[o].expired, Shaped(o), Shipping(o), StepInside(o)
  PROVE  Shipping(o)'
<1> DEFINE me == op[o]
<1>0. /\ me \in OpRec /\ op \in [Procs -> OpRec] /\ state \in [Ring -> Row]
      /\ Shaped(o) /\ Shipping(o) /\ ~me.expired
      /\ Ref # NoVersion /\ me.ring \in Ring
  BY VersionAssumption DEF TypeOK, OpRec
<1> USE DEF Shaped, Shipping, Become, Goto, RollingBack, OpRec, Row, storeVars
<1>1. CASE BeginSeed(o)
  BY <1>0, <1>1 DEF BeginSeed
<1>2. CASE BeginPromote(o)
  BY <1>0, <1>2 DEF BeginPromote, Promotable, DeployVersion
<1>3. CASE SourceUnhealthy(o)
  BY <1>0, <1>3 DEF SourceUnhealthy, Promotable
<1>4. CASE BeginRollback(o)
  BY <1>0, <1>4 DEF BeginRollback
<1>5. CASE BeginRestart(o)
  BY <1>0, <1>5 DEF BeginRestart
<1>6. CASE Refuse(o)
  BY <1>0, <1>6 DEF Refuse
<1>7. CASE DeployOk(o)
  BY <1>0, <1>7 DEF DeployOk, AfterDeploy
<1>8. CASE DeployFails(o)
  BY <1>0, <1>8 DEF DeployFails, FailedDeploy
<1>9. CASE RestartPods(o)
  <2>1. /\ me.pc = "restart" /\ UNCHANGED storeVars
        /\ Goto(o, "check") \/ Become(o, [me EXCEPT !.pc = "record", !.ok = FALSE])
    BY <1>9 DEF RestartPods
  <2>2. CASE Goto(o, "check")
    BY <1>0, <2>1, <2>2
  <2>3. CASE Become(o, [me EXCEPT !.pc = "record", !.ok = FALSE])
    BY <1>0, <2>1, <2>3
  <2>4. QED
    BY <2>1, <2>2, <2>3
<1>10. CASE Persist(o)
  BY <1>0, <1>10 DEF Persist, SaveState
<1>11. CASE CheckPasses(o)
  <2>1. PICK v : /\ me.act = "restart" => v = me.version
                 /\ Become(o, [me EXCEPT !.pc = "save", !.version = v, !.ok = TRUE])
    BY <1>11 DEF CheckPasses
  <2>2. me.pc = "check" /\ state' = state
    BY <1>11 DEF CheckPasses
  <2>3. QED
    BY <1>0, <2>1, <2>2
<1>12. CASE CheckFails(o)
  BY <1>0, <1>12 DEF CheckFails
<1>13. CASE Save(o)
  BY <1>0, <1>13 DEF Save, SaveState
<1>14. CASE RecordOutcome(o)
  BY <1>0, <1>14 DEF RecordOutcome
<1>15. CASE RecordUnhealthy(o)
  BY <1>0, <1>15 DEF RecordUnhealthy
<1>16. CASE NothingToRestore(o)
  BY <1>0, <1>16 DEF NothingToRestore, SaveState
<1>17. CASE RollbackDeployOk(o)
  BY <1>0, <1>17 DEF RollbackDeployOk
<1>18. CASE RollbackDeployFails(o)
  BY <1>0, <1>18 DEF RollbackDeployFails
<1>19. CASE RollbackCheckPasses(o)
  BY <1>0, <1>19 DEF RollbackCheckPasses
<1>20. CASE RollbackCheckFails(o)
  BY <1>0, <1>20 DEF RollbackCheckFails
<1>21. CASE RollbackSave(o)
  BY <1>0, <1>21 DEF RollbackSave, SaveState
<1>22. CASE RollbackRecord(o)
  BY <1>0, <1>22 DEF RollbackRecord
<1>23. CASE ClearAttempt(o)
  BY <1>0, <1>23 DEF ClearAttempt, ChainsOn
<1>24. CASE Chain(o)
  BY <1>0, <1>24 DEF Chain
<1>25. CASE Recheck(o)
  BY <1>0, <1>25 DEF Recheck
<1>26. CASE Landed(o)
  BY <1>0, <1>26 DEF Landed
<1>27. CASE GiveUp(o)
  BY <1>0, <1>27 DEF GiveUp, GivenUp
<1>28. QED
  BY <1>1, <1>2, <1>3, <1>4, <1>5, <1>6, <1>7, <1>8, <1>9, <1>10,
     <1>11, <1>12, <1>13, <1>14, <1>15, <1>16, <1>17, <1>18, <1>19,
     <1>20, <1>21, <1>22, <1>23, <1>24, <1>25, <1>26, <1>27
     DEF StepInside, Step


\* A check that wants a version proves it.
LEMMA CheckProves ==
  ASSUME NEW o, NEW r \in Reported, NEW want, want # NoVersion, CanPass(o, r, want)
  PROVE  live[r] = want
BY RingConfigAssumption DEF CanPass, Reported

LEMMA ProvesStep ==
  ASSUME TypeOK, NEW o \in Procs, ~op[o].expired, Shaped(o), Shipping(o), Proving(o),
         StepInside(o)
  PROVE  Proving(o)'
<1> DEFINE me == op[o]
<1>0. /\ me \in OpRec /\ op \in [Procs -> OpRec] /\ state \in [Ring -> Row]
      /\ live \in [Ring -> VersionX] /\ me.ring \in Ring
      /\ Shaped(o) /\ Shipping(o) /\ Proving(o) /\ ~me.expired
  BY DEF TypeOK, OpRec
<1> USE DEF Shaped, Proving, Become, Goto, RollingBack, OpRec, Row, storeVars, worldVars
<1>1. CASE BeginSeed(o)
  BY <1>0, <1>1 DEF BeginSeed
<1>2. CASE BeginPromote(o)
  BY <1>0, <1>2 DEF BeginPromote, Promotable
<1>3. CASE SourceUnhealthy(o)
  BY <1>0, <1>3 DEF SourceUnhealthy, Promotable
<1>4. CASE BeginRollback(o)
  BY <1>0, <1>4 DEF BeginRollback
<1>5. CASE BeginRestart(o)
  BY <1>0, <1>5 DEF BeginRestart
<1>6. CASE Refuse(o)
  BY <1>0, <1>6 DEF Refuse
<1>7. CASE DeployOk(o)
  BY <1>0, <1>7 DEF DeployOk, AfterDeploy
<1>8. CASE DeployFails(o)
  BY <1>0, <1>8 DEF DeployFails, FailedDeploy
<1>9. CASE RestartPods(o)
  <2>1. /\ me.pc = "restart" /\ UNCHANGED storeVars
        /\ Goto(o, "check") \/ Become(o, [me EXCEPT !.pc = "record", !.ok = FALSE])
    BY <1>9 DEF RestartPods
  <2>2. CASE Goto(o, "check")
    BY <1>0, <2>1, <2>2
  <2>3. CASE Become(o, [me EXCEPT !.pc = "record", !.ok = FALSE])
    BY <1>0, <2>1, <2>3
  <2>4. QED
    BY <2>1, <2>2, <2>3
<1>10. CASE Persist(o)
  BY <1>0, <1>10 DEF Persist, SaveState
<1>11. CASE CheckPasses(o)
  <2>1. PICK v : /\ me.ring \notin Pinned => v = me.version
                 /\ Become(o, [me EXCEPT !.pc = "save", !.version = v, !.ok = TRUE])
    BY <1>11 DEF CheckPasses, Recorded
  <2>2. /\ me.pc = "check" /\ live' = live
        /\ me.ring \in Reported => live[me.ring] = me.version
    BY <1>0, <1>11, CheckProves DEF CheckPasses, Want, Reported, worldVars, Shipping
  <2>3. QED
    BY <1>0, <2>1, <2>2 DEF Reported
<1>12. CASE CheckFails(o)
  BY <1>0, <1>12 DEF CheckFails
<1>13. CASE Save(o)
  BY <1>0, <1>13 DEF Save, SaveState
<1>14. CASE RecordOutcome(o)
  BY <1>0, <1>14 DEF RecordOutcome
<1>15. CASE RecordUnhealthy(o)
  <2>1. Record(o, "promote", me.version, FALSE)
    BY <1>15 DEF RecordUnhealthy
  <2>2. op'[o].pc \in {"resave", "rbdeploy"} /\ op'[o].ring = me.ring
    BY <1>0, <1>15 DEF RecordUnhealthy
  <2>3. ~Succeeded(me.ring)' \/ op'[o].pc # "resave"
    <3>1. ASSUME NEW r, r = me.ring
          PROVE  ~Succeeded(r)'
      BY <1>0, <2>1, <3>1, RecordTells
    <3>2. \A r : r = op'[o].ring => ~Succeeded(r)'
      BY <2>2, <3>1
    <3>3. QED
      BY <3>2
  <2>4. QED
    BY <2>2, <2>3
<1>16. CASE NothingToRestore(o)
  BY <1>0, <1>16 DEF NothingToRestore, SaveState
<1>17. CASE RollbackDeployOk(o)
  BY <1>0, <1>17 DEF RollbackDeployOk
<1>18. CASE RollbackDeployFails(o)
  BY <1>0, <1>18 DEF RollbackDeployFails
<1>19. CASE RollbackCheckPasses(o)
  <2>1. PICK v : /\ me.ring \notin Pinned => v = me.prev
                 /\ Become(o, [me EXCEPT !.pc = "rbsave", !.prev = v, !.ok = TRUE])
    BY <1>19 DEF RollbackCheckPasses, Recorded
  <2>2. /\ me.pc = "rbcheck" /\ live' = live
        /\ me.ring \in Reported => live[me.ring] = me.prev
    BY <1>0, <1>19, CheckProves DEF RollbackCheckPasses, Want, Reported, worldVars, Shipping
  <2>3. QED
    BY <1>0, <2>1, <2>2 DEF Reported
<1>20. CASE RollbackCheckFails(o)
  BY <1>0, <1>20 DEF RollbackCheckFails
<1>21. CASE RollbackSave(o)
  BY <1>0, <1>21 DEF RollbackSave, SaveState, Left
<1>22. CASE RollbackRecord(o)
  BY <1>0, <1>22 DEF RollbackRecord
<1>23. CASE ClearAttempt(o)
  BY <1>0, <1>23 DEF ClearAttempt, ChainsOn
<1>24. CASE Chain(o)
  BY <1>0, <1>24 DEF Chain
<1>25. CASE Recheck(o)
  BY <1>0, <1>25 DEF Recheck
<1>26. CASE Landed(o)
  BY <1>0, <1>26, CheckProves DEF Landed, Awaited, Shipping
<1>27. CASE GiveUp(o)
  BY <1>0, <1>27 DEF GiveUp, GivenUp
<1>28. QED
  BY <1>1, <1>2, <1>3, <1>4, <1>5, <1>6, <1>7, <1>8, <1>9, <1>10,
     <1>11, <1>12, <1>13, <1>14, <1>15, <1>16, <1>17, <1>18, <1>19,
     <1>20, <1>21, <1>22, <1>23, <1>24, <1>25, <1>26, <1>27
     DEF StepInside, Step

\* Nothing an operation does leaves a ring's fate unknown: it has the row, or
\* it has recorded what became of the ring.
LEMMA FatesStep ==
  ASSUME "late" \notin DeployFaults,
         TypeOK, NEW o \in Procs, ~op[o].expired, Numbered, Shaped(o), Journaling(o),
         Shipping(o), Proving(o), FatesKnown(o), StepInside(o)
  PROVE  FatesKnown(o)'
<1> DEFINE me == op[o]
<1>0. /\ me \in OpRec /\ op \in [Procs -> OpRec] /\ state \in [Ring -> Row]
      /\ live \in [Ring -> VersionX] /\ me.ring \in Ring /\ ~me.expired
      /\ \A r \in Reported : r \in Ring
      /\ nextId \in Nat \ {0} /\ \A j \in journal : j.id \in 1 .. nextId - 1
      /\ Shaped(o) /\ Journaling(o) /\ Shipping(o) /\ Proving(o) /\ FatesKnown(o)
  BY RingConfigAssumption DEF TypeOK, OpRec, Reported, Numbered
<1>s. history' = history => \A r : Succeeded(r)' <=> Succeeded(r)
  BY DEF Succeeded, LastResult, Entries
<1> USE DEF Shaped, Journaling, Shipping, Proving, FatesKnown, Settled, OpenElse, InHand,
            Undecided, Become, Goto, RollingBack, OpRec, Row, storeVars, worldVars
<1>1. CASE BeginSeed(o)
  <2>1. PICK j : /\ journal' = journal \cup {j} /\ j.id = nextId /\ j.ring = op'[o].ring
                 /\ op'[o].att = nextId /\ op'[o].rec = me.rec
                 /\ op'[o].pc \in {"deploy", "rbdeploy"}
    BY <1>0, <1>1, BeginRow DEF Begins
  <2>2. UNCHANGED <<state, live, history>> /\ me.pc = "begin"
    BY <1>1 DEF BeginSeed, worldVars
  <2> HIDE DEF Shaped, Journaling, Shipping, Proving
  <2>3. QED
    BY <1>0, <1>s, <2>1, <2>2
<1>2. CASE BeginPromote(o)
  <2>1. PICK j : /\ journal' = journal \cup {j} /\ j.id = nextId /\ j.ring = op'[o].ring
                 /\ op'[o].att = nextId /\ op'[o].rec = me.rec
                 /\ op'[o].pc \in {"deploy", "rbdeploy"}
    BY <1>0, <1>2, BeginRow DEF Begins
  <2>2. UNCHANGED <<state, live, history>> /\ me.pc = "begin"
    BY <1>2 DEF BeginPromote, Promotable, worldVars
  <2> HIDE DEF Shaped, Journaling, Shipping, Proving
  <2>3. QED
    BY <1>0, <1>s, <2>1, <2>2
<1>3. CASE SourceUnhealthy(o)
  BY <1>0, <1>s, <1>3 DEF SourceUnhealthy, Promotable
<1>4. CASE BeginRollback(o)
  <2>1. PICK j : /\ journal' = journal \cup {j} /\ j.id = nextId /\ j.ring = op'[o].ring
                 /\ op'[o].att = nextId /\ op'[o].rec = me.rec
                 /\ op'[o].pc \in {"deploy", "rbdeploy"}
    BY <1>0, <1>4, BeginRow DEF Begins
  <2>2. UNCHANGED <<state, live, history>> /\ me.pc = "begin"
    BY <1>4 DEF BeginRollback, worldVars
  <2> HIDE DEF Shaped, Journaling, Shipping, Proving
  <2>3. QED
    BY <1>0, <1>s, <2>1, <2>2
<1>5. CASE BeginRestart(o)
  BY <1>0, <1>s, <1>5 DEF BeginRestart
<1>6. CASE Refuse(o)
  BY <1>0, <1>s, <1>6 DEF Refuse
<1>7. CASE DeployOk(o)
  BY <1>0, <1>s, <1>7 DEF DeployOk, Lands, AfterDeploy
<1>8. CASE DeployFails(o)
  BY <1>0, <1>s, <1>8 DEF DeployFails, FailedDeploy, DeployError, Lands
<1>9. CASE RestartPods(o)
  <2>1. /\ me.pc = "restart" /\ UNCHANGED <<storeVars, worldVars>>
        /\ Goto(o, "check") \/ Become(o, [me EXCEPT !.pc = "record", !.ok = FALSE])
    BY <1>9 DEF RestartPods
  <2>2. CASE Goto(o, "check")
    BY <1>0, <1>s, <2>1, <2>2
  <2>3. CASE Become(o, [me EXCEPT !.pc = "record", !.ok = FALSE])
    BY <1>0, <1>s, <2>1, <2>3
  <2>4. QED
    BY <2>1, <2>2, <2>3
<1>10. CASE Persist(o)
  BY <1>0, <1>s, <1>10 DEF Persist, SaveState
<1>11. CASE CheckPasses(o)
  BY <1>0, <1>s, <1>11 DEF CheckPasses
<1>12. CASE CheckFails(o)
  BY <1>0, <1>s, <1>12 DEF CheckFails
<1>13. CASE Save(o)
  BY <1>0, <1>s, <1>13 DEF Save, SaveState
<1>14. CASE RecordOutcome(o)
  <2>1. Record(o, me.act, me.version, me.ok) /\ UNCHANGED <<state, live, journal>>
    BY <1>14 DEF RecordOutcome, worldVars
  <2>2. \A r : Succeeded(r)' <=> IF r = me.ring THEN me.ok ELSE Succeeded(r)
    BY <1>0, <2>1, RecordTells
  <2>3. QED
    BY <1>0, <1>14, <2>1, <2>2 DEF RecordOutcome
<1>15. CASE RecordUnhealthy(o)
  <2>1. Record(o, "promote", me.version, FALSE) /\ UNCHANGED <<state, live, journal>>
    BY <1>15 DEF RecordUnhealthy, worldVars
  <2>2. \A r : Succeeded(r)' <=> IF r = me.ring THEN FALSE ELSE Succeeded(r)
    BY <1>0, <2>1, RecordTells
  <2>3. QED
    BY <1>0, <1>15, <2>1, <2>2 DEF RecordUnhealthy
<1>16. CASE NothingToRestore(o)
  BY <1>0, <1>s, <1>16 DEF NothingToRestore, SaveState
<1>17. CASE RollbackDeployOk(o)
  BY <1>0, <1>s, <1>17 DEF RollbackDeployOk, Lands
<1>18. CASE RollbackDeployFails(o)
  BY <1>0, <1>s, <1>18 DEF RollbackDeployFails, DeployError, Lands
<1>19. CASE RollbackCheckPasses(o)
  BY <1>0, <1>s, <1>19 DEF RollbackCheckPasses
<1>20. CASE RollbackCheckFails(o)
  BY <1>0, <1>s, <1>20 DEF RollbackCheckFails
<1>21. CASE RollbackSave(o)
  BY <1>0, <1>s, <1>21 DEF RollbackSave, SaveState, Left
<1>22. CASE RollbackRecord(o)
  <2>1. Record(o, "rollback", me.prev, me.ok) /\ UNCHANGED <<state, live, journal>>
    BY <1>22 DEF RollbackRecord, worldVars
  <2>2. \A r : Succeeded(r)' <=> IF r = me.ring THEN me.ok ELSE Succeeded(r)
    BY <1>0, <2>1, RecordTells
  <2>3. QED
    BY <1>0, <1>22, <2>1, <2>2 DEF RollbackRecord
<1>23. CASE ClearAttempt(o)
  BY <1>0, <1>s, <1>23 DEF ClearAttempt, ChainsOn, Clears, JournalEnd
<1>24. CASE Chain(o)
  BY <1>0, <1>s, <1>24 DEF Chain
<1>25. CASE Recheck(o)
  BY <1>0, <1>s, <1>25 DEF Recheck, StillJournaled, Ids
<1>26. CASE Landed(o)
  BY <1>0, <1>s, <1>26 DEF Landed
<1>27. CASE GiveUp(o)
  BY <1>0, <1>s, <1>27 DEF GiveUp, GivenUp
<1>28. QED
  BY <1>1, <1>2, <1>3, <1>4, <1>5, <1>6, <1>7, <1>8, <1>9, <1>10,
     <1>11, <1>12, <1>13, <1>14, <1>15, <1>16, <1>17, <1>18, <1>19,
     <1>20, <1>21, <1>22, <1>23, <1>24, <1>25, <1>26, <1>27
     DEF StepInside, Step

LEMMA StepOrphans ==
  ASSUME "late" \notin DeployFaults, NEW o \in Procs, Step(o)
  PROVE  orphans' = orphans
BY DEF Step, AcquireLock, LockRefused, RecoverDropped, BeginSeed,
       BeginPromote, SourceUnhealthy, BeginRollback, BeginRestart, Refuse, DeployOk,
       DeployFails, RestartPods, Persist, CheckPasses, CheckFails, Save, RecordOutcome,
       RecordUnhealthy, NothingToRestore, RollbackDeployOk, RollbackDeployFails,
       RollbackCheckPasses, RollbackCheckFails, RollbackSave, RollbackRecord,
       ClearAttempt, Chain, Finish, Recheck, Landed, GiveUp, worldVars, Lands, DeployError

\* An operation that waits is not concerned by what others do to the store: the
\* row its recovery is about, if it is still there, stays what it was.
LEMMA WaitingKeeps ==
  ASSUME TypeOK, Numbered, NEW x \in Procs, ~Inside(x), op'[x] = op[x],
         Journaling(x), Shipping(x),
         \A j \in journal' : j \in journal \/ j.id = nextId
  PROVE  Journaling(x)' /\ Shipping(x)'
<1>1. op[x].rec # nextId
  BY DEF Numbered, TypeOK
<1>2. Journaling(x)'
  BY <1>1 DEF Journaling, Inside, RollingBack
<1>3. Shipping(x)'
  BY DEF Shipping, Inside
<1>4. QED
  BY <1>2, <1>3

LEMMA StepTruthful ==
  ASSUME "late" \notin DeployFaults,
         TypeOK, OperationsSerialized, OperationsSerialized', AllShaped, Numbered,
         Accountable, Truthful, NEW o \in Procs, Step(o)
  PROVE  Truthful'
<1>0. /\ Shaped(o) /\ Journaling(o) /\ Shipping(o) /\ Others(o) /\ ~op[o].expired
      /\ op[o] \in OpRec /\ op \in [Procs -> OpRec] /\ NoProc \notin Procs
      /\ orphans' = {} /\ RowsDistinct'
  BY StepOthers, StepOrphans, StepRows, ProcAssumption
     DEF AllShaped, TypeOK, Truthful, Accountable, Answerable
<1>1. \A j \in journal' : j \in journal \/ j.id = nextId
  <2>1. CASE Quiet(o)
    BY <2>1, QuietUnchanged
  <2>2. CASE Begins(o)
    BY <1>0, <2>2, BeginIds
  <2>3. CASE Records(o)
    BY <2>3, RecordsIds
  <2>4. CASE LockRefused(o) \/ RecoverDropped(o) \/ ClearAttempt(o) \/ Finish(o)
    BY <2>4, RowsGo
  <2>5. QED
    BY <2>1, <2>2, <2>3, <2>4, StepSorts
<1>2. CASE StepInside(o)
  <2>1. holder = o /\ Inside(o)
    BY <1>2, InsideStep DEF OperationsSerialized
  <2>2. Proving(o) /\ FatesKnown(o)
    BY <2>1 DEF Truthful
  <2>3. Journaling(o)' /\ Shipping(o)' /\ Proving(o)' /\ FatesKnown(o)'
    BY <1>0, <1>2, <2>2, JournalsStep, ShipsStep, ProvesStep, FatesStep
  <2>4. Inside(o)' /\ holder' = o
    BY <1>2, <2>1, StepMoves DEF Inside, Moves, OperationsSerialized
  <2>5. \A x \in Procs \ {o} : ~Inside(x) /\ ~Inside(x)' /\ op'[x] = op[x]
    BY <1>0, <2>1, <2>4 DEF Others, OperationsSerialized
  <2>6. \A x \in Procs \ {o} : Journaling(x)' /\ Shipping(x)'
    BY <1>1, <2>5, WaitingKeeps DEF Truthful
  <2>7. QED
    BY <1>0, <2>3, <2>4, <2>5, <2>6 DEF Truthful
<1>3. CASE AcquireLock(o)
  <2>1. /\ holder = NoProc /\ UNCHANGED <<state, history, journal, live>> /\ holder' = o
        /\ op[o].pc = "lock"
        /\ op' = [op EXCEPT ![o] = [op[o] EXCEPT !.pc =
                    IF op[o].kind = "recover" THEN "recheck" ELSE "begin"]]
    BY <1>3 DEF AcquireLock, Free, Goto, Become, storeVars, worldVars
  <2>2. /\ op'[o].pc = (IF op[o].kind = "recover" THEN "recheck" ELSE "begin")
        /\ op'[o].att = op[o].att /\ op'[o].rec = op[o].rec /\ op'[o].ring = op[o].ring
        /\ op'[o].kind = op[o].kind /\ op'[o].act = op[o].act
        /\ op'[o].version = op[o].version
    BY <1>0, <2>1 DEF OpRec
  <2>3. Journaling(o)' /\ Shipping(o)' /\ Proving(o)'
    <3>1. Journaling(o)'
      BY <1>0, <2>1, <2>2 DEF Journaling, RollingBack
    <3>2. Shipping(o)'
      BY <1>0, <2>1, <2>2 DEF Shipping
    <3>3. Proving(o)'
      BY <2>2 DEF Proving
    <3>4. QED
      BY <3>1, <3>2, <3>3
  <2>4. ASSUME NEW r \in Reported
        PROVE  (Settled(r) \/ OpenElse(o, r) \/ InHand(o, r))'
    <3>1. CASE Settled(r)
      BY <2>1, <3>1 DEF Settled, Succeeded, LastResult, Entries
    <3>2. CASE \E j \in journal : j.ring = r
      <4>1. PICK j \in journal : j.ring = r
        BY <3>2
      <4>2. CASE j.id # op[o].att /\ j.id # op[o].rec
        BY <2>1, <2>2, <4>1, <4>2 DEF OpenElse
      <4>3. CASE j.id = op[o].att \/ j.id = op[o].rec
        <5>1. op[o].att = op[o].rec /\ j.id # 0
          BY <1>0, <2>1 DEF Shaped, Numbered, TypeOK
        <5>2. op[o].kind = "recover"
          BY <1>0, <4>3, <5>1 DEF Shaped
        <5>3. j.ring = op[o].ring
          BY <1>0, <2>1, <4>3, <5>1, <5>2 DEF Journaling
        <5>4. QED
          BY <2>1, <2>2, <4>1, <4>3, <5>1, <5>2, <5>3 DEF InHand, Undecided
      <4>4. QED
        BY <4>2, <4>3
    <3>3. QED
      BY <2>1, <3>1, <3>2 DEF Truthful, FatesOpen
  <2>5. FatesKnown(o)'
    BY <2>4 DEF FatesKnown
  <2>6. \A x \in Procs \ {o} : ~Inside(x) /\ ~Inside(x)' /\ op'[x] = op[x]
    BY <1>0, <2>1 DEF Others, OperationsSerialized
  <2>7. \A x \in Procs \ {o} : Journaling(x)' /\ Shipping(x)'
    BY <1>1, <2>6, WaitingKeeps DEF Truthful
  <2>8. QED
    BY <1>0, <2>1, <2>3, <2>5, <2>6, <2>7 DEF Truthful
<1>4. CASE Finish(o)
  <2>1. /\ op[o].pc = "finish" /\ UNCHANGED <<state, history, live>> /\ holder' = NoProc
        /\ op'[o] = Idle /\ journal' = {j \in journal : j.id # op[o].rec}
    BY <1>0, <1>4 DEF Finish, Become, worldVars, JournalEnd
  <2>2. \A x \in Procs : ~Inside(x)'
    BY <1>0, <2>1 DEF OperationsSerialized
  <2>3. FatesKnown(o) /\ \A x \in Procs \ {o} : ~Inside(x) /\ op'[x] = op[x]
    BY <1>0, <2>1 DEF Truthful, Inside, Others, OperationsSerialized
  <2>4. ASSUME NEW r \in Reported
        PROVE  (Settled(r) \/ \E j \in journal : j.ring = r)'
    <3>1. Settled(r) \/ OpenElse(o, r)
      BY <2>1, <2>3 DEF FatesKnown, InHand, Undecided, RollingBack
    <3>2. CASE Settled(r)
      BY <2>1, <3>2 DEF Settled, Succeeded, LastResult, Entries
    <3>3. CASE OpenElse(o, r)
      BY <2>1, <3>3 DEF OpenElse
    <3>4. QED
      BY <3>1, <3>2, <3>3
  <2>5. FatesOpen'
    BY <2>4 DEF FatesOpen
  <2>6. Journaling(o)' /\ Shipping(o)'
    BY <2>1 DEF Journaling, Shipping, Idle, RollingBack
  <2>7. \A x \in Procs \ {o} : Journaling(x)' /\ Shipping(x)'
    BY <1>1, <2>3, WaitingKeeps DEF Truthful
  <2>8. QED
    BY <1>0, <2>2, <2>5, <2>6, <2>7 DEF Truthful
<1>5. CASE LockRefused(o)
  BY <1>0, <1>5 DEF LockRefused
<1>6. CASE RecoverDropped(o)
  BY <1>0, <1>6 DEF RecoverDropped, Dropped, Accountable, Answerable, OpRec
<1>7. QED
  BY <1>2, <1>3, <1>4, <1>5, <1>6, StepsSplit DEF StepOutside

\* What a process that starts, a request or a crash leaves of it.
LEMMA SameStore ==
  ASSUME UNCHANGED <<state, history, journal, live>>, NEW x \in Procs, op'[x] = op[x]
  PROVE  /\ Journaling(x) => Journaling(x)'
         /\ Shipping(x) => Shipping(x)'
         /\ Proving(x) => Proving(x)'
         /\ FatesKnown(x) => FatesKnown(x)'
<1> USE DEF Succeeded, LastResult, Entries
<1>1. Journaling(x) => Journaling(x)'
  BY DEF Journaling
<1>2. Shipping(x) => Shipping(x)'
  BY DEF Shipping
<1>3. Proving(x) => Proving(x)'
  BY DEF Proving
<1>4. FatesKnown(x) => FatesKnown(x)'
  BY DEF FatesKnown, Settled, OpenElse, InHand
<1>5. QED
  BY <1>1, <1>2, <1>3, <1>4

LEMMA SameFates ==
  ASSUME UNCHANGED <<state, history, journal, live>>
  PROVE  (FatesOpen => FatesOpen') /\ (RowsDistinct => RowsDistinct')
BY DEF FatesOpen, RowsDistinct, Settled, Succeeded, LastResult, Entries

LEMMA ApiTruthful ==
  ASSUME TypeOK, Truthful, NEW o \in Procs, NEW p \in Replicas, NEW r \in Ring, Api(o, p, r)
  PROVE  Truthful'
<1>1. PICK kind, v : /\ Request(o, p, kind, r, v)
                     /\ kind = "seed" => v # NoVersion
  BY VersionAssumption
     DEF Api, RequestSeed, RequestPromote, RequestRollback, RequestRestart, DeployVersion
<1> DEFINE l == [Idle EXCEPT !.kind = kind, !.pc = "lock", !.home = p,
                             !.act = kind, !.ring = r, !.version = v]
<1>2. /\ UNCHANGED <<state, history, journal, live, orphans, holder>>
      /\ kind # "recover" /\ op[o].pc = "idle" /\ op' = [op EXCEPT ![o] = l]
  BY <1>1, FaultAssumption DEF Request, ApiKind, storeVars, worldVars, Become
<1>3. l.pc = "lock" /\ l.kind = kind /\ l.act = kind /\ l.version = v
  BY DEF Idle
<1> HIDE DEF l
<1>4. op'[o] = l /\ \A x \in Procs \ {o} : op'[x] = op[x]
  BY <1>2 DEF TypeOK
<1>5. ~Inside(o) /\ ~Inside(o)' /\ Journaling(o)' /\ Shipping(o)'
  BY <1>1, <1>2, <1>3, <1>4 DEF Inside, Journaling, Shipping, RollingBack
<1>6. ASSUME NEW x \in Procs \ {o}
      PROVE  Journaling(x)' /\ Shipping(x)' /\ (Inside(x)' => Proving(x)' /\ FatesKnown(x)')
  <2>1. op'[x] = op[x] /\ (Inside(x)' => Inside(x))
    BY <1>4 DEF Inside
  <2>2. QED
    BY <1>2, <2>1, SameStore DEF Truthful
<1>7. QED
  BY <1>2, <1>5, <1>6, SameFates DEF Truthful

LEMMA CrashTruthful ==
  ASSUME LateLanding = FALSE, TypeOK, OperationsSerialized, Truthful,
         NEW p \in Replicas, Crash(p)
  PROVE  Truthful'
<1>1. /\ UNCHANGED <<state, history, journal, live, orphans>>
      /\ op' = [o \in Procs |-> IF o \in OpsOf(p) THEN Idle ELSE op[o]]
      /\ holder' = IF holder \in OpsOf(p) THEN NoProc ELSE holder
  BY DEF Crash, storeVars, LockAfterCrash
<1>2. ASSUME NEW x \in Procs
      PROVE  Journaling(x)' /\ Shipping(x)' /\ (Inside(x)' => Proving(x)' /\ FatesKnown(x)')
  <2>1. CASE x \in OpsOf(p)
    <3>1. op'[x] = Idle
      BY <1>1, <2>1
    <3>2. QED
      BY <3>1 DEF Journaling, Shipping, Inside, Idle, RollingBack
  <2>2. CASE x \notin OpsOf(p)
    <3>1. op'[x] = op[x] /\ (Inside(x)' => Inside(x))
      BY <1>1, <2>2 DEF Inside
    <3>2. QED
      BY <1>1, <3>1, SameStore DEF Truthful
  <2>3. QED
    BY <2>1, <2>2
<1>3. ASSUME holder' = NoProc
      PROVE  FatesOpen'
  <2>1. CASE holder = NoProc
    BY <1>1, <2>1, SameFates DEF Truthful
  <2>2. CASE holder # NoProc
    <3>1. holder \in Procs /\ FatesKnown(holder)
      BY <2>2 DEF TypeOK, OperationsSerialized, Truthful
    <3>2. FatesOpen
      BY <3>1 DEF FatesOpen, FatesKnown, OpenElse, InHand
    <3>3. QED
      BY <1>1, <3>2, SameFates
  <2>3. QED
    BY <2>1, <2>2
<1>4. QED
  BY <1>1, <1>2, <1>3, SameFates DEF Truthful

LEMMA BootTruthful ==
  ASSUME TypeOK, Truthful, NEW p \in Replicas, Boot(p)
  PROVE  Truthful'
<1>1. PICK slot \in [Leftover -> IdleSlots] :
        op' = [o \in Procs |->
                 IF \E j \in Leftover : slot[j] = o
                 THEN RecoverOp(p, CHOOSE j \in Leftover : slot[j] = o)
                 ELSE op[o]]
  BY DEF Boot
<1>2. UNCHANGED <<state, history, journal, live, orphans, holder>>
  BY DEF Boot, worldVars
<1>3. ASSUME NEW x \in Procs
      PROVE  Journaling(x)' /\ Shipping(x)' /\ (Inside(x)' => Proving(x)' /\ FatesKnown(x)')
  <2>1. CASE \E j \in Leftover : slot[j] = x
    <3>1. PICK j \in journal : op'[x] = RecoverOp(p, j)
      BY <1>1, <2>1 DEF Leftover
    <3>2. /\ RecoverOp(p, j).pc = "lock" /\ RecoverOp(p, j).rec = j.id
          /\ RecoverOp(p, j).ring = j.ring /\ RecoverOp(p, j).version = j.version
      BY DEF RecoverOp, Idle
    <3>3. j.version # NoVersion /\ \A k \in journal : k.id = j.id => k.ring = j.ring
      BY DEF Truthful, RowsDistinct
    <3>4. QED
      BY <1>2, <3>1, <3>2, <3>3 DEF Inside, Journaling, Shipping, RollingBack
  <2>2. CASE ~\E j \in Leftover : slot[j] = x
    <3>1. op'[x] = op[x] /\ (Inside(x)' => Inside(x))
      BY <1>1, <2>2 DEF Inside
    <3>2. QED
      BY <1>2, <3>1, SameStore DEF Truthful
  <2>3. QED
    BY <2>1, <2>2
<1>4. QED
  BY <1>2, <1>3, SameFates DEF Truthful

LEMMA NextTruthful ==
  ASSUME Timeouts = FALSE, Removable = {}, LateLanding = FALSE, "late" \notin DeployFaults
  PROVE  /\ TypeOK /\ OperationsSerialized /\ AllShaped /\ Numbered /\ Accountable
         /\ Truthful /\ [Next]_vars /\ OperationsSerialized'
         => Truthful'
<1> SUFFICES ASSUME TypeOK, OperationsSerialized, AllShaped, Numbered, Accountable,
                    Truthful, [Next]_vars, OperationsSerialized'
             PROVE  Truthful'
  OBVIOUS
<1>1. CASE \E o \in Procs : Step(o)
  BY <1>1, StepTruthful
<1>2. CASE \E o \in Procs : Expire(o)
  BY <1>2 DEF Expire
<1>3. CASE \E o \in Procs, p \in Replicas, r \in Ring : Api(o, p, r)
  BY <1>3, ApiTruthful
<1>4. CASE \/ \E p \in Replicas, r \in Ring, b \in BOOLEAN : SetAutoPromote(p, r, b)
           \/ UNCHANGED vars
  <2>1. UNCHANGED <<state, history, journal, live, orphans, holder, op>>
    BY <1>4 DEF SetAutoPromote, vars, storeVars, worldVars
  <2>2. \A x \in Procs : op'[x] = op[x] /\ (Inside(x)' => Inside(x))
    BY <2>1 DEF Inside
  <2>3. QED
    BY <2>1, <2>2, SameStore, SameFates DEF Truthful
<1>5. CASE \E p \in Replicas : Crash(p)
  BY <1>5, CrashTruthful
<1>6. CASE \E p \in Replicas : Boot(p)
  BY <1>6, BootTruthful
<1>7. CASE \E d \in orphans : Land(d)
  BY <1>7 DEF Truthful
<1>8. QED
  BY <1>1, <1>2, <1>3, <1>4, <1>5, <1>6, <1>7, NextSplit DEF Elsewhere

\* A ring that proves its version and was last reported a success runs what the
\* store says, unless an operation or a journal row has its fate in hand:
\* whatever fails, is half done or is cut short by a crash and resolved by a
\* recovery, as long as no deploy lands behind the service's back and no
\* operation runs out of time.
THEOREM HistoryIsTrue ==
  ASSUME Timeouts = FALSE, Removable = {}, LateLanding = FALSE, "late" \notin DeployFaults
  PROVE  Spec => []SuccessIsTruth
<1>1. Init => Truthful /\ AllShaped /\ Numbered /\ Accountable
  <2> SUFFICES ASSUME Init
               PROVE  Truthful
    BY NobodyInside, InitAccountable
  <2>1. \A o \in Procs : op[o] = Idle
    BY DEF Init
  <2>2. /\ Idle.pc = "idle" /\ journal = {} /\ orphans = {}
        /\ \A r : Entries(r) = {}
    BY DEF Idle, Init, Entries
  <2>3. \A o \in Procs : Journaling(o) /\ Shipping(o) /\ ~Inside(o)
    BY <2>1, <2>2 DEF Journaling, Shipping, Inside, RollingBack
  <2>4. FatesOpen /\ RowsDistinct
    BY <2>2 DEF FatesOpen, Settled, Succeeded, RowsDistinct
  <2>5. QED
    BY <2>2, <2>3, <2>4 DEF Truthful
<1>2. TypeOK /\ OperationsSerialized /\ Truthful => SuccessIsTruth
  <2> SUFFICES ASSUME TypeOK, OperationsSerialized, Truthful, NEW r \in Reported,
                      Succeeded(r), holder # NoProc => op[holder].ring # r,
                      \A j \in journal : j.ring # r
               PROVE  state[r].cur = live[r]
    BY DEF SuccessIsTruth, Reported, Succeeded
  <2>1. CASE holder = NoProc
    BY <2>1 DEF Truthful, FatesOpen, Settled
  <2>2. CASE holder # NoProc
    <3>1. holder \in Procs /\ FatesKnown(holder)
      BY <2>2 DEF TypeOK, OperationsSerialized, Truthful
    <3>2. QED
      BY <3>1 DEF FatesKnown, Settled, OpenElse, InHand
  <2>3. QED
    BY <2>1, <2>2
<1>3. /\ TypeOK /\ OperationsSerialized /\ AllShaped /\ Numbered /\ Accountable
      /\ Truthful /\ [Next]_vars /\ OperationsSerialized'
      => Truthful'
  BY NextTruthful
<1>4. TypeOK /\ Accountable /\ [Next]_vars => Accountable'
  BY NextAccountable
<1>5. QED
  BY <1>1, <1>2, <1>3, <1>4, TypeCorrect, Serialized, NextShaped, NextNumbered, PTL DEF Spec
=============================================================================
