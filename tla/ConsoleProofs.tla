---------------------------- MODULE ConsoleProofs ----------------------------
(***************************************************************************)
(* The graph of a run is one picture that tells the run as it is, for any  *)
(* shape of run; and the console is its parts: a behaviour of the          *)
(* composition is one of every part, whichever are played, so that what is *)
(* shown here and in SessionProofs, DeskProofs and StageProofs of a part   *)
(* holds of the whole.                                                     *)
(***************************************************************************)
EXTENDS Console, SessionProofs, DeskProofs, StageProofs

-----------------------------------------------------------------------------
(* The graph of a run: its types                                           *)

JobStates == {"queued", "running", "waiting", "success", "reused", "failed", "skipped",
              "cancelled"}

LEMMA FlowInitTypes == ASSUME FlowInit PROVE FlowTypeOK
  <1>1. 0 \in 0..(MaxTime + Slack) /\ 1 \in 1..MaxTime
    BY FlowAssumption
  <1>2. jobStatus \in [JobOfRun -> JobStates]
    <2>1. PICK kept : jobStatus = [j \in DOMAIN needed |->
                                     IF j \in kept THEN "reused" ELSE "queued"]
      BY DEF FlowInit
    <2> QED BY <2>1 DEF JobOfRun, JobStates
  <1>3. release \in Releases /\ drift \in SUBSET {"late", "quick"}
    BY DEF FlowInit, Releases
  <1>4. /\ chart \in {"pipeline", "job"} /\ needed \in Shapes /\ guard \in Asks
        /\ clock \in 1..MaxTime
        /\ began \in [JobOfRun -> 0..(MaxTime + Slack)]
        /\ ended \in [JobOfRun -> 0..(MaxTime + Slack)]
    BY <1>1 DEF FlowInit, JobOfRun, Untold
  <1> QED BY <1>2, <1>3, <1>4 DEF FlowTypeOK, JobStates

\* A stamp lies within the clock and the slack.
LEMMA StampTypes ==
    ASSUME FlowTypeOK, NEW j \in JobOfRun, NEW status \in JobStates,
           NEW from \in 0..(MaxTime + Slack), NEW to \in 0..(MaxTime + Slack),
           Stamp(j, status, from, to)
    PROVE  FlowTypeOK'
  BY DEF Stamp, FlowTypeOK, JobOfRun, JobStates

LEMMA FlowStepTypes == ASSUME FlowTypeOK, [FlowNext]_flowVars PROVE FlowTypeOK'
  <1>0. /\ clock \in 1..MaxTime /\ clock \in Nat /\ clock \in 0..(MaxTime + Slack)
        /\ \A e \in 0..Slack : clock + e \in 0..(MaxTime + Slack)
    BY FlowAssumption DEF FlowTypeOK
  <1>1. CASE Tick
    <2>1. clock' \in 1..MaxTime
      BY <1>0, <1>1, FlowAssumption DEF Tick
    <2> QED BY <1>1, <2>1 DEF Tick, FlowTypeOK, JobOfRun
  <1>2. CASE CancelJobs
    BY <1>0, <1>2 DEF CancelJobs, FlowTypeOK, JobOfRun
  <1>3. CASE CancelStages
    <2>1. release' \in Releases
      BY <1>3 DEF CancelStages, Releases
    <2> QED BY <1>3, <2>1 DEF CancelStages, FlowTypeOK, JobOfRun
  <1>4. ASSUME NEW j \in JobOfRun, BeginJob(j) PROVE FlowTypeOK'
    BY <1>0, <1>4 DEF BeginJob, FlowTypeOK, JobOfRun
  <1>5. ASSUME NEW j \in JobOfRun, SkipJob(j) PROVE FlowTypeOK'
    BY <1>0, <1>5, StampTypes DEF SkipJob, JobStates
  <1>9. ASSUME NEW j \in JobOfRun, StageMoves(j) PROVE FlowTypeOK'
    <2>1. PICK status \in JobStates : Becomes(j, status)
      BY <1>9 DEF StageMoves, JobStates
    <2> QED BY <2>1 DEF Becomes, FlowTypeOK, JobOfRun, JobStates
  <1>6. ASSUME NEW j \in JobOfRun, NEW r \in {"success", "failed"}, EndJob(j, r)
        PROVE  FlowTypeOK'
    <2>1. PICK e \in 0..Slack : Stamp(j, r, began[j], clock + e)
      BY <1>6 DEF EndJob
    <2>2. began[j] \in 0..(MaxTime + Slack)
      BY DEF FlowTypeOK, JobOfRun
    <2> QED BY <1>0, <2>1, <2>2, StampTypes DEF JobStates
  <1>7. ASSUME NEW o \in Releases, Advance(o) PROVE FlowTypeOK'
    BY <1>7 DEF Advance, FlowTypeOK, JobOfRun
  <1>8. CASE UNCHANGED flowVars
    BY <1>8 DEF flowVars, FlowTypeOK, JobOfRun
  <1> QED BY <1>1, <1>2, <1>3, <1>4, <1>5, <1>6, <1>7, <1>8, <1>9 DEF FlowNext

\* The stamps of a run stay within its clock, and its jobs and release in their
\* states, for any shape of run (flow-layout.ts, job-flow.tsx).
THEOREM FlowTypeCorrect == FlowSpec => []FlowTypeOK
  BY FlowInitTypes, FlowStepTypes, PTL DEF FlowSpec

-----------------------------------------------------------------------------
(* Columns: the longest path from the trigger                              *)

\* The depths of what a node needs, and the walk that takes one more than them all.
Further(f, g, at) == {f[<<up, at[2] \cup {at[1]}>>] : up \in Ups(g, at[1])}
DepthAt(f, g, at) ==
    IF at[1] \in at[2] \/ Ups(g, at[1]) = {} THEN 0 ELSE 1 + Max(Further(f, g, at))
IsVisit(f, g) == f = [at \in (DOMAIN g) \X (SUBSET DOMAIN g) |-> DepthAt(f, g, at)]

\* What a node needs ranks below it: the graph has no cycle.
Ranked(g, rank, n) ==
    /\ rank \in [DOMAIN g -> 0..n]
    /\ \A id \in DOMAIN g : \A up \in Ups(g, id) : rank[up] < rank[id]

LEMMA VisitIsOne == ASSUME NEW g, NEW f, IsVisit(f, g) PROVE IsVisit(Visit(g), g)
  BY ZenonT(40) DEF Visit, IsVisit, DepthAt, Further

\* No depth exceeds the rank, if those of the needs do not.
LEMMA DepthBounded ==
    ASSUME NEW g, NEW n \in Nat, NEW rank, Ranked(g, rank, n), NEW f,
           NEW at \in (DOMAIN g) \X (SUBSET DOMAIN g),
           \A up \in Ups(g, at[1]) : f[<<up, at[2] \cup {at[1]}>>] \in 0..rank[up]
    PROVE  /\ DepthAt(f, g, at) \in 0..rank[at[1]]
           /\ (at[1] \notin at[2] /\ Ups(g, at[1]) # {}) =>
                \A up \in Ups(g, at[1]) : f[<<up, at[2] \cup {at[1]}>>] < DepthAt(f, g, at)
  <1> DEFINE S == Further(f, g, at)
             r == rank[at[1]]
  <1>1. at[1] \in DOMAIN g /\ Ups(g, at[1]) \subseteq DOMAIN g
    BY DEF Ups
  <1>2. r \in Nat /\ \A up \in Ups(g, at[1]) : rank[up] \in Nat /\ rank[up] < r
    BY <1>1 DEF Ranked
  <1>3. CASE at[1] \in at[2] \/ Ups(g, at[1]) = {}
    BY <1>2, <1>3 DEF DepthAt
  <1>4. CASE at[1] \notin at[2] /\ Ups(g, at[1]) # {}
    <2>1. r - 1 \in Nat
      BY <1>2, <1>4
    <2>2. S \subseteq 0..(r - 1)
      <3>1. \A up \in Ups(g, at[1]) : f[<<up, at[2] \cup {at[1]}>>] \in 0..(r - 1)
        BY <1>2
      <3> QED BY <3>1 DEF Further
    <2>3. S # {}
      BY <1>4 DEF Further
    <2> HIDE DEF S
    <2>4. Max(S) \in S /\ \A x \in S : x <= Max(S)
      BY <2>1, <2>2, <2>3, GreatestExists
    <2>5. DepthAt(f, g, at) = 1 + Max(S)
      BY <1>4 DEF DepthAt, S
    <2>9. Max(S) \in 0..(r - 1) /\ Max(S) \in Nat
      <3>1. Max(S) \in 0..(r - 1)
        BY <2>2, <2>4
      <3> HIDE DEF r
      <3> QED BY <2>1, <3>1
    <2>6. DepthAt(f, g, at) \in 0..r
      BY <1>2, <2>5, <2>9
    <2>7. \A up \in Ups(g, at[1]) : f[<<up, at[2] \cup {at[1]}>>] \in S
      BY DEF S, Further
    <2>8. ASSUME NEW up \in Ups(g, at[1])
          PROVE  f[<<up, at[2] \cup {at[1]}>>] < DepthAt(f, g, at)
      <3>1. f[<<up, at[2] \cup {at[1]}>>] \in S /\ Max(S) \in Nat
        BY <2>7, <2>9
      <3>2. f[<<up, at[2] \cup {at[1]}>>] <= Max(S) /\ f[<<up, at[2] \cup {at[1]}>>] \in Nat
        BY <2>2, <2>4, <3>1
      <3> QED BY <2>5, <3>1, <3>2
    <2> QED BY <2>6, <2>8
  <1> QED BY <1>3, <1>4

\* The walk exists: a node of rank k is visited after those below it.
LEMMA VisitExists ==
    ASSUME NEW g, NEW n \in Nat, NEW rank, Ranked(g, rank, n)
    PROVE  IsVisit(Visit(g), g)
  <1> DEFINE D == (DOMAIN g) \X (SUBSET DOMAIN g)
             Level(k) == {at \in D : rank[at[1]] < k}
             Visits(f, k) == /\ DOMAIN f = Level(k)
                             /\ f = [at \in DOMAIN f |-> f[at]]
                             /\ \A at \in Level(k) : f[at] = DepthAt(f, g, at) /\ f[at] \in 0..rank[at[1]]
             P == {k \in 0..(n + 1) : \E f : Visits(f, k)}
  <1>1. \A at \in D : at[1] \in DOMAIN g /\ at[2] \in SUBSET DOMAIN g /\ rank[at[1]] \in 0..n
    BY DEF Ranked
  <1>2. ASSUME NEW at \in D, NEW up \in Ups(g, at[1])
        PROVE  <<up, at[2] \cup {at[1]}>> \in D /\ rank[up] < rank[at[1]] /\ rank[up] \in Nat
    <2>1. up \in DOMAIN g
      BY DEF Ups
    <2> QED BY <1>1, <2>1 DEF Ranked
  <1> HIDE DEF D
  <1>3. 0 \in P
    <2> DEFINE f == [at \in Level(0) |-> 0]
    <2>1. Level(0) = {}
      BY <1>1
    <2>2. Visits(f, 0)
      BY <2>1
    <2>3. 0 \in 0..(n + 1)
      OBVIOUS
    <2> HIDE DEF Visits, f
    <2> QED BY <2>2, <2>3
  <1>4. ASSUME NEW k \in 1..(n + 1), k - 1 \in P PROVE k \in P
    <2>1. PICK h : Visits(h, k - 1)
      BY <1>4
    <2> DEFINE f == [at \in Level(k) |-> DepthAt(h, g, at)]
    <2>2. ASSUME NEW at \in Level(k), NEW up \in Ups(g, at[1])
          PROVE  <<up, at[2] \cup {at[1]}>> \in Level(k - 1)
      BY <1>1, <1>2
    <2>3. ASSUME NEW at \in Level(k - 1) PROVE at \in Level(k) /\ f[at] = h[at]
      BY <1>1, <2>1
    <2>4. DOMAIN f = Level(k) /\ f = [at \in DOMAIN f |-> f[at]]
          /\ \A at \in Level(k) : f[at] = DepthAt(h, g, at)
      OBVIOUS
    <2> HIDE DEF f
    <2>5. ASSUME NEW at \in Level(k) PROVE f[at] = DepthAt(f, g, at) /\ f[at] \in 0..rank[at[1]]
      <3>1. Further(f, g, at) = Further(h, g, at)
        BY <2>2, <2>3 DEF Further
      <3>2. DepthAt(f, g, at) = DepthAt(h, g, at)
        BY <3>1 DEF DepthAt
      <3>3. \A up \in Ups(g, at[1]) : h[<<up, at[2] \cup {at[1]}>>] \in 0..rank[up]
        <4> TAKE up \in Ups(g, at[1])
        <4> DEFINE to == <<up, at[2] \cup {at[1]}>>
        <4>1. to \in Level(k - 1) /\ to[1] = up
          BY <2>2
        <4> HIDE DEF to
        <4>2. h[to] \in 0..rank[to[1]]
          BY <2>1, <4>1
        <4> QED BY <4>1, <4>2 DEF to
      <3>4. at \in (DOMAIN g) \X (SUBSET DOMAIN g)
        BY DEF D
      <3>5. DepthAt(h, g, at) \in 0..rank[at[1]]
        BY <3>3, <3>4, DepthBounded
      <3> QED BY <2>4, <3>2, <3>5
    <2>6. Visits(f, k)
      BY <2>4, <2>5
    <2>7. k \in 0..(n + 1)
      OBVIOUS
    <2> HIDE DEF Visits
    <2> QED BY <2>6, <2>7
  <1> HIDE DEF P
  <1>5. Climbs(P, n + 1)
    BY <1>4 DEF Climbs
  <1>6. n + 1 \in Nat /\ n + 1 \in 0..(n + 1)
    OBVIOUS
  <1>7. 0..(n + 1) \subseteq P
    BY <1>3, <1>5, <1>6, UpTo
  <1>8. PICK f : Visits(f, n + 1)
    BY <1>6, <1>7 DEF P
  <1>9. Level(n + 1) = D
    BY <1>1
  <1>10. IsVisit(f, g)
    BY <1>8, <1>9 DEF IsVisit, D
  <1> QED BY <1>10, VisitIsOne

\* A node visited from nodes above it is as deep as one visited from none, and deeper
\* than what it needs.
LEMMA ColumnsRise ==
    ASSUME NEW g, NEW n \in Nat, NEW rank, Ranked(g, rank, n)
    PROVE  \A e \in Edges(g) : Columns(g)[e[1]] < Columns(g)[e[2]]
  <1> DEFINE D == (DOMAIN g) \X (SUBSET DOMAIN g)
             f == Visit(g)
             Above(at) == \A x \in at[2] : rank[x] > rank[at[1]]
             Fits(at) == /\ f[at] \in 0..rank[at[1]]
                         /\ Above(at) => f[at] = f[<<at[1], {}>>]
             P == {k \in 0..(n + 1) : \A at \in D : rank[at[1]] < k => Fits(at)}
  <1>1. \A at \in D : f[at] = DepthAt(f, g, at)
    BY ZenonT(40), VisitExists DEF IsVisit
  <1> HIDE DEF f
  <1>2. \A id \in DOMAIN g : rank[id] \in 0..n /\ rank[id] \in Nat
    BY DEF Ranked
  <1>3. \A id \in DOMAIN g : \A up \in Ups(g, id) : up \in DOMAIN g /\ rank[up] < rank[id]
    BY DEF Ranked, Ups
  <1>4. 0 \in P
    <2>1. 0 \in 0..(n + 1)
      OBVIOUS
    <2>2. \A at \in D : ~(rank[at[1]] < 0)
      BY <1>2
    <2> QED BY <2>1, <2>2
  <1>5. ASSUME NEW k \in 1..(n + 1), k - 1 \in P PROVE k \in P
    <2>0. k \in 0..(n + 1) /\ \A at \in D : rank[at[1]] < k - 1 => Fits(at)
      BY <1>5
    <2> SUFFICES ASSUME NEW at \in D, rank[at[1]] < k PROVE Fits(at)
      BY <2>0
    <2> DEFINE bare == <<at[1], {}>>
               From(up) == <<up, at[2] \cup {at[1]}>>
               Bare(up) == <<up, {at[1]}>>
    <2>1. at[1] \in DOMAIN g /\ at[2] \in SUBSET DOMAIN g /\ bare \in D
          /\ bare[1] = at[1] /\ bare[2] = {}
      OBVIOUS
    <2>2. ASSUME NEW up \in Ups(g, at[1])
          PROVE  /\ From(up) \in D /\ Bare(up) \in D
                 /\ Fits(From(up)) /\ Fits(Bare(up)) /\ Above(Bare(up))
                 /\ Above(at) => Above(From(up))
      <3>1. up \in DOMAIN g /\ rank[up] < rank[at[1]] /\ rank[up] < k - 1
            /\ rank[up] \in Nat /\ rank[at[1]] \in Nat
        BY <1>2, <1>3, <2>1
      <3>2. From(up) \in D /\ Bare(up) \in D
        BY <2>1, <3>1
      <3>3. Fits(From(up)) /\ Fits(Bare(up))
        <4>1. From(up)[1] = up /\ Bare(up)[1] = up
          OBVIOUS
        <4> HIDE DEF From, Bare, Fits, D
        <4> QED BY <2>0, <3>1, <3>2, <4>1
      <3>4. Above(Bare(up))
        BY <3>1
      <3>5. Above(at) => Above(From(up))
        BY <1>2, <2>1, <3>1
      <3> HIDE DEF Fits, Above, D
      <3> QED BY <3>2, <3>3, <3>4, <3>5
    <2>3. f[at] \in 0..rank[at[1]]
      <3>1. \A up \in Ups(g, at[1]) : f[<<up, at[2] \cup {at[1]}>>] \in 0..rank[up]
        <4> TAKE up \in Ups(g, at[1])
        <4>1. Fits(From(up)) /\ From(up)[1] = up
          BY <2>2
        <4> QED BY <4>1
      <3> QED BY <1>1, <3>1, DepthBounded
    <2>4. ASSUME Above(at) PROVE f[at] = f[bare]
      <3>1. at[1] \notin at[2]
        <4> SUFFICES ASSUME at[1] \in at[2] PROVE FALSE
          OBVIOUS
        <4>1. rank[at[1]] > rank[at[1]]
          BY <2>4
        <4> QED BY <1>2, <2>1, <4>1
      <3>2. ASSUME NEW up \in Ups(g, at[1]) PROVE f[From(up)] = f[Bare(up)]
        <4>1. From(up)[1] = up /\ Bare(up)[1] = up
          OBVIOUS
        <4> HIDE DEF From, Bare, Above
        <4> QED BY <2>2, <2>4, <4>1
      <3>3. Further(f, g, at) = {f[From(up)] : up \in Ups(g, at[1])}
        BY DEF Further
      <3>4. Further(f, g, bare) = {f[Bare(up)] : up \in Ups(g, at[1])}
        <4>1. {} \cup {at[1]} = {at[1]}
          OBVIOUS
        <4> QED BY <2>1, <4>1 DEF Further
      <3> HIDE DEF From, Bare
      <3>5. Further(f, g, at) = Further(f, g, bare)
        BY <3>2, <3>3, <3>4
      <3> HIDE DEF bare
      <3>6. DepthAt(f, g, at) = DepthAt(f, g, bare)
        BY <2>1, <3>1, <3>5 DEF DepthAt
      <3> HIDE DEF D
      <3> QED BY <1>1, <2>1, <3>6
    <2> QED BY <2>3, <2>4
  <1> HIDE DEF P
  <1>6. Climbs(P, n + 1)
    BY <1>5 DEF Climbs
  <1>7. n + 1 \in Nat /\ n + 1 \in 0..(n + 1)
    OBVIOUS
  <1>8. 0..(n + 1) \subseteq P
    BY <1>4, <1>6, <1>7, UpTo
  <1>9. \A at \in D : rank[at[1]] < n + 1
    BY <1>2
  <1>10. \A at \in D : Fits(at)
    <2> HIDE DEF D, Fits
    <2> QED BY <1>7, <1>8, <1>9 DEF P
  <1>11. ASSUME NEW e \in Edges(g) PROVE Columns(g)[e[1]] < Columns(g)[e[2]]
    <2> DEFINE up == e[1]
               id == e[2]
               at == <<id, {}>>
               from == <<up, {id}>>
    <2>1. up \in DOMAIN g /\ id \in DOMAIN g /\ up \in Ups(g, id)
      BY DEF Edges
    <2>2. at \in (DOMAIN g) \X (SUBSET DOMAIN g) /\ at[1] = id /\ at[2] = {} /\ at \in D
          /\ from \in D /\ from[1] = up /\ from[2] = {id}
      BY <2>1
    <2>3. Columns(g)[up] = f[<<up, {}>>] /\ Columns(g)[id] = f[at]
      BY <2>1 DEF Columns, f
    <2> HIDE DEF up, id
    <2>4. f[from] = f[<<up, {}>>]
      <3>1. rank[id] > rank[up]
        BY <1>2, <1>3, <2>1
      <3>2. Above(from)
        BY <2>2, <3>1
      <3> QED BY <1>10, <2>2, <3>2
    <2>5. ASSUME NEW u \in Ups(g, id)
          PROVE  f[<<u, at[2] \cup {at[1]}>>] \in 0..rank[u] /\ at[2] \cup {at[1]} = {id}
      <3>1. at[2] \cup {at[1]} = {id}
        BY <2>2
      <3>2. <<u, {id}>> \in D /\ <<u, {id}>>[1] = u
        BY <1>3, <2>1
      <3>3. f[<<u, {id}>>] \in 0..rank[u]
        BY <1>10, <3>2
      <3> QED BY <3>1, <3>3
    <2>6. f[<<up, at[2] \cup {at[1]}>>] < DepthAt(f, g, at)
      <3>1. at[1] \notin at[2] /\ Ups(g, at[1]) # {} /\ up \in Ups(g, at[1])
        BY <2>1, <2>2
      <3>2. \A u \in Ups(g, at[1]) : f[<<u, at[2] \cup {at[1]}>>] \in 0..rank[u]
        BY <2>2, <2>5
      <3> HIDE DEF at
      <3> QED BY <2>2, <3>1, <3>2, DepthBounded
    <2>7. f[from] < f[at]
      BY <1>1, <2>1, <2>2, <2>5, <2>6
    <2> QED BY <2>3, <2>4, <2>7 DEF up, id
  <1> QED BY <1>11

-----------------------------------------------------------------------------
(* inferStageNeeds: the walk from the first job that began to the latest    *)

\* What the types of a run say of its jobs and stamps.
LEMMA JobsOfRun ==
    ASSUME FlowTypeOK
    PROVE  /\ Len(needed) \in Nat \ {0} /\ JobOfRun = 1..Len(needed)
           /\ JobOfRun \subseteq 0..Len(needed) /\ IsFiniteSet(JobOfRun)
           /\ \A j \in JobOfRun : /\ needed[j] \subseteq 1..(j - 1) /\ needed[j] \subseteq JobOfRun
                                  /\ j \in Nat /\ began[j] \in 0..(MaxTime + Slack)
                                  /\ ended[j] \in 0..(MaxTime + Slack)
           /\ Started \subseteq JobOfRun /\ clock \in Nat /\ Slack \in Nat /\ MaxTime \in Nat
           /\ MaxTime + Slack \in Nat
  <1>1. needed \in Seq(SUBSET Nat) /\ needed # <<>> /\ needed \in Shapes
    BY FlowAssumption DEF FlowTypeOK
  <1>2. Len(needed) \in Nat \ {0} /\ JobOfRun = 1..Len(needed)
    BY <1>1 DEF JobOfRun
  <1>3. \A j \in JobOfRun : needed[j] \subseteq 1..(j - 1)
    BY <1>1, FlowAssumption DEF JobOfRun
  <1>4. \A j \in JobOfRun : j \in Nat /\ 1..(j - 1) \subseteq JobOfRun
    BY <1>2
  <1>5. \A j \in JobOfRun : began[j] \in 0..(MaxTime + Slack) /\ ended[j] \in 0..(MaxTime + Slack)
    BY DEF FlowTypeOK
  <1>6. clock \in Nat /\ Slack \in Nat /\ MaxTime \in Nat /\ MaxTime + Slack \in Nat
    BY FlowAssumption DEF FlowTypeOK
  <1>7. IsFiniteSet(JobOfRun)
    BY <1>2, FS_Interval
  <1>8. JobOfRun \subseteq 0..Len(needed)
    BY <1>2
  <1> QED BY <1>2, <1>3, <1>4, <1>5, <1>6, <1>7, <1>8 DEF Started

\* Sooner orders the jobs of a run.
LEMMA SoonerOrders ==
    ASSUME FlowTypeOK, NEW i \in JobOfRun, NEW j \in JobOfRun, NEW k \in JobOfRun
    PROVE  /\ ~Sooner(i, i) /\ (Sooner(i, j) => ~Sooner(j, i))
           /\ (Sooner(i, j) /\ Sooner(j, k) => Sooner(i, k))
           /\ (i # j => Sooner(i, j) \/ Sooner(j, i))
           /\ (Sooner(i, j) => began[i] <= began[j])
  <1>1. \A x \in {i, j, k} : x \in Nat /\ began[x] \in Nat
    BY JobsOfRun
  <1> QED BY <1>1 DEF Sooner

\* Of jobs that began, one is the latest.
LEMMA LatestExists ==
    ASSUME FlowTypeOK, NEW s \in SUBSET Started, s # {}
    PROVE  Latest(s) \in s /\ \A k \in s \ {Latest(s)} : Sooner(k, Latest(s))
  <1> DEFINE B == {began[j] : j \in s}
             b == Max(B)
             L == {j \in s : began[j] = b}
             l == Max(L)
  <1>1. s \subseteq JobOfRun /\ s \subseteq 0..Len(needed)
    BY JobsOfRun
  <1>2. \A j \in s : began[j] \in 0..(MaxTime + Slack) /\ j \in Nat /\ began[j] \in Nat
    BY <1>1, JobsOfRun
  <1>3. B \subseteq 0..(MaxTime + Slack) /\ B # {}
    BY <1>2
  <1> HIDE DEF B
  <1>4. b \in B /\ \A x \in B : x <= b
    BY <1>3, JobsOfRun, GreatestExists
  <1> HIDE DEF b
  <1>5. L \subseteq 0..Len(needed) /\ L # {}
    BY <1>1, <1>4 DEF B
  <1> HIDE DEF L
  <1>6. l \in L /\ \A x \in L : x <= l
    BY <1>5, JobsOfRun, GreatestExists
  <1> HIDE DEF l
  <1>7. l \in s /\ began[l] = b
    BY <1>6 DEF L
  <1>8. ASSUME NEW k \in s \ {l} PROVE Sooner(k, l)
    <2>1. began[k] <= b /\ began[k] \in Nat /\ b \in Nat /\ k \in Nat /\ l \in Nat
      BY <1>2, <1>4, <1>7 DEF B
    <2>2. began[k] = b => k <= l
      BY <1>6 DEF L
    <2> QED BY <1>7, <2>1, <2>2 DEF Sooner
  <1>9. \E j \in s : \A k \in s \ {j} : Sooner(k, j)
    BY <1>7, <1>8
  <1> QED BY <1>9 DEF Latest

\* What began and ended before a job did so before the later ones.
LEMMA BeforePassesOn ==
    ASSUME FlowTypeOK, NEW j \in JobOfRun
    PROVE  /\ Before(j) \subseteq Started /\ Before(j) \subseteq JobOfRun
           /\ \A i \in Before(j) : Sooner(i, j) /\ Before(i) \subseteq Before(j)
  <1>1. Before(j) \subseteq Started /\ Before(j) \subseteq JobOfRun
    BY JobsOfRun DEF Before
  <1>2. ASSUME NEW i \in Before(j), NEW k \in Before(i) PROVE k \in Before(j)
    <2>1. i \in JobOfRun /\ k \in JobOfRun /\ k \in Started /\ Sooner(k, i) /\ Sooner(i, j)
          /\ ended[k] # Untold /\ ended[k] <= began[i] + Slack
      BY <1>1, JobsOfRun DEF Before
    <2>2. Sooner(k, j) /\ began[i] <= began[j]
      BY <2>1, SoonerOrders
    <2>3. ended[k] \in Nat /\ began[i] \in Nat /\ began[j] \in Nat /\ Slack \in Nat
      BY <2>1, JobsOfRun
    <2>4. ended[k] <= began[j] + Slack
      BY <2>1, <2>2, <2>3
    <2> QED BY <2>1, <2>2, <2>4 DEF Before
  <1> QED BY <1>1, <1>2 DEF Before

\* The walk reaches a job after all that came before it, so its ancestors are those.
LEMMA AncestorsAreBefore == ASSUME FlowTypeOK PROVE \A j \in Started : Ancestors[j] = Before(j)
  <1> DEFINE A == [JobOfRun -> SUBSET JobOfRun]
             base == [j \in JobOfRun |-> {}]
             pick == [s \in SUBSET Started |-> Latest(s)]
             next == [p \in A \X Started |-> WithAncestors(p[2], p[1])]
             Folded(f) == f = [s \in SUBSET Started |->
                                IF s = {} THEN base ELSE WithAncestors(Latest(s), f[s \ {Latest(s)}])]
  <1>1. Started \subseteq JobOfRun /\ IsFiniteSet(Started)
    BY JobsOfRun, FS_Subset
  <1>2. base \in A
    OBVIOUS
  <1>3. ASSUME NEW x \in A, NEW j \in Started
        PROVE  next[<<x, j>>] = WithAncestors(j, x) /\ WithAncestors(j, x) \in A
    <2>1. Before(j) \subseteq JobOfRun
      BY <1>1, BeforePassesOn
    <2>2. UNION {{i} \cup x[i] : i \in Before(j)} \subseteq JobOfRun
      BY <2>1
    <2> QED BY <2>2 DEF WithAncestors
  <1>4. next \in [A \X Started -> A]
    BY <1>3
  <1>5. \A s \in SUBSET Started : pick[s] = Latest(s) /\ (s # {} => Latest(s) \in s)
    BY LatestExists
  <1>6. Picks(pick, Started)
    BY <1>5 DEF Picks
  <1> HIDE DEF A, base, pick, next
  <1>7. PICK h : FoldOf(h, Started, A, base, pick, next)
    BY <1>1, <1>2, <1>4, <1>6, FoldExists
  <1>8. Folded(h)
    <2>1. h \in [SUBSET Started -> A]
      BY <1>7 DEF FoldOf
    <2>2. \A s \in SUBSET Started :
            h[s] = IF s = {} THEN base ELSE WithAncestors(Latest(s), h[s \ {Latest(s)}])
      <3> TAKE s \in SUBSET Started
      <3>1. CASE s = {}
        BY <1>7, <3>1 DEF FoldOf
      <3>2. CASE s # {}
        <4>1. h[s] = next[<<h[s \ {Latest(s)}], Latest(s)>>]
          BY <1>5, <1>7, <3>2 DEF FoldOf
        <4>2. h[s \ {Latest(s)}] \in A /\ Latest(s) \in Started
          BY <1>5, <2>1, <3>2
        <4> QED BY <1>3, <3>2, <4>1, <4>2
      <3> QED BY <3>1, <3>2
    <2> QED BY <2>1, <2>2
  <1>9. \E f : Folded(f) /\ Ancestors = f[Started]
    BY <1>8 DEF Ancestors, MapThenFoldSet, base
  <1>10. PICK f : Folded(f) /\ Ancestors = f[Started]
    BY <1>9
  <1> DEFINE Closed(s) == \A j \in s, i \in Started : Sooner(i, j) => i \in s
             Right(s) == f[s] \in A /\ \A j \in s : f[s][j] = Before(j)
             m == Cardinality(Started)
             P == {k \in 0..m : \A s \in SUBSET Started :
                                  Cardinality(s) <= k /\ Closed(s) => Right(s)}
  <1>11. m \in Nat /\ \A s \in SUBSET Started : IsFiniteSet(s) /\ Cardinality(s) \in Nat
    BY <1>1, FS_Subset, FS_CardinalityType
  <1>12. Right({})
    BY <1>2, <1>10
  <1>13. 0 \in P
    <2>1. \A s \in SUBSET Started : Cardinality(s) <= 0 => s = {}
      BY <1>11, FS_EmptySet
    <2>2. 0 \in 0..m
      BY <1>11
    <2> HIDE DEF Right, Closed
    <2> QED BY <1>12, <2>1, <2>2
  <1>14. ASSUME NEW k \in 1..m, k - 1 \in P PROVE k \in P
    <2>0. k \in 0..m /\ \A s \in SUBSET Started : Cardinality(s) <= k - 1 /\ Closed(s) => Right(s)
      BY <1>14
    <2> SUFFICES ASSUME NEW s \in SUBSET Started, Cardinality(s) <= k, Closed(s) PROVE Right(s)
      BY <2>0
    <2>1. CASE s = {}
      BY <1>12, <2>1
    <2>2. CASE s # {}
      <3> DEFINE l == Latest(s)
                 r == s \ {l}
      <3>1. l \in s /\ \A j \in r : Sooner(j, l)
        BY <2>2, LatestExists
      <3> HIDE DEF l
      <3>2. r \in SUBSET Started /\ l \in JobOfRun /\ l \in Started
        BY <1>1, <3>1
      <3>3. Cardinality(r) <= k - 1
        BY <1>11, <3>1, FS_RemoveElement
      <3>4. ASSUME NEW j \in r, NEW i \in Started, Sooner(i, j) PROVE i \in r
        <4>1. i \in s /\ i \in JobOfRun /\ j \in JobOfRun /\ Sooner(j, l)
          BY <1>1, <3>1, <3>4
        <4>2. i # l
          BY <3>2, <3>4, <4>1, SoonerOrders
        <4> QED BY <4>1, <4>2
      <3>5. Right(r)
        BY <2>0, <3>2, <3>3, <3>4
      <3>6. f[s] = WithAncestors(l, f[r])
        BY <1>10, <2>2 DEF l
      <3>7. f[s] \in A
        BY <1>3, <3>2, <3>5, <3>6
      <3>8. Before(l) \subseteq r
        <4>1. \A i \in Before(l) : i \in Started /\ Sooner(i, l) /\ i # l
          BY <3>2, BeforePassesOn, SoonerOrders
        <4> QED BY <3>1, <4>1
      <3>9. UNION {{i} \cup f[r][i] : i \in Before(l)} = Before(l)
        <4>1. \A i \in Before(l) : f[r][i] = Before(i) /\ Before(i) \subseteq Before(l)
          BY <3>2, <3>5, <3>8, BeforePassesOn
        <4>2. \A i \in Before(l) : i \in {i} \cup f[r][i] /\ {i} \cup f[r][i] \subseteq Before(l)
          BY <4>1
        <4> QED BY <4>2
      <3>10. f[s] = [f[r] EXCEPT ![l] = Before(l)]
        BY <3>6, <3>9 DEF WithAncestors
      <3>11. \A j \in s : f[s][j] = Before(j)
        <4>1. DOMAIN f[r] = JobOfRun
          BY <3>5 DEF A
        <4> QED BY <1>1, <3>2, <3>5, <3>10, <4>1
      <3> QED BY <3>7, <3>11
    <2> QED BY <2>1, <2>2
  <1> HIDE DEF P
  <1>15. Climbs(P, m)
    BY <1>14 DEF Climbs
  <1>16. 0..m \subseteq P
    BY <1>11, <1>13, <1>15, UpTo
  <1>17. Closed(Started) /\ m \in 0..m /\ m <= m
    BY <1>11
  <1>18. Right(Started)
    BY <1>16, <1>17 DEF P
  <1> QED BY <1>10, <1>18

\* The jobs nothing else that came before a job came before in turn.
InferredOf(j) == {i \in Before(j) : \A k \in Before(j) \ {i} : i \notin Before(k)}
Sinks == Started \ UNION {InferredOf(j) : j \in Started}

\* The inferred needs, told from the stamps alone.
LEMMA InferredIs ==
    ASSUME FlowTypeOK
    PROVE  InferredNeeds = [j \in JobOfRun |-> IF j \in Started THEN InferredOf(j) ELSE Sinks]
  <1>1. Started \subseteq JobOfRun
    BY JobsOfRun
  <1>2. ASSUME NEW j \in Started PROVE Nearest(Ancestors, Before(j)) = InferredOf(j)
    <2>1. \A k \in Before(j) : Ancestors[k] = Before(k)
      BY <1>1, BeforePassesOn, AncestorsAreBefore
    <2> QED BY <2>1 DEF Nearest, InferredOf
  <1> DEFINE direct == [j \in Started |-> Nearest(Ancestors, Before(j))]
             sinks == Started \ UNION {direct[j] : j \in Started}
  <1>3. InferredNeeds = [j \in JobOfRun |-> IF j \in Started THEN direct[j] ELSE sinks]
    BY DEF InferredNeeds
  <1>4. direct = [j \in Started |-> InferredOf(j)]
    BY <1>2
  <1> HIDE DEF direct
  <1>5. sinks = Sinks
    BY <1>4 DEF Sinks
  <1> HIDE DEF sinks
  <1> QED BY <1>1, <1>3, <1>4, <1>5

-----------------------------------------------------------------------------
(* The stamps of a run                                                     *)

\* n had ended when j began, give or take the slack.
EndedBy(n, j) ==
    /\ began[n] # Untold /\ began[n] <= began[j]
    /\ ended[n] # Untold /\ ended[n] <= began[j] + Slack

\* A job began after all it needs, and is skipped after one that did not succeed.
JobWell(j) ==
    /\ began[j] <= clock /\ ended[j] <= clock + Slack
    /\ jobStatus[j] \in {"queued", "running"} => ended[j] = Untold
    /\ jobStatus[j] = "queued" => began[j] = Untold
    /\ jobStatus[j] \in {"running", "success", "failed", "skipped"} => began[j] # Untold
    /\ jobStatus[j] \in {"success", "failed", "skipped"} => began[j] <= ended[j]
    /\ (jobStatus[j] # "skipped" /\ began[j] # Untold) =>
         \A n \in needed[j] : Good(n) /\ EndedBy(n, j)
    /\ jobStatus[j] = "skipped" => \E n \in needed[j] : EndedBy(n, j)
    /\ jobStatus[j] = "cancelled" => \A k \in JobOfRun : Settled(k)
    /\ jobStatus[j] \notin {"waiting", "reused"}

JobsWell == \A j \in JobOfRun : JobWell(j)

\* While nothing strayed, jobs of the same needs begin at the same time, and each
\* takes longer than the slack.
Undisturbed ==
    drift = {} =>
        /\ \A j \in JobOfRun :
             /\ jobStatus[j] \notin {"skipped", "cancelled"}
             /\ ended[j] # Untold => ended[j] > began[j] + Slack
        /\ \A i, j \in JobOfRun :
             (needed[i] = needed[j] /\ began[i] # Untold) =>
                 began[i] = (IF began[j] # Untold THEN began[j] ELSE clock)

RunInv == FlowTypeOK /\ JobsWell /\ Undisturbed

\* A stage of a pipeline has no stamps the graph would look at, and was given what it
\* needs when it began, or when the run it is reused from did.
StageWell(j) ==
    /\ began[j] = Untold
    /\ jobStatus[j] \notin {"queued", "skipped", "cancelled"} =>
         \A n \in needed[j] : Good(n)

ChartInv ==
    /\ FlowTypeOK
    /\ chart = "job" => RunInv
    /\ chart = "pipeline" => \A j \in JobOfRun : StageWell(j)

\* The order of the stamps is inductive: it holds at the start, and each of the
\* run's steps keeps it.
LEMMA RunInitWell == ASSUME FlowInit, chart = "job" PROVE RunInv
  <1>1. FlowTypeOK
    BY FlowInitTypes
  <1>2. /\ \A j \in JobOfRun : began[j] = 0 /\ ended[j] = 0 /\ jobStatus[j] = "queued"
        /\ clock = 1 /\ Slack \in Nat
    <2>1. PICK kept : /\ kept = {}
                      /\ jobStatus = [j \in DOMAIN needed |->
                                        IF j \in kept THEN "reused" ELSE "queued"]
      BY DEF FlowInit
    <2> QED BY <2>1, FlowAssumption DEF FlowInit, JobOfRun, Untold
  <1>3. JobsWell
    BY <1>2 DEF JobsWell, JobWell, Untold
  <1>4. Undisturbed
    BY <1>2 DEF Undisturbed, Untold
  <1> QED BY <1>1, <1>3, <1>4 DEF RunInv

\* A stamp that is given stays: a step that stamps k, which had not ended, leaves
\* what had ended before others began.
LEMMA EndedByStays ==
    ASSUME FlowTypeOK, NEW k \in JobOfRun, NEW b \in Nat, NEW e \in Nat,
           began' = [began EXCEPT ![k] = b], ended' = [ended EXCEPT ![k] = e],
           needed' = needed, ended[k] = Untold, began[k] = Untold \/ b = began[k],
           NEW n \in JobOfRun, NEW j \in JobOfRun, EndedBy(n, j)
    PROVE  EndedBy(n, j)' /\ n # k
  <1>1. n # k
    BY DEF EndedBy
  <1>2. began[n] \in Nat /\ began[j] \in Nat /\ began[n] # 0 /\ began[n] <= began[j]
    BY JobsOfRun DEF EndedBy, Untold
  <1>3. began'[n] = began[n] /\ ended'[n] = ended[n]
    BY <1>1 DEF FlowTypeOK
  <1>4. began'[j] = began[j]
    BY <1>2 DEF FlowTypeOK, Untold
  <1> QED BY <1>1, <1>3, <1>4 DEF EndedBy

LEMMA BeginJobWell == ASSUME RunInv, NEW k \in JobOfRun, BeginJob(k)
                      PROVE  (JobsWell /\ Undisturbed)'
  <1>1. FlowTypeOK /\ JobWell(k) /\ JobOfRun' = JobOfRun
    BY DEF RunInv, JobsWell, BeginJob, JobOfRun
  <1>2. /\ jobStatus[k] = "queued" /\ \A n \in needed[k] : Good(n)
        /\ jobStatus' = [jobStatus EXCEPT ![k] = "running"]
        /\ began' = [began EXCEPT ![k] = clock]
        /\ UNCHANGED <<needed, clock, ended, drift>>
    BY DEF BeginJob, MayBegin
  <1>3. began[k] = 0 /\ ended[k] = 0 /\ ended' = [ended EXCEPT ![k] = 0] /\ clock \in Nat /\ clock >= 1
    BY <1>1, <1>2, FlowAssumption DEF JobWell, Untold, FlowTypeOK
  <1>4. \A n, j \in JobOfRun : EndedBy(n, j) => EndedBy(n, j)' /\ n # k
    BY <1>1, <1>2, <1>3, EndedByStays DEF Untold
  <1>5. \A j \in JobOfRun \ {k} : /\ began'[j] = began[j] /\ ended'[j] = ended[j]
                                 /\ jobStatus'[j] = jobStatus[j]
    BY <1>1, <1>2 DEF FlowTypeOK
  <1>6. began'[k] = clock /\ ended'[k] = 0 /\ jobStatus'[k] = "running"
    BY <1>1, <1>2, <1>3 DEF FlowTypeOK
  <1>7. \A j \in JobOfRun : needed[j] \subseteq JobOfRun
    BY <1>1, JobsOfRun
  <1>8. \A n \in JobOfRun : Good(n) => Good(n)' /\ n # k
    BY <1>2, <1>5 DEF Good
  <1>9. ASSUME NEW n \in JobOfRun, Good(n) PROVE EndedBy(n, k)'
    <2>1. JobWell(n) /\ n # k
      BY <1>8, <1>9 DEF RunInv, JobsWell
    <2>2. began[n] \in Nat /\ ended[n] \in Nat
      BY <1>1, JobsOfRun
    <2> QED BY <1>2, <1>5, <1>6, <1>9, <2>1, <2>2 DEF JobWell, EndedBy, Good, Untold
  <1>10. ~\E j \in JobOfRun : jobStatus[j] = "cancelled"
    BY <1>2 DEF RunInv, JobsWell, JobWell, Settled
  <1>11. ASSUME NEW j \in JobOfRun PROVE JobWell(j)'
    <2>1. CASE j = k
      <3>1. clock <= clock /\ 0 <= clock + Slack
        BY <1>1, <1>3, JobsOfRun
      <3> QED BY <1>1, <1>2, <1>3, <1>6, <1>7, <1>8, <1>9, <2>1, <3>1 DEF JobWell, Untold
    <2>2. CASE j # k
      <3>1. JobWell(j)
        BY DEF RunInv, JobsWell
      <3> QED BY <1>1, <1>2, <1>4, <1>5, <1>7, <1>8, <1>10, <2>2, <3>1 DEF JobWell
    <2> QED BY <2>1, <2>2
  <1>12. Undisturbed'
    <2> SUFFICES ASSUME drift = {} PROVE Undisturbed'
      BY <1>2 DEF Undisturbed
    <2>1. /\ \A j \in JobOfRun :
             /\ jobStatus[j] \notin {"skipped", "cancelled"}
             /\ ended[j] # Untold => ended[j] > began[j] + Slack
          /\ \A i, j \in JobOfRun :
             (needed[i] = needed[j] /\ began[i] # Untold) =>
                 began[i] = (IF began[j] # Untold THEN began[j] ELSE clock)
      BY DEF RunInv, Undisturbed
    <2>2. \A j \in JobOfRun : /\ jobStatus'[j] \notin {"skipped", "cancelled"}
                              /\ ended'[j] # Untold => ended'[j] > began'[j] + Slack
      BY <1>5, <1>6, <2>1 DEF Untold
    <2>3. ASSUME NEW i \in JobOfRun, NEW j \in JobOfRun, needed[i] = needed[j], began'[i] # Untold
          PROVE  began'[i] = (IF began'[j] # Untold THEN began'[j] ELSE clock)
      BY <1>3, <1>5, <1>6, <2>1, <2>3 DEF Untold
    <2> QED BY <1>1, <1>2, <2>2, <2>3 DEF Undisturbed
  <1> QED BY <1>1, <1>11, <1>12 DEF JobsWell

LEMMA EndJobWell ==
    ASSUME RunInv, NEW k \in JobOfRun, NEW r \in {"success", "failed"}, EndJob(k, r)
    PROVE  (JobsWell /\ Undisturbed)'
  <1>1. FlowTypeOK /\ JobWell(k) /\ JobOfRun' = JobOfRun /\ Slack \in Nat /\ clock \in Nat
    BY JobsOfRun DEF RunInv, JobsWell, EndJob, Stamp, JobOfRun
  <1>2. PICK e \in 0..Slack : Stamp(k, r, began[k], clock + e)
    BY DEF EndJob
  <1> DEFINE t == clock + e
  <1>3. /\ jobStatus[k] = "running" /\ jobStatus' = [jobStatus EXCEPT ![k] = r]
        /\ began' = [began EXCEPT ![k] = began[k]] /\ ended' = [ended EXCEPT ![k] = t]
        /\ drift' = IF t <= began[k] + Slack THEN drift \cup {"quick"} ELSE drift
        /\ UNCHANGED <<needed, clock>>
    BY <1>2 DEF EndJob, Stamp
  <1>4. t \in Nat /\ clock <= t /\ t <= clock + Slack
    BY <1>1
  <1>5. /\ ended[k] = 0 /\ began[k] # 0 /\ began[k] \in Nat /\ began[k] <= clock
        /\ \A n \in needed[k] : Good(n) /\ EndedBy(n, k)
    BY <1>1, <1>3, JobsOfRun DEF JobWell, Untold
  <1> HIDE DEF t
  <1>6. \A n, j \in JobOfRun : EndedBy(n, j) => EndedBy(n, j)' /\ n # k
    BY <1>1, <1>3, <1>4, <1>5, EndedByStays DEF Untold
  <1>7. \A j \in JobOfRun \ {k} : /\ began'[j] = began[j] /\ ended'[j] = ended[j]
                                 /\ jobStatus'[j] = jobStatus[j]
    BY <1>1, <1>3 DEF FlowTypeOK
  <1>8. began'[k] = began[k] /\ ended'[k] = t /\ jobStatus'[k] = r
    BY <1>1, <1>3 DEF FlowTypeOK
  <1>9. \A j \in JobOfRun : needed[j] \subseteq JobOfRun
    BY <1>1, JobsOfRun
  <1>10. \A n \in JobOfRun : Good(n) => Good(n)' /\ n # k
    BY <1>3, <1>7 DEF Good
  <1>11. ~\E j \in JobOfRun : jobStatus[j] = "cancelled"
    BY <1>3 DEF RunInv, JobsWell, JobWell, Settled, Live
  <1>12. ASSUME NEW j \in JobOfRun PROVE JobWell(j)'
    <2>1. CASE j = k
      <3>1. began[k] <= t
        BY <1>1, <1>4, <1>5
      <3>2. \A n \in needed[k] : Good(n)' /\ EndedBy(n, k)'
        BY <1>5, <1>6, <1>9, <1>10
      <3> QED BY <1>3, <1>4, <1>5, <1>8, <2>1, <3>1, <3>2 DEF JobWell, Untold
    <2>2. CASE j # k
      <3>1. JobWell(j)
        BY DEF RunInv, JobsWell
      <3> QED BY <1>1, <1>3, <1>6, <1>7, <1>9, <1>10, <1>11, <2>2, <3>1 DEF JobWell
    <2> QED BY <2>1, <2>2
  <1>13. Undisturbed'
    <2> SUFFICES ASSUME drift' = {} PROVE Undisturbed'
      BY DEF Undisturbed
    <2>1. drift = {} /\ ~(t <= began[k] + Slack)
      BY <1>3
    <2>2. /\ \A j \in JobOfRun :
             /\ jobStatus[j] \notin {"skipped", "cancelled"}
             /\ ended[j] # Untold => ended[j] > began[j] + Slack
          /\ \A i, j \in JobOfRun :
             (needed[i] = needed[j] /\ began[i] # Untold) =>
                 began[i] = (IF began[j] # Untold THEN began[j] ELSE clock)
      BY <2>1 DEF RunInv, Undisturbed
    <2>3. t > began[k] + Slack
      BY <1>1, <1>4, <1>5, <2>1
    <2>4. \A j \in JobOfRun : /\ jobStatus'[j] \notin {"skipped", "cancelled"}
                              /\ ended'[j] # Untold => ended'[j] > began'[j] + Slack
      BY <1>7, <1>8, <2>2, <2>3 DEF Untold
    <2>5. \A j \in JobOfRun : began'[j] = began[j]
      BY <1>7, <1>8
    <2>6. \A i, j \in JobOfRun :
             (needed[i] = needed[j] /\ began'[i] # Untold) =>
                 began'[i] = (IF began'[j] # Untold THEN began'[j] ELSE clock)
      BY <2>2, <2>5
    <2>7. JobOfRun' = JobOfRun /\ needed' = needed /\ clock' = clock
      BY <1>1, <1>3
    <2> QED BY <2>4, <2>6, <2>7 DEF Undisturbed
  <1> QED BY <1>1, <1>12, <1>13 DEF JobsWell

LEMMA SkipJobWell == ASSUME RunInv, NEW k \in JobOfRun, SkipJob(k)
                     PROVE  (JobsWell /\ Undisturbed)'
  <1>1. FlowTypeOK /\ JobWell(k) /\ JobOfRun' = JobOfRun /\ Slack \in Nat /\ clock \in Nat /\ clock >= 1
    <2>1. FlowTypeOK /\ JobWell(k)
      BY DEF RunInv, JobsWell
    <2>2. JobOfRun' = JobOfRun
      BY DEF SkipJob, Stamp, JobOfRun
    <2>3. clock \in 1..MaxTime
      BY <2>1 DEF FlowTypeOK
    <2> QED BY <2>1, <2>2, <2>3, JobsOfRun
  <1>2. PICK n \in needed[k] : Settled(n) /\ ~Good(n)
    BY DEF SkipJob, MustSkip
  <1>3. /\ jobStatus[k] = "queued" /\ jobStatus' = [jobStatus EXCEPT ![k] = "skipped"]
        /\ began' = [began EXCEPT ![k] = clock] /\ ended' = [ended EXCEPT ![k] = clock]
        /\ UNCHANGED <<needed, clock>>
    BY DEF SkipJob, MustSkip, Stamp
  <1>4. drift' = drift \cup {"quick"}
    <2>1. clock <= clock + Slack
      BY <1>1
    <2> QED BY <2>1 DEF SkipJob, Stamp
  <1>5. ended[k] = 0 /\ began[k] = 0
    BY <1>1, <1>3 DEF JobWell, Untold
  <1>6. \A i, j \in JobOfRun : EndedBy(i, j) => EndedBy(i, j)' /\ i # k
    BY <1>1, <1>3, <1>5, EndedByStays DEF Untold
  <1>7. \A j \in JobOfRun \ {k} : /\ began'[j] = began[j] /\ ended'[j] = ended[j]
                                 /\ jobStatus'[j] = jobStatus[j]
    BY <1>1, <1>3 DEF FlowTypeOK
  <1>8. began'[k] = clock /\ ended'[k] = clock /\ jobStatus'[k] = "skipped"
    BY <1>1, <1>3 DEF FlowTypeOK
  <1>9. \A j \in JobOfRun : needed[j] \subseteq JobOfRun
    BY <1>1, JobsOfRun
  <1>10. \A j \in JobOfRun : Good(j) => Good(j)' /\ j # k
    BY <1>3, <1>7 DEF Good
  <1>11. ~\E j \in JobOfRun : jobStatus[j] = "cancelled"
    BY <1>3 DEF RunInv, JobsWell, JobWell, Settled
  <1>12. EndedBy(n, k)'
    <2>0. \A j \in JobOfRun : jobStatus[j] \notin {"waiting", "reused"}
      BY DEF RunInv, JobsWell, JobWell
    <2>1. n \in JobOfRun /\ jobStatus[n] \in {"failed", "skipped"}
      BY <1>1, <1>2, <1>9, <1>11, <2>0 DEF FlowTypeOK, Good, Settled, Live
    <2>2. n # k /\ JobWell(n)
      BY <1>3, <2>1 DEF RunInv, JobsWell
    <2>3. began[n] # 0 /\ began[n] <= ended[n] /\ began[n] <= clock /\ ended[n] <= clock + Slack
      BY <2>1, <2>2 DEF JobWell, Untold
    <2>4. began[n] \in Nat /\ ended[n] \in Nat
      BY <1>1, <2>1, JobsOfRun
    <2>5. ended[n] # 0
      BY <2>3, <2>4
    <2> QED BY <1>7, <1>8, <2>1, <2>2, <2>3, <2>5 DEF EndedBy, Untold
  <1>13. ASSUME NEW j \in JobOfRun PROVE JobWell(j)'
    <2>1. CASE j = k
      <3>1. clock <= clock /\ clock <= clock + Slack /\ clock # 0
        BY <1>1
      <3> QED BY <1>2, <1>3, <1>8, <1>12, <2>1, <3>1 DEF JobWell, Untold
    <2>2. CASE j # k
      <3>1. JobWell(j)
        BY DEF RunInv, JobsWell
      <3> QED BY <1>1, <1>3, <1>6, <1>7, <1>9, <1>10, <1>11, <2>2, <3>1 DEF JobWell
    <2> QED BY <2>1, <2>2
  <1>14. Undisturbed'
    BY <1>4 DEF Undisturbed
  <1> QED BY <1>1, <1>13, <1>14 DEF JobsWell

LEMMA CancelJobsWell == ASSUME RunInv, CancelJobs PROVE (JobsWell /\ Undisturbed)'
  <1>1. FlowTypeOK /\ JobOfRun' = JobOfRun /\ Slack \in Nat /\ clock \in Nat /\ clock >= 1
    <2>1. FlowTypeOK
      BY DEF RunInv
    <2>2. JobOfRun' = JobOfRun
      BY DEF CancelJobs, JobOfRun
    <2>3. clock \in 1..MaxTime
      BY <2>1 DEF FlowTypeOK
    <2> QED BY <2>1, <2>2, <2>3, JobsOfRun
  <1>2. /\ \A j \in JobOfRun :
             /\ jobStatus'[j] = IF Settled(j) THEN jobStatus[j] ELSE "cancelled"
             /\ ended'[j] = IF jobStatus[j] = "running" THEN clock ELSE ended[j]
             /\ began'[j] = began[j]
        /\ UNCHANGED <<needed, clock, began>>
    BY DEF CancelJobs
  <1>3. drift' = drift \cup {"quick"}
    BY DEF CancelJobs
  <1>4. \A j \in JobOfRun : needed[j] \subseteq JobOfRun
    BY <1>1, JobsOfRun
  <1>5. ~\E j \in JobOfRun : jobStatus[j] = "cancelled"
    BY DEF RunInv, JobsWell, JobWell, CancelJobs
  <1>6. \A j \in JobOfRun : Settled(j)'
    <2> TAKE j \in JobOfRun
    <2>1. CASE Settled(j)
      BY <1>2, <2>1 DEF Settled, Live
    <2>2. CASE ~Settled(j)
      BY <1>2, <2>2 DEF Settled, Live
    <2> QED BY <2>1, <2>2
  <1>7. \A n, j \in JobOfRun : EndedBy(n, j) => EndedBy(n, j)'
    <2> SUFFICES ASSUME NEW n \in JobOfRun, NEW j \in JobOfRun, EndedBy(n, j) PROVE EndedBy(n, j)'
      OBVIOUS
    <2>1. JobWell(n) /\ ended[n] # Untold
      BY DEF RunInv, JobsWell, EndedBy
    <2>2. jobStatus[n] # "running"
      BY <2>1 DEF JobWell
    <2> QED BY <1>2, <2>2 DEF EndedBy
  <1>8. \A n \in JobOfRun : Good(n) => Good(n)'
    <2> SUFFICES ASSUME NEW n \in JobOfRun, Good(n) PROVE jobStatus'[n] = jobStatus[n]
      BY DEF Good
    <2>1. Settled(n)
      BY DEF Good, Settled, Live
    <2> QED BY <1>2, <2>1
  <1>9. ASSUME NEW j \in JobOfRun PROVE JobWell(j)'
    <2>1. JobWell(j) /\ clock <= clock + Slack
      BY <1>1 DEF RunInv, JobsWell
    <2>2. CASE Settled(j)
      <3>1. jobStatus'[j] = jobStatus[j] /\ ended'[j] = ended[j] /\ began'[j] = began[j]
        BY <1>2, <2>2 DEF Settled, Live
      <3> QED BY <1>1, <1>2, <1>4, <1>5, <1>7, <1>8, <2>1, <3>1 DEF JobWell
    <2>3. CASE ~Settled(j)
      <3>1. jobStatus'[j] = "cancelled" /\ began'[j] = began[j]
        BY <1>2, <2>3
      <3>2. ended'[j] <= clock + Slack
        BY <1>2, <2>1 DEF JobWell
      <3>3. jobStatus[j] \in {"queued", "running"}
        BY <1>1, <2>1, <2>3 DEF Settled, Live, FlowTypeOK, JobWell
      <3>4. began[j] # Untold => \A n \in needed[j] : Good(n)' /\ EndedBy(n, j)'
        BY <1>4, <1>7, <1>8, <2>1, <3>3 DEF JobWell
      <3> QED BY <1>1, <1>2, <1>6, <2>1, <3>1, <3>2, <3>4 DEF JobWell
    <2> QED BY <2>2, <2>3
  <1>10. Undisturbed'
    BY <1>3 DEF Undisturbed
  <1> QED BY <1>1, <1>9, <1>10 DEF JobsWell

LEMMA TickWell == ASSUME RunInv, Tick PROVE (JobsWell /\ Undisturbed)'
  <1>1. FlowTypeOK /\ JobOfRun' = JobOfRun /\ Slack \in Nat /\ clock \in Nat
    BY JobsOfRun DEF RunInv, Tick, JobOfRun
  <1>2. clock' = clock + 1 /\ UNCHANGED <<needed, began, ended, jobStatus>>
    BY DEF Tick
  <1>3. \A j \in JobOfRun : /\ needed[j] \subseteq JobOfRun
                            /\ began[j] \in Nat /\ ended[j] \in Nat
    BY <1>1, JobsOfRun
  <1>4. ASSUME NEW j \in JobOfRun PROVE JobWell(j)'
    <2>1. JobWell(j)
      BY DEF RunInv, JobsWell
    <2>2. began[j] <= clock' /\ ended[j] <= clock' + Slack
      BY <1>1, <1>2, <1>3, <2>1 DEF JobWell
    <2> QED BY <1>1, <1>2, <1>3, <2>1, <2>2 DEF JobWell, EndedBy, Good, Settled
  <1>5. Undisturbed'
    <2> SUFFICES ASSUME drift' = {} PROVE Undisturbed'
      BY DEF Undisturbed
    <2>1. drift = {} /\ ~\E j \in JobOfRun : MayBegin(j)
      BY DEF Tick
    <2>2. /\ \A j \in JobOfRun :
             /\ jobStatus[j] \notin {"skipped", "cancelled"}
             /\ ended[j] # Untold => ended[j] > began[j] + Slack
          /\ \A i, j \in JobOfRun :
             (needed[i] = needed[j] /\ began[i] # Untold) =>
                 began[i] = (IF began[j] # Untold THEN began[j] ELSE clock)
      BY <2>1 DEF RunInv, Undisturbed
    <2>3. ASSUME NEW i \in JobOfRun, NEW j \in JobOfRun, needed[i] = needed[j], began[i] # Untold
          PROVE  began[i] = began[j] /\ began[j] # Untold
      <3>1. began[j] # Untold
        <4> SUFFICES ASSUME began[j] = Untold PROVE FALSE
          OBVIOUS
        <4>1. JobWell(i) /\ JobWell(j)
          BY DEF RunInv, JobsWell
        <4>2. \A n \in needed[j] : Good(n)
          BY <2>2, <2>3, <4>1 DEF JobWell
        <4>3. jobStatus[j] = "queued"
          BY <1>1, <2>2, <4>1 DEF JobWell, FlowTypeOK
        <4> QED BY <2>1, <4>2, <4>3 DEF MayBegin
      <3> QED BY <2>2, <2>3, <3>1
    <2> QED BY <1>1, <1>2, <2>2, <2>3 DEF Undisturbed
  <1> QED BY <1>1, <1>4, <1>5 DEF JobsWell

LEMMA RunStandsWell ==
    ASSUME RunInv, UNCHANGED <<needed, clock, began, ended, jobStatus, drift>>
    PROVE  (JobsWell /\ Undisturbed)'
  <1>1. JobOfRun' = JobOfRun
    BY DEF JobOfRun
  <1> QED BY <1>1 DEF RunInv, JobsWell, JobWell, Undisturbed, EndedBy, Good, Settled

\* The stamps of the jobs stay in order, whichever step the run takes.
LEMMA RunNextWell ==
    ASSUME RunInv, chart = "job", [FlowNext]_flowVars PROVE RunInv'
  <1>1. FlowTypeOK'
    BY FlowStepTypes DEF RunInv
  <1>2. CASE FlowNext
    <2>1. CASE Tick
      BY <1>1, <2>1, TickWell DEF RunInv
    <2>2. CASE CancelJobs
      BY <1>1, <2>2, CancelJobsWell DEF RunInv
    <2>3. ~CancelStages /\ \A j \in JobOfRun : ~StageMoves(j)
      BY DEF CancelStages, StageMoves
    <2>4. ASSUME NEW j \in JobOfRun, BeginJob(j) PROVE RunInv'
      BY <1>1, <2>4, BeginJobWell DEF RunInv
    <2>5. ASSUME NEW j \in JobOfRun, SkipJob(j) PROVE RunInv'
      BY <1>1, <2>5, SkipJobWell DEF RunInv
    <2>6. ASSUME NEW j \in JobOfRun, NEW r \in {"success", "failed"}, EndJob(j, r) PROVE RunInv'
      BY <1>1, <2>6, EndJobWell DEF RunInv
    <2>7. ASSUME NEW o, Advance(o) PROVE RunInv'
      BY <1>1, <2>7, RunStandsWell DEF RunInv, Advance
    <2> QED BY <1>2, <2>1, <2>2, <2>3, <2>4, <2>5, <2>6, <2>7 DEF FlowNext
  <1>3. CASE UNCHANGED flowVars
    BY <1>1, <1>3, RunStandsWell DEF RunInv, flowVars
  <1> QED BY <1>2, <1>3

\* What a stage needs stays good, and a stage that moves on had it.
LEMMA StageMovesWell ==
    ASSUME FlowTypeOK, \A j \in JobOfRun : StageWell(j), NEW k \in JobOfRun, StageMoves(k)
    PROVE  (\A j \in JobOfRun : StageWell(j))'
  <1>1. /\ JobOfRun' = JobOfRun /\ needed' = needed /\ began' = began
        /\ \A j \in JobOfRun : needed[j] \subseteq JobOfRun
    BY JobsOfRun DEF StageMoves, Becomes, JobOfRun
  <1>2. PICK status : jobStatus' = [jobStatus EXCEPT ![k] = status]
    BY DEF StageMoves, Becomes
  <1>3. /\ \A j \in JobOfRun \ {k} : jobStatus'[j] = jobStatus[j]
        /\ jobStatus'[k] = status
    BY <1>2 DEF FlowTypeOK
  <1>4. ~Good(k)
    BY DEF StageMoves, Good, Live, MayBegin, MustSkip
  <1>5. \A n \in JobOfRun : Good(n) => Good(n)'
    BY <1>3, <1>4 DEF Good
  <1>6. \/ status \in {"skipped", "cancelled"}
        \/ \A n \in needed[k] : Good(n)
    <2>1. CASE jobStatus[k] \in Live
      BY <2>1 DEF StageWell, Live
    <2>2. CASE jobStatus[k] \notin Live
      <3>1. jobStatus[k] # "running" /\ (MayBegin(k) \/ Becomes(k, "skipped"))
        BY <2>2 DEF StageMoves, Live
      <3>2. CASE Becomes(k, "skipped")
        BY <1>3, <3>2 DEF Becomes, FlowTypeOK
      <3> QED BY <3>1, <3>2 DEF MayBegin
    <2> QED BY <2>1, <2>2
  <1>7. ASSUME NEW j \in JobOfRun PROVE StageWell(j)'
    <2>1. CASE j = k
      BY <1>1, <1>3, <1>5, <1>6, <2>1 DEF StageWell
    <2>2. CASE j # k
      BY <1>1, <1>3, <1>5, <2>2 DEF StageWell
    <2> QED BY <2>1, <2>2
  <1> QED BY <1>1, <1>7

LEMMA CancelStagesWell ==
    ASSUME FlowTypeOK, \A j \in JobOfRun : StageWell(j), CancelStages
    PROVE  (\A j \in JobOfRun : StageWell(j))'
  <1>1. /\ JobOfRun' = JobOfRun /\ needed' = needed /\ began' = began
        /\ \A j \in JobOfRun : needed[j] \subseteq JobOfRun
    BY JobsOfRun DEF CancelStages, JobOfRun
  <1>2. \A j \in JobOfRun : jobStatus'[j] = IF jobStatus[j] = "queued" THEN "cancelled"
                                            ELSE jobStatus[j]
    BY DEF CancelStages
  <1>3. \A n \in JobOfRun : Good(n) => Good(n)'
    BY <1>2 DEF Good
  <1>4. ASSUME NEW j \in JobOfRun PROVE StageWell(j)'
    BY <1>1, <1>2, <1>3 DEF StageWell
  <1> QED BY <1>1, <1>4

LEMMA ChartInitWell == ASSUME FlowInit PROVE ChartInv
  <1>1. FlowTypeOK /\ (chart = "job" => RunInv)
    BY FlowInitTypes, RunInitWell
  <1>2. ASSUME NEW j \in JobOfRun PROVE StageWell(j)
    <2>1. PICK kept \in SUBSET DOMAIN needed :
              /\ \A i \in kept : needed[i] \subseteq kept
              /\ jobStatus = [i \in DOMAIN needed |-> IF i \in kept THEN "reused" ELSE "queued"]
      BY DEF FlowInit
    <2>2. began[j] = Untold
      BY DEF FlowInit, JobOfRun
    <2>3. ASSUME jobStatus[j] # "queued", NEW n \in needed[j] PROVE Good(n)
      <3>1. j \in kept
        BY <2>1, <2>3 DEF JobOfRun
      <3>2. n \in kept
        BY <2>1, <2>3, <3>1
      <3> QED BY <2>1, <3>2 DEF Good
    <2> QED BY <2>2, <2>3 DEF StageWell
  <1> QED BY <1>1, <1>2 DEF ChartInv

LEMMA ChartNextWell == ASSUME ChartInv, [FlowNext]_flowVars PROVE ChartInv'
  <1>1. FlowTypeOK /\ FlowTypeOK'
    BY FlowStepTypes DEF ChartInv
  <1>2. chart' = chart
    BY DEF FlowNext, flowVars, Tick, CancelJobs, CancelStages, BeginJob, SkipJob, StageMoves,
       EndJob, Stamp, Becomes, Advance
  <1>3. CASE chart = "job"
    BY <1>1, <1>2, <1>3, RunNextWell DEF ChartInv
  <1>4. CASE chart = "pipeline"
    <2>1. \A j \in JobOfRun : StageWell(j)
      BY <1>4 DEF ChartInv
    <2>2. CASE CancelStages
      BY <1>1, <1>2, <1>4, <2>1, <2>2, CancelStagesWell DEF ChartInv
    <2>3. ASSUME NEW j \in JobOfRun, StageMoves(j) PROVE ChartInv'
      BY <1>1, <1>2, <1>4, <2>1, <2>3, StageMovesWell DEF ChartInv
    <2>4. CASE UNCHANGED flowVars
      BY <1>1, <1>2, <1>4, <2>1, <2>4 DEF ChartInv, StageWell, Good, JobOfRun, flowVars
    <2> QED BY <1>4, <2>2, <2>3, <2>4
            DEF FlowNext, Running, Tick, CancelJobs, BeginJob, SkipJob, EndJob, Advance
  <1> QED BY <1>1, <1>3, <1>4 DEF FlowTypeOK

-----------------------------------------------------------------------------
(* The inferred needs of a job that began are the run's own                 *)

\* A job that began did so after one it needs had ended.
LEMMA BeganAfterNeeds ==
    ASSUME RunInv, NEW j \in Started, needed[j] # {}
    PROVE  \E n \in needed[j] : EndedBy(n, j)
  <1>1. j \in JobOfRun /\ JobWell(j) /\ began[j] # Untold
    BY DEF RunInv, JobsWell, Started
  <1> QED BY <1>1 DEF JobWell

\* A needed job that had ended counts as one before.
LEMMA EndedIsBefore ==
    ASSUME FlowTypeOK, NEW j \in JobOfRun, NEW n \in needed[j], EndedBy(n, j)
    PROVE  n \in Before(j)
  <1>1. n \in JobOfRun /\ n \in 1..(j - 1) /\ j \in Nat
    BY JobsOfRun
  <1>2. began[n] \in Nat /\ began[j] \in Nat /\ n < j
    BY <1>1, JobsOfRun
  <1> QED BY <1>1, <1>2 DEF Before, EndedBy, Started, Sooner

\* In one line of jobs each began after all the ones before it.
LEMMA LineInferred ==
    ASSUME RunInv, Linear, NEW j \in Started
    PROVE  InferredOf(j) = needed[j]
  <1>1. FlowTypeOK /\ Started \subseteq JobOfRun /\ JobOfRun \subseteq Nat
    BY JobsOfRun DEF RunInv
  <1>2. ASSUME NEW k \in Started, k # 1 PROVE k - 1 \in Before(k)
    <2>1. needed[k] = {k - 1} /\ k \in JobOfRun
      BY <1>1, <1>2 DEF Linear
    <2>2. EndedBy(k - 1, k)
      BY <2>1, BeganAfterNeeds
    <2> QED BY <1>1, <2>1, <2>2, EndedIsBefore
  <1> DEFINE Short == {k \in Started : ~(1..(k - 1) \subseteq Before(k))}
             l == Min(Short)
  <1>3. Short = {}
    <2> SUFFICES ASSUME Short # {} PROVE FALSE
      OBVIOUS
    <2>1. Short \subseteq Nat
      BY <1>1
    <2>2. l \in Short /\ \A k \in Short : l <= k
      BY <2>1, LeastExists
    <2> HIDE DEF l
    <2>3. l \in Started /\ l \in Nat /\ l # 0 /\ l # 1
      <3>1. l \in 1..Len(needed)
        BY <1>1, <2>2, JobsOfRun
      <3>2. l # 1
        BY <2>2
      <3> QED BY <2>2, <3>1, <3>2
    <2>4. l - 1 \in Before(l) /\ Before(l - 1) \subseteq Before(l) /\ l - 1 \in Started
      BY <1>1, <1>2, <2>3, BeforePassesOn
    <2>5. 1..((l - 1) - 1) \subseteq Before(l - 1)
      <3>1. l - 1 \notin Short
        BY <2>2, <2>3
      <3> QED BY <2>4, <3>1
    <2>6. 1..(l - 1) \subseteq 1..((l - 1) - 1) \cup {l - 1}
      BY <2>3
    <2> QED BY <2>2, <2>4, <2>5, <2>6
  <1>4. \A k \in Started : 1..(k - 1) \subseteq Before(k)
    BY <1>3
  <1> HIDE DEF Short, l
  <1>5. ASSUME NEW k \in Started, NEW i \in Before(k) PROVE i \in 1..(k - 1)
    <2>1. i \in Started /\ Sooner(i, k) /\ i \in 1..Len(needed) /\ k \in 1..Len(needed) /\ Len(needed) \in Nat
      BY <1>1, BeforePassesOn, JobsOfRun
    <2>2. i # k
      BY <1>1, <2>1, SoonerOrders
    <2>3. ~(i > k)
      <3> SUFFICES ASSUME i > k PROVE FALSE
        OBVIOUS
      <3>1. k \in 1..(i - 1)
        BY <2>1
      <3>2. Sooner(k, i)
        BY <1>1, <1>4, <2>1, <3>1, BeforePassesOn
      <3> QED BY <1>1, <2>1, <3>2, SoonerOrders
    <2> QED BY <2>1, <2>2, <2>3
  <1>6. \A k \in Started : Before(k) = 1..(k - 1)
    BY <1>4, <1>5
  <1>7. Before(j) \subseteq Started
    BY <1>1, BeforePassesOn
  <1>8. InferredOf(j) = {i \in 1..(j - 1) : \A k \in 1..(j - 1) \ {i} : i \notin 1..(k - 1)}
    BY <1>6, <1>7 DEF InferredOf
  <1>9. j \in Nat /\ j >= 1 /\ needed[j] = IF j = 1 THEN {} ELSE {j - 1}
    <2>1. j \in 1..Len(needed) /\ Len(needed) \in Nat
      BY <1>1, JobsOfRun
    <2> QED BY <1>1, <2>1 DEF Linear
  <1>10. ASSUME j # 1 PROVE InferredOf(j) = {j - 1}
    <2>1. \A k \in 1..(j - 1) : j - 1 \notin 1..(k - 1)
      BY <1>9
    <2>2. \A i \in 1..(j - 1) : i # j - 1 => i \in 1..((j - 1) - 1) /\ j - 1 \in 1..(j - 1) \ {i}
      BY <1>9
    <2>3. j - 1 \in 1..(j - 1)
      BY <1>9, <1>10
    <2> QED BY <1>8, <2>1, <2>2, <2>3
  <1> QED BY <1>8, <1>9, <1>10

\* In layers, with no job late or quick, i had ended before a job that j needs.
Below(i, j) ==
    /\ ended[i] # Untold /\ ended[i] <= began[j] + Slack
    /\ \E n \in needed[j] : i \in needed[j] \/ began[i] < began[n]

LayersApart(i, j) == needed[i] = needed[j] \/ Below(i, j) \/ Below(j, i)

\* What the stamps tell then.
StampsSteady ==
    \A j \in Started : /\ needed[j] \subseteq Started /\ j \in Nat
                       /\ began[j] \in Nat /\ ended[j] \in Nat /\ Slack \in Nat
                       /\ ended[j] # Untold => ended[j] > began[j] + Slack

NeedsSteady ==
    \A j \in Started : \A n \in needed[j] :
        /\ n < j /\ began[n] < began[j]
        /\ ended[n] # Untold /\ ended[n] <= began[j] + Slack
        /\ \A m \in Started : m \in needed[j] <=> needed[m] = needed[n]

Steady ==
    /\ StampsSteady /\ NeedsSteady
    /\ \A i, j \in Started : needed[i] = needed[j] => began[i] = began[j]

\* While nothing strayed, the stamps of layered jobs tell the layers apart.
LEMMA LayersSteady == ASSUME RunInv, Layered, drift = {} PROVE Steady
  <1>1. FlowTypeOK /\ Started \subseteq JobOfRun
    BY JobsOfRun DEF RunInv
  <1>2. \A j \in JobOfRun : /\ j \in Nat /\ began[j] \in Nat /\ ended[j] \in Nat /\ Slack \in Nat
                            /\ needed[j] \subseteq JobOfRun /\ needed[j] \subseteq 1..(j - 1)
    BY <1>1, JobsOfRun
  <1>3. /\ \A j \in JobOfRun :
             /\ jobStatus[j] \notin {"skipped", "cancelled"}
             /\ ended[j] # Untold => ended[j] > began[j] + Slack
        /\ \A i, j \in JobOfRun :
             (needed[i] = needed[j] /\ began[i] # Untold) =>
                 began[i] = (IF began[j] # Untold THEN began[j] ELSE clock)
    BY DEF RunInv, Undisturbed
  <1>4. ASSUME NEW j \in Started, NEW n \in needed[j]
        PROVE  /\ n < j /\ began[n] < began[j] /\ n \in Started
               /\ ended[n] # Untold /\ ended[n] <= began[j] + Slack
               /\ \A m \in Started : m \in needed[j] <=> needed[m] = needed[n]
    <2>1. JobWell(j) /\ j \in JobOfRun /\ n \in JobOfRun /\ n \in 1..(j - 1) /\ began[j] # Untold
      BY <1>1, <1>2 DEF RunInv, JobsWell, Started
    <2>2. EndedBy(n, j)
      BY <1>3, <2>1 DEF JobWell
    <2>3. ended[n] > began[n] + Slack
      BY <1>3, <2>1, <2>2 DEF EndedBy
    <2>4. began[n] < began[j] /\ n < j
      BY <1>2, <2>1, <2>2, <2>3 DEF EndedBy
    <2>5. needed[j] = {m \in JobOfRun : needed[m] = needed[n]}
      BY <2>1 DEF Layered
    <2> QED BY <1>1, <2>1, <2>2, <2>4, <2>5 DEF EndedBy, Started
  <1>5. \A i, j \in Started : needed[i] = needed[j] => began[i] = began[j]
    BY <1>1, <1>3 DEF Started
  <1>6. StampsSteady
    BY <1>1, <1>2, <1>3, <1>4 DEF StampsSteady
  <1>7. NeedsSteady
    BY <1>4 DEF NeedsSteady
  <1> QED BY <1>5, <1>6, <1>7 DEF Steady

\* A job below another began sooner, and had ended by then.
LEMMA BelowIsSooner ==
    ASSUME Steady, NEW i \in Started, NEW j \in Started, Below(i, j)
    PROVE  began[i] < began[j] /\ i \in Before(j)
  <1>1. PICK n \in needed[j] : i \in needed[j] \/ began[i] < began[n]
    BY DEF Below
  <1>2. began[i] < began[j]
    BY <1>1 DEF Steady, StampsSteady, NeedsSteady
  <1> QED BY <1>2 DEF Before, Below, Sooner

\* What is below a job that another needs is below that one.
LEMMA BelowPassesUp ==
    ASSUME Steady, NEW i \in Started, NEW j \in Started, NEW n \in needed[j], Below(i, n)
    PROVE  Below(i, j)
  <1>1. n \in Started /\ began[n] < began[j]
    BY DEF Steady, StampsSteady, NeedsSteady
  <1>2. began[i] < began[n]
    BY <1>1, BelowIsSooner
  <1>3. ended[i] # Untold /\ ended[i] <= began[n] + Slack
    BY DEF Below
  <1>4. ended[i] \in Nat /\ began[n] \in Nat /\ began[j] \in Nat /\ Slack \in Nat
    BY <1>1 DEF Steady, StampsSteady, NeedsSteady
  <1>5. ended[i] <= began[j] + Slack
    BY <1>1, <1>3, <1>4
  <1> QED BY <1>2, <1>3, <1>5 DEF Below

LEMMA NeedIsBelow ==
    ASSUME Steady, NEW j \in Started, NEW i \in needed[j]
    PROVE  Below(i, j) /\ i \in Started /\ i < j
  BY DEF Steady, StampsSteady, NeedsSteady, Below

\* Two jobs that are not of one layer: one had ended before the other's needs.
LEMMA ApartFrom ==
    ASSUME Steady, NEW i \in Started, NEW j \in Started,
           \A k \in needed[i] : LayersApart(k, j), \A k \in needed[j] : LayersApart(i, k)
    PROVE  LayersApart(i, j)
  <1> SUFFICES ASSUME needed[i] # needed[j] PROVE Below(i, j) \/ Below(j, i)
    BY DEF LayersApart
  <1>1. ASSUME NEW m \in needed[i], needed[m] = needed[j] PROVE Below(j, i)
    <2>1. j \in needed[i]
      BY <1>1 DEF Steady, StampsSteady, NeedsSteady
    <2> QED BY <2>1, NeedIsBelow
  <1>2. ASSUME NEW m \in needed[i], Below(j, m) PROVE Below(j, i)
    BY <1>2, BelowPassesUp
  <1>3. CASE needed[j] # {}
    <2>1. PICK n \in needed[j] : LayersApart(i, n)
      BY <1>3
    <2>2. CASE needed[i] = needed[n]
      <3>1. i \in needed[j]
        BY <2>2 DEF Steady, StampsSteady, NeedsSteady
      <3> QED BY <3>1, NeedIsBelow
    <2>3. CASE Below(i, n)
      BY <2>3, BelowPassesUp
    <2>4. CASE Below(n, i)
      <3>1. PICK m \in needed[i] : n \in needed[i] \/ began[n] < began[m]
        BY <2>4 DEF Below
      <3>2. n \in Started /\ m \in Started
        BY NeedIsBelow
      <3>3. n \notin needed[i]
        <4> SUFFICES ASSUME n \in needed[i] PROVE needed[i] = needed[j]
          OBVIOUS
        <4>1. \A p \in Started : p \in needed[i] <=> p \in needed[j]
          BY <3>2 DEF Steady, StampsSteady, NeedsSteady
        <4>2. needed[i] \subseteq Started /\ needed[j] \subseteq Started
          BY DEF Steady, StampsSteady, NeedsSteady
        <4> QED BY <4>1, <4>2
      <3>4. began[n] < began[m] /\ LayersApart(m, j)
        BY <3>1, <3>3
      <3>5. \A p \in needed[j] : began[p] = began[n]
        BY <3>2 DEF Steady, StampsSteady, NeedsSteady
      <3>6. ~Below(m, j)
        <4>1. began[n] \in Nat /\ began[m] \in Nat
          BY <3>2 DEF Steady, StampsSteady, NeedsSteady
        <4> QED BY <3>4, <3>5, <4>1 DEF Below
      <3> QED BY <1>1, <1>2, <3>4, <3>6 DEF LayersApart
    <2> QED BY <2>1, <2>2, <2>3, <2>4 DEF LayersApart
  <1>4. CASE needed[j] = {}
    <2>1. PICK m \in needed[i] : LayersApart(m, j)
      BY <1>4
    <2>2. ~Below(m, j)
      BY <1>4 DEF Below
    <2> QED BY <1>1, <1>2, <2>1, <2>2 DEF LayersApart
  <1> QED BY <1>3, <1>4

\* Of any two jobs that began, by induction on both: one layer, or one below the
\* other.
LEMMA AllApart == ASSUME Steady, NEW i \in Started, NEW j \in Started PROVE LayersApart(i, j)
  <1> DEFINE Sums == {s \in Nat : \E a, b \in Started : s = a + b /\ ~LayersApart(a, b)}
             l == Min(Sums)
  <1>1. \A a, b \in Started : a + b \in Nat
    BY DEF Steady, StampsSteady, NeedsSteady
  <1>2. Sums = {}
    <2> SUFFICES ASSUME Sums # {} PROVE FALSE
      OBVIOUS
    <2>1. l \in Sums /\ \A s \in Sums : l <= s
      BY LeastExists
    <2> HIDE DEF l
    <2>2. PICK a \in Started : \E b \in Started : l = a + b /\ ~LayersApart(a, b)
      BY <2>1
    <2>3. PICK b \in Started : l = a + b /\ ~LayersApart(a, b)
      BY <2>2
    <2>4. ASSUME NEW k \in needed[a] PROVE LayersApart(k, b)
      <3>1. k \in Started /\ k < a
        BY NeedIsBelow
      <3>2. k \in Nat /\ a \in Nat /\ b \in Nat
        BY <3>1 DEF Steady, StampsSteady, NeedsSteady
      <3>3. k + b \in Nat /\ ~(l <= k + b)
        BY <2>3, <3>1, <3>2
      <3> QED BY <2>1, <3>1, <3>3
    <2>5. ASSUME NEW k \in needed[b] PROVE LayersApart(a, k)
      <3>1. k \in Started /\ k < b
        BY NeedIsBelow
      <3>2. k \in Nat /\ a \in Nat /\ b \in Nat
        BY <3>1 DEF Steady, StampsSteady, NeedsSteady
      <3>3. a + k \in Nat /\ ~(l <= a + k)
        BY <2>3, <3>1, <3>2
      <3> QED BY <2>1, <3>1, <3>3
    <2> QED BY <2>3, <2>4, <2>5, ApartFrom
  <1> QED BY <1>1, <1>2

\* The jobs that came latest before one are the layer it needs.
LEMMA LayersInferred ==
    ASSUME Steady, NEW j \in Started, FlowTypeOK
    PROVE  InferredOf(j) = needed[j]
  <1>1. \A k \in Started : Before(k) \subseteq Started /\ began[k] \in Nat
    BY DEF Before, Steady, StampsSteady, NeedsSteady
  <1>2. ASSUME NEW i \in Started, NEW k \in Started, needed[i] = needed[k] PROVE i \notin Before(k)
    <2>1. began[i] = began[k] /\ began[i] \in Nat /\ ended[i] \in Nat /\ Slack \in Nat
          /\ (ended[i] # Untold => ended[i] > began[i] + Slack)
      BY <1>2 DEF Steady, StampsSteady, NeedsSteady
    <2> QED BY <2>1 DEF Before
  <1>3. ASSUME NEW i \in Started, NEW k \in Started, i \in Before(k) PROVE Below(i, k)
    <2>1. began[i] <= began[k]
      BY <1>1, <1>3 DEF Before, Sooner
    <2>2. ~Below(k, i)
      BY <1>1, <2>1, BelowIsSooner
    <2> QED BY <1>2, <1>3, <2>2, AllApart DEF LayersApart
  <1>4. \A p, q \in needed[j] : p \in Started /\ needed[p] = needed[q] /\ began[p] = began[q]
    BY DEF Steady, StampsSteady, NeedsSteady
  <1>5. ASSUME NEW n \in needed[j] PROVE n \in InferredOf(j)
    <2>1. n \in Before(j)
      BY NeedIsBelow, BelowIsSooner
    <2>2. ASSUME NEW k \in Before(j), n \in Before(k) PROVE FALSE
      <3>1. k \in Started /\ Below(k, j) /\ n \in Started /\ Below(n, k)
        BY <1>1, <1>3, <1>4, <2>2
      <3>2. began[n] < began[k]
        BY <3>1, BelowIsSooner
      <3>3. PICK p \in needed[j] : k \in needed[j] \/ began[k] < began[p]
        BY <3>1 DEF Below
      <3>4. began[p] = began[n] /\ (k \in needed[j] => began[k] = began[n])
        BY <1>4
      <3> QED BY <1>1, <3>1, <3>2, <3>3, <3>4
    <2> QED BY <2>1, <2>2 DEF InferredOf
  <1>6. ASSUME NEW i \in InferredOf(j) PROVE i \in needed[j]
    <2>1. i \in Before(j) /\ i \in Started /\ \A k \in Before(j) \ {i} : i \notin Before(k)
      BY <1>1 DEF InferredOf
    <2>2. Below(i, j)
      BY <1>3, <2>1
    <2>3. PICK p \in needed[j] : i \in needed[j] \/ began[i] < began[p]
      BY <2>2 DEF Below
    <2>4. CASE began[i] < began[p]
      <3>1. p \in Started /\ p \in Before(j) /\ began[i] \in Nat /\ began[p] \in Nat
        BY <1>1, <1>5, <2>1, <1>4 DEF InferredOf
      <3>2. p # i /\ needed[i] # needed[p] /\ ~Below(p, i)
        BY <2>1, <2>4, <3>1, BelowIsSooner DEF Steady, StampsSteady, NeedsSteady
      <3>3. i \in Before(p)
        BY <2>1, <3>1, <3>2, AllApart, BelowIsSooner DEF LayersApart
      <3> QED BY <2>1, <3>1, <3>2, <3>3
    <2> QED BY <2>3, <2>4
  <1> QED BY <1>5, <1>6

LEMMA RunInfersTrue == ASSUME RunInv PROVE InferredGraphIsReal
  <1> SUFFICES ASSUME Linear \/ (Layered /\ drift = {}), NEW j \in Started
               PROVE  InferredNeeds[j] = needed[j]
    BY DEF InferredGraphIsReal
  <1>1. InferredOf(j) = needed[j]
    <2>1. FlowTypeOK
      BY DEF RunInv
    <2> QED BY <2>1, LineInferred, LayersSteady, LayersInferred
  <1>2. FlowTypeOK /\ j \in JobOfRun
    BY JobsOfRun DEF RunInv
  <1> QED BY <1>1, <1>2, InferredIs

-----------------------------------------------------------------------------
(* How a graph is put together                                              *)

Jobs == {JobNode(j) : j \in JobOfRun}

\* The nodes of f are nodes of g, unchanged.
PartOf(f, g) == \A x \in DOMAIN f : x \in DOMAIN g /\ g[x] = f[x]

\* An order of the jobs, which their needs respect.
JobRank(needs, q, n) ==
    /\ \A j \in JobOfRun : needs[j] \subseteq JobOfRun /\ q[j] \in 0..n
    /\ \A j \in JobOfRun : \A k \in needs[j] : q[k] < q[j]

\* A graph that wants only an end, of nodes among ids: the next node needs those
\* that none needs so far.
Tied(g) ==
    /\ \A x \in DOMAIN g.nodes : g.nodes[x].needs \subseteq DOMAIN g.nodes
    /\ \A x \in DOMAIN g.nodes \ {Trigger} : g.nodes[x].needs # {}
    /\ \A x \in DOMAIN g.nodes \ g.tail : \E y \in DOMAIN g.nodes : x \in g.nodes[y].needs

OpenGraph(g, ids) ==
    /\ Trigger \in DOMAIN g.nodes /\ DOMAIN g.nodes \subseteq ids
    /\ g.tail # {} /\ g.tail \subseteq DOMAIN g.nodes
    /\ Tied(g)
    /\ \E n \in Nat : \E rank : Ranked(g.nodes, rank, n)

\* What the operators that build a graph return.
LEMMA BesideIs ==
    ASSUME NEW f, NEW g
    PROVE  /\ DOMAIN Beside(f, g) = DOMAIN f \cup DOMAIN g
           /\ \A x \in DOMAIN f : Beside(f, g)[x] = f[x]
           /\ \A x \in DOMAIN g \ DOMAIN f : Beside(f, g)[x] = g[x]
  BY DEF Beside

LEMMA JobNodeIs ==
    ASSUME NEW j
    PROVE  /\ JobNode(j)[1] = "job" /\ JobNode(j)[2] = j
           /\ JobNode(j) # Trigger /\ JobNode(j) # Done
           /\ \A s : s # "job" => JobNode(j) # <<s, 0>>
  BY DEF JobNode, Trigger, Done

LEMMA ChainedIs ==
    ASSUME NEW g, NEW id, NEW status, id \notin DOMAIN g.nodes
    PROVE  /\ Chained(g, id, status).tail = {id}
           /\ DOMAIN Chained(g, id, status).nodes = DOMAIN g.nodes \cup {id}
           /\ Chained(g, id, status).nodes[id] = [needs |-> g.tail, status |-> status]
           /\ PartOf(g.nodes, Chained(g, id, status).nodes)
  <1> DEFINE f == One(id, Node(g.tail, status))
  <1>1. DOMAIN f = {id} /\ f[id] = [needs |-> g.tail, status |-> status]
    BY DEF One, Node
  <1>2. Chained(g, id, status) = [nodes |-> Beside(f, g.nodes), tail |-> {id}]
    BY DEF Chained
  <1> HIDE DEF f
  <1>3. /\ DOMAIN Beside(f, g.nodes) = DOMAIN f \cup DOMAIN g.nodes
        /\ \A x \in DOMAIN f : Beside(f, g.nodes)[x] = f[x]
        /\ \A x \in DOMAIN g.nodes \ DOMAIN f : Beside(f, g.nodes)[x] = g.nodes[x]
    BY BesideIs
  <1> QED BY <1>1, <1>2, <1>3 DEF PartOf

LEMMA JobNodesAre ==
    ASSUME NEW needs, NEW start
    PROVE  /\ DOMAIN JobNodes(needs, start) = Jobs
           /\ \A j \in JobOfRun :
                JobNodes(needs, start)[JobNode(j)] =
                    [needs |-> IF needs[j] = {} THEN start ELSE {JobNode(n) : n \in needs[j]},
                     status |-> jobStatus[j]]
  <1> DEFINE nodes == [j \in JobOfRun |->
                         Node(IF needs[j] = {} THEN start ELSE {JobNode(n) : n \in needs[j]},
                              jobStatus[j])]
  <1>1. JobNodes(needs, start) = [id \in Jobs |-> nodes[id[2]]]
    BY DEF JobNodes, Jobs
  <1>2. ASSUME NEW j \in JobOfRun
        PROVE  nodes[j] = [needs |-> IF needs[j] = {} THEN start ELSE {JobNode(n) : n \in needs[j]},
                           status |-> jobStatus[j]]
    BY DEF Node
  <1> HIDE DEF nodes
  <1>3. ASSUME NEW j \in JobOfRun PROVE JobNodes(needs, start)[JobNode(j)] = nodes[j]
    <2>1. JobNode(j) \in Jobs /\ JobNode(j)[2] = j
      BY JobNodeIs DEF Jobs
    <2> QED BY <1>1, <2>1
  <1> QED BY <1>1, <1>2, <1>3

LEMMA WithJobsIs ==
    ASSUME NEW g, NEW needs, DOMAIN g.nodes \cap Jobs = {}
    PROVE  /\ WithJobs(g, needs).tail = Leaves(needs)
           /\ DOMAIN WithJobs(g, needs).nodes = DOMAIN g.nodes \cup Jobs
           /\ \A j \in JobOfRun :
                WithJobs(g, needs).nodes[JobNode(j)] =
                    [needs |-> IF needs[j] = {} THEN g.tail ELSE {JobNode(n) : n \in needs[j]},
                     status |-> jobStatus[j]]
           /\ PartOf(g.nodes, WithJobs(g, needs).nodes)
  <1> DEFINE f == JobNodes(needs, g.tail)
  <1>1. DOMAIN f = Jobs
    BY JobNodesAre
  <1>2. \A j \in JobOfRun :
            f[JobNode(j)] =
                [needs |-> IF needs[j] = {} THEN g.tail ELSE {JobNode(n) : n \in needs[j]},
                 status |-> jobStatus[j]]
    BY JobNodesAre
  <1>3. WithJobs(g, needs) = [nodes |-> Beside(f, g.nodes), tail |-> Leaves(needs)]
    BY DEF WithJobs
  <1> HIDE DEF f
  <1>4. /\ DOMAIN Beside(f, g.nodes) = DOMAIN f \cup DOMAIN g.nodes
        /\ \A x \in DOMAIN f : Beside(f, g.nodes)[x] = f[x]
        /\ \A x \in DOMAIN g.nodes \ DOMAIN f : Beside(f, g.nodes)[x] = g.nodes[x]
    BY BesideIs
  <1>5. \A j \in JobOfRun : JobNode(j) \in Jobs
    BY DEF Jobs
  <1>6. \A j \in JobOfRun : Beside(f, g.nodes)[JobNode(j)] = f[JobNode(j)]
    BY <1>1, <1>4, <1>5
  <1>7. PartOf(g.nodes, Beside(f, g.nodes))
    BY <1>1, <1>4 DEF PartOf
  <1> QED BY <1>1, <1>2, <1>3, <1>4, <1>6, <1>7

LEMMA PartOfPassesOn ==
    ASSUME NEW f, NEW g, NEW h, PartOf(f, g), PartOf(g, h)
    PROVE  PartOf(f, h)
  BY DEF PartOf

LEMMA StartOpen ==
    ASSUME NEW status
    PROVE  /\ OpenGraph(StartAs(status), {Trigger}) /\ StartAs(status).tail = {Trigger}
           /\ StartAs(status).nodes[Trigger].status = status
  <1> DEFINE g == StartAs(status)
  <1>1. /\ DOMAIN g.nodes = {Trigger} /\ g.tail = {Trigger}
        /\ g.nodes[Trigger] = [needs |-> {}, status |-> status]
    BY DEF StartAs, One, Node
  <1> HIDE DEF g
  <1>2. Tied(g)
    BY <1>1 DEF Tied
  <1> DEFINE rank == [x \in {Trigger} |-> 0]
  <1>3. Ranked(g.nodes, rank, 0)
    <2>1. 0 \in 0..0
      OBVIOUS
    <2> QED BY <1>1, <2>1 DEF Ranked, Ups
  <1>4. g.nodes[Trigger].status = status
    BY <1>1
  <1>5. OpenGraph(g, {Trigger})
    BY <1>1, <1>2, <1>3 DEF OpenGraph
  <1> QED BY <1>1, <1>4, <1>5 DEF g

\* A node that needs the tail, and becomes it, leaves the graph open.
LEMMA ChainedOpen ==
    ASSUME NEW g, NEW ids, OpenGraph(g, ids), NEW id, id \notin ids, NEW status
    PROVE  /\ OpenGraph(Chained(g, id, status), ids \cup {id})
           /\ PartOf(g.nodes, Chained(g, id, status).nodes)
  <1> DEFINE h == Chained(g, id, status)
             D == DOMAIN g.nodes
  <1>1. /\ Trigger \in D /\ D \subseteq ids /\ g.tail # {} /\ g.tail \subseteq D /\ Tied(g) /\ id \notin D
    BY DEF OpenGraph
  <1>2. /\ h.tail = {id} /\ DOMAIN h.nodes = D \cup {id} /\ PartOf(g.nodes, h.nodes)
        /\ h.nodes[id] = [needs |-> g.tail, status |-> status]
    BY <1>1, ChainedIs
  <1> HIDE DEF h
  <1>3. h.nodes[id].needs = g.tail /\ \A x \in D : h.nodes[x] = g.nodes[x]
    BY <1>2 DEF PartOf
  <1>4. Tied(h)
    <2>1. \A x \in D \cup {id} : h.nodes[x].needs \subseteq D \cup {id}
      BY <1>1, <1>3 DEF Tied
    <2>2. \A x \in (D \cup {id}) \ {Trigger} : h.nodes[x].needs # {}
      BY <1>1, <1>3 DEF Tied
    <2>3. ASSUME NEW x \in D PROVE \E y \in D \cup {id} : x \in h.nodes[y].needs
      BY <1>1, <1>3 DEF Tied
    <2> QED BY <1>2, <2>1, <2>2, <2>3 DEF Tied
  <1>5. PICK n \in Nat : \E rank : Ranked(g.nodes, rank, n)
    BY DEF OpenGraph
  <1>6. PICK rank : Ranked(g.nodes, rank, n)
    BY <1>5
  <1> DEFINE next == [x \in D \cup {id} |-> IF x = id THEN n + 1 ELSE rank[x]]
  <1>7. Ranked(h.nodes, next, n + 1)
    <2>1. \A x \in D : rank[x] \in 0..n /\ next[x] = rank[x]
      BY <1>1, <1>6 DEF Ranked
    <2>2. next[id] = n + 1 /\ n + 1 \in 0..(n + 1) /\ 0..n \subseteq 0..(n + 1)
      OBVIOUS
    <2>3. next \in [DOMAIN h.nodes -> 0..(n + 1)]
      BY <1>2, <2>1, <2>2
    <2> HIDE DEF next
    <2>4. ASSUME NEW x \in D, NEW up \in Ups(h.nodes, x) PROVE next[up] < next[x]
      <3>1. up \in Ups(g.nodes, x) /\ up \in D
        BY <1>1, <1>2, <1>3, <2>4 DEF Ups, Tied
      <3> QED BY <1>6, <2>1, <3>1 DEF Ranked
    <2>5. ASSUME NEW up \in Ups(h.nodes, id) PROVE next[up] < next[id]
      <3>1. up \in D
        BY <1>1, <1>3, <2>5 DEF Ups
      <3> QED BY <2>1, <2>2, <3>1
    <2> QED BY <1>2, <2>3, <2>4, <2>5 DEF Ranked
  <1>8. n + 1 \in Nat
    OBVIOUS
  <1> QED BY <1>1, <1>2, <1>4, <1>7, <1>8 DEF OpenGraph, h

LEMMA LinkOpen ==
    ASSUME NEW g, NEW ids, OpenGraph(g, ids), NEW id, id \notin ids, NEW status, NEW w
    PROVE  /\ OpenGraph(Link(g, w, id, status), ids \cup {id})
           /\ PartOf(g.nodes, Link(g, w, id, status).nodes)
  <1>1. CASE w
    BY <1>1, ChainedOpen DEF Link
  <1>2. CASE ~w
    BY <1>2 DEF Link, PartOf, OpenGraph
  <1> QED BY <1>1, <1>2

\* So do the jobs of a run, some first and some last among them.
LEMMA WithJobsOpen ==
    ASSUME FlowTypeOK, NEW g, NEW ids, OpenGraph(g, ids), ids \cap Jobs = {},
           NEW needs, NEW q, NEW m \in Nat, JobRank(needs, q, m)
    PROVE  /\ OpenGraph(WithJobs(g, needs), ids \cup Jobs)
           /\ PartOf(g.nodes, WithJobs(g, needs).nodes)
  <1> DEFINE h == WithJobs(g, needs)
             D == DOMAIN g.nodes
             Of(j) == {JobNode(n) : n \in needs[j]}
  <1>1. /\ Trigger \in D /\ D \subseteq ids /\ g.tail # {} /\ g.tail \subseteq D /\ Tied(g)
        /\ D \cap Jobs = {}
    BY DEF OpenGraph
  <1>2. /\ h.tail = Leaves(needs) /\ DOMAIN h.nodes = D \cup Jobs
        /\ \A j \in JobOfRun :
             h.nodes[JobNode(j)] = [needs |-> IF needs[j] = {} THEN g.tail ELSE Of(j),
                                    status |-> jobStatus[j]]
        /\ PartOf(g.nodes, h.nodes)
    BY <1>1, WithJobsIs
  <1> HIDE DEF h
  <1>3. ASSUME NEW j \in JobOfRun
        PROVE  h.nodes[JobNode(j)].needs = IF needs[j] = {} THEN g.tail ELSE Of(j)
    <2> DEFINE up == IF needs[j] = {} THEN g.tail ELSE Of(j)
    <2>1. h.nodes[JobNode(j)] = [needs |-> up, status |-> jobStatus[j]]
      BY <1>2
    <2> HIDE DEF up
    <2>2. h.nodes[JobNode(j)].needs = up
      BY <2>1
    <2> QED BY <2>2 DEF up
  <1>4. \A x \in D : h.nodes[x] = g.nodes[x]
    BY <1>2 DEF PartOf
  <1>5. \A j \in JobOfRun : needs[j] \subseteq JobOfRun /\ JobNode(j) \in Jobs /\ Of(j) \subseteq Jobs
    BY DEF JobRank, Jobs
  <1>6. /\ \A j \in JobOfRun : q[j] \in 0..m /\ q[j] \in Nat
        /\ \A j \in JobOfRun : \A k \in needs[j] : q[k] < q[j]
    BY DEF JobRank
  <1>7. JobOfRun # {}
    BY JobsOfRun
  <1> DEFINE Q == {q[j] : j \in JobOfRun}
  <1>8. Q # {} /\ Q \subseteq Nat /\ Q \subseteq 0..m
    BY <1>6, <1>7
  <1> HIDE DEF Q
  <1>ends. /\ Min(Q) \in Q /\ \A x \in Q : Min(Q) <= x
        /\ Max(Q) \in Q /\ \A x \in Q : x <= Max(Q)
    BY <1>8, LeastExists, GreatestExists
  <1>9. PICK first \in JobOfRun : \A j \in JobOfRun : q[first] <= q[j]
    BY <1>ends DEF Q
  <1>10. PICK last \in JobOfRun : \A j \in JobOfRun : q[j] <= q[last]
    BY <1>ends DEF Q
  <1>11. needs[first] = {}
    <2> SUFFICES ASSUME NEW k \in needs[first] PROVE FALSE
      OBVIOUS
    <2>1. k \in JobOfRun
      BY <1>5
    <2> QED BY <1>6, <1>9, <2>1
  <1>12. JobNode(last) \in Leaves(needs)
    <2>1. \A k \in JobOfRun : last \notin needs[k]
      BY <1>6, <1>10
    <2> QED BY <2>1 DEF Leaves
  <1>13. Leaves(needs) \subseteq Jobs
    BY DEF Leaves, Jobs
  <1>14. \A x \in Jobs : \E j \in JobOfRun : x = JobNode(j)
    BY DEF Jobs
  <1>15. Tied(h)
    <2>1. \A x \in D \cup Jobs : h.nodes[x].needs \subseteq D \cup Jobs
      <3>1. \A x \in D : h.nodes[x].needs \subseteq D \cup Jobs
        BY <1>1, <1>4 DEF Tied
      <3>2. ASSUME NEW x \in Jobs PROVE h.nodes[x].needs \subseteq D \cup Jobs
        <4>1. PICK j \in JobOfRun : x = JobNode(j)
          BY <1>14
        <4>2. Of(j) \subseteq Jobs
          BY <1>5
        <4> HIDE DEF Of
        <4> QED BY <1>1, <1>3, <4>1, <4>2
      <3> QED BY <3>1, <3>2
    <2>2. \A x \in (D \cup Jobs) \ {Trigger} : h.nodes[x].needs # {}
      <3>1. \A x \in D \ {Trigger} : h.nodes[x].needs # {}
        BY <1>1, <1>4 DEF Tied
      <3>2. ASSUME NEW x \in Jobs PROVE h.nodes[x].needs # {}
        <4>1. PICK j \in JobOfRun : x = JobNode(j)
          BY <1>14
        <4>2. needs[j] # {} => Of(j) # {}
          OBVIOUS
        <4> HIDE DEF Of
        <4> QED BY <1>1, <1>3, <4>1, <4>2
      <3> QED BY <3>1, <3>2
    <2>3. ASSUME NEW x \in D PROVE \E y \in D \cup Jobs : x \in h.nodes[y].needs
      <3>1. CASE x \in g.tail
        BY <1>3, <1>5, <1>11, <3>1
      <3>2. CASE x \notin g.tail
        BY <1>1, <1>4, <3>2 DEF Tied
      <3> QED BY <3>1, <3>2
    <2>4. ASSUME NEW x \in Jobs \ Leaves(needs) PROVE \E y \in D \cup Jobs : x \in h.nodes[y].needs
      <3>1. PICK j \in JobOfRun : x = JobNode(j)
        BY <1>14
      <3>2. PICK k \in JobOfRun : j \in needs[k]
        BY <2>4, <3>1 DEF Leaves
      <3>3. x \in Of(k) /\ JobNode(k) \in Jobs
        BY <1>5, <3>1, <3>2
      <3> QED BY <1>3, <3>2, <3>3
    <2> QED BY <1>2, <2>1, <2>2, <2>3, <2>4 DEF Tied
  <1>16. PICK n \in Nat : \E rank : Ranked(g.nodes, rank, n)
    BY DEF OpenGraph
  <1>17. PICK rank : Ranked(g.nodes, rank, n)
    BY <1>16
  <1> DEFINE next == [x \in D \cup Jobs |-> IF x \in D THEN rank[x] ELSE n + 1 + q[x[2]]]
             top == n + 1 + m
  <1>18. top \in Nat
    OBVIOUS
  <1>19. Ranked(h.nodes, next, top)
    <2>1. \A x \in D : rank[x] \in 0..n /\ next[x] = rank[x]
      BY <1>17 DEF Ranked
    <2>2. \A j \in JobOfRun : next[JobNode(j)] = n + 1 + q[j]
      BY <1>1, <1>5, JobNodeIs
    <2> HIDE DEF next
    <2>3. \A x \in D : next[x] \in 0..top
      BY <2>1
    <2>4. \A j \in JobOfRun : next[JobNode(j)] \in 0..top
      BY <1>6, <2>2
    <2>5. next \in [DOMAIN h.nodes -> 0..top]
      <3>1. \A x \in D \cup Jobs : next[x] \in 0..top
        BY <1>14, <2>3, <2>4
      <3> HIDE DEF top
      <3> QED BY <1>2, <3>1 DEF next
    <2>6. ASSUME NEW x \in D, NEW up \in Ups(h.nodes, x) PROVE next[up] < next[x]
      <3>1. up \in Ups(g.nodes, x) /\ up \in D
        BY <1>1, <1>4, <2>6 DEF Ups, Tied
      <3> QED BY <1>17, <2>1, <3>1 DEF Ranked
    <2>7. ASSUME NEW j \in JobOfRun, NEW up \in Ups(h.nodes, JobNode(j)) PROVE next[up] < next[JobNode(j)]
      <3>1. CASE needs[j] = {}
        <4>1. up \in D
          BY <1>1, <1>3, <2>7, <3>1 DEF Ups
        <4>2. next[up] \in 0..n
          BY <2>1, <4>1
        <4> QED BY <1>6, <2>2, <4>2
      <3>2. CASE needs[j] # {}
        <4>1. up \in Of(j)
          BY <1>3, <2>7, <3>2 DEF Ups
        <4>2. PICK k \in needs[j] : up = JobNode(k)
          BY <4>1
        <4>3. k \in JobOfRun /\ q[k] < q[j] /\ q[k] \in Nat /\ q[j] \in Nat
          BY <1>5, <1>6
        <4> QED BY <2>2, <4>2, <4>3
      <3> QED BY <3>1, <3>2
    <2>8. \A x \in D \cup Jobs : \A up \in Ups(h.nodes, x) : next[up] < next[x]
      BY <1>14, <2>6, <2>7
    <2> HIDE DEF top
    <2> QED BY <1>2, <2>5, <2>8 DEF Ranked
  <1>20. h.tail # {} /\ h.tail \subseteq DOMAIN h.nodes
    BY <1>2, <1>12, <1>13
  <1> HIDE DEF next, top
  <1>21. Trigger \in DOMAIN h.nodes /\ DOMAIN h.nodes \subseteq ids \cup Jobs
    BY <1>1, <1>2
  <1>22. OpenGraph(h, ids \cup Jobs)
    BY <1>15, <1>18, <1>19, <1>20, <1>21 DEF OpenGraph
  <1> QED BY <1>2, <1>22 DEF h

\* A graph with its end is one picture.
LEMMA EndedHolds ==
    ASSUME NEW g, NEW ids, OpenGraph(g, ids), Done \notin ids, NEW status
    PROVE  HoldsTogether(Chained(g, Done, status).nodes)
  <1> DEFINE h == Chained(g, Done, status)
  <1>1. OpenGraph(h, ids \cup {Done})
    BY ChainedOpen
  <1>2. h.tail = {Done}
    BY DEF Chained
  <1> HIDE DEF h
  <1>3. PICK n \in Nat : \E rank : Ranked(h.nodes, rank, n)
    BY <1>1 DEF OpenGraph
  <1>4. PICK rank : Ranked(h.nodes, rank, n)
    BY <1>3
  <1>5. \A e \in Edges(h.nodes) : Columns(h.nodes)[e[1]] < Columns(h.nodes)[e[2]]
    BY <1>4, ColumnsRise
  <1>6. HoldsTogether(h.nodes)
    BY <1>1, <1>2, <1>5 DEF HoldsTogether, OpenGraph, Tied
  <1> QED BY <1>6 DEF h

-----------------------------------------------------------------------------
(* The graphs of a run are each one picture                                 *)

\* The jobs in the order of the run, and of the stamps: needs come first.
LEMMA NeededRank == ASSUME FlowTypeOK PROVE \E q : JobRank(needed, q, Len(needed))
  <1>1. /\ JobOfRun \subseteq 0..Len(needed)
        /\ \A j \in JobOfRun : /\ needed[j] \subseteq 1..(j - 1) /\ needed[j] \subseteq JobOfRun
                               /\ j \in Nat
    BY JobsOfRun
  <1> DEFINE q == [j \in JobOfRun |-> j]
  <1>2. \A j \in JobOfRun : \A k \in needed[j] : q[k] < q[j]
    <2> TAKE j \in JobOfRun
    <2> TAKE k \in needed[j]
    <2>1. k \in JobOfRun /\ k \in 1..(j - 1) /\ j \in Nat
      BY <1>1
    <2> QED BY <2>1
  <1>3. JobRank(needed, q, Len(needed))
    BY <1>1, <1>2 DEF JobRank
  <1> QED BY <1>3

LEMMA InferredRank == ASSUME FlowTypeOK PROVE \E n \in Nat : \E q : JobRank(InferredNeeds, q, n)
  <1> DEFINE Earlier(j) == {i \in Started : Sooner(i, j)}
             m == Cardinality(Started)
             q == [j \in JobOfRun |-> IF j \in Started THEN Cardinality(Earlier(j)) ELSE m + 1]
  <1>1. Started \subseteq JobOfRun /\ IsFiniteSet(Started) /\ m \in Nat
    BY JobsOfRun, FS_Subset, FS_CardinalityType
  <1>2. ASSUME NEW j \in JobOfRun
        PROVE  /\ IsFiniteSet(Earlier(j)) /\ Cardinality(Earlier(j)) \in Nat
               /\ Cardinality(Earlier(j)) <= m
    <2>1. Earlier(j) \subseteq Started
      OBVIOUS
    <2> HIDE DEF Earlier
    <2> QED BY <1>1, <2>1, FS_Subset, FS_CardinalityType
  <1>3. ASSUME NEW j \in Started, NEW k \in Before(j)
        PROVE  k \in Started /\ Cardinality(Earlier(k)) < Cardinality(Earlier(j))
    <2>1. k \in Started /\ k \in Earlier(j) /\ j \in JobOfRun /\ k \in JobOfRun
      BY <1>1 DEF Before
    <2>2. Earlier(k) \subseteq Earlier(j) \ {k}
      <3> SUFFICES ASSUME NEW i \in Started, Sooner(i, k) PROVE Sooner(i, j) /\ i # k
        OBVIOUS
      <3>1. i \in JobOfRun /\ Sooner(k, j)
        BY <1>1, <2>1
      <3> QED BY <2>1, <3>1, SoonerOrders
    <2> HIDE DEF Earlier
    <2>3. IsFiniteSet(Earlier(j)) /\ Cardinality(Earlier(j)) \in Nat
      BY <1>2, <2>1
    <2>4. /\ IsFiniteSet(Earlier(j) \ {k})
          /\ Cardinality(Earlier(j) \ {k}) = Cardinality(Earlier(j)) - 1
      BY <2>1, <2>3, FS_RemoveElement
    <2>5. Cardinality(Earlier(k)) <= Cardinality(Earlier(j) \ {k}) /\ Cardinality(Earlier(k)) \in Nat
      BY <1>2, <2>1, <2>2, <2>4, FS_Subset
    <2> QED BY <2>1, <2>3, <2>4, <2>5
  <1> HIDE DEF Earlier
  <1>4. \A j \in JobOfRun : InferredNeeds[j] = IF j \in Started THEN InferredOf(j) ELSE Sinks
    BY InferredIs
  <1>5. Sinks \subseteq Started /\ \A j \in Started : InferredOf(j) \subseteq Before(j)
    BY DEF Sinks, InferredOf
  <1>6. \A j \in JobOfRun : q[j] \in 0..(m + 1)
    BY <1>1, <1>2
  <1>7. ASSUME NEW j \in JobOfRun, NEW k \in InferredNeeds[j] PROVE k \in JobOfRun /\ q[k] < q[j]
    <2>1. CASE j \in Started
      <3>1. k \in Before(j)
        BY <1>4, <1>5, <1>7, <2>1
      <3> QED BY <1>1, <1>3, <2>1, <3>1
    <2>2. CASE j \notin Started
      <3>1. k \in Started /\ k \in JobOfRun
        BY <1>1, <1>4, <1>5, <1>7, <2>2
      <3>2. Cardinality(Earlier(k)) \in Nat /\ Cardinality(Earlier(k)) <= m
        BY <1>2, <3>1
      <3> QED BY <1>1, <2>2, <3>1, <3>2
    <2> QED BY <2>1, <2>2
  <1> HIDE DEF q
  <1>8. m + 1 \in Nat /\ JobRank(InferredNeeds, q, m + 1)
    BY <1>1, <1>6, <1>7 DEF JobRank
  <1> QED BY <1>8

\* The graph of the jobs, part by part.
TriggerPart == StartAs(IF release = "pending" THEN "running" ELSE "success")
PolicyPart == Link(TriggerPart, guard.policed, <<"policy", 0>>,
                   IF release \in {"pending", "judged"} THEN "running"
                   ELSE IF release \in {"refused", "barred"} THEN "failed"
                   ELSE "success")
AppsecPart == Link(PolicyPart, /\ guard.policed /\ guard.scanned
                               /\ release \notin {"pending", "judged", "refused"},
                   <<"appsec", 0>>, IF release = "unsafe" THEN "failed" ELSE "success")
DeployPart == IF Deploying THEN WithJobs(AppsecPart, InferredNeeds) ELSE AppsecPart
VerifyPart == Link(DeployPart, Verified, <<"verify", 0>>,
                   IF release = "verifying" THEN "running"
                   ELSE IF release = "live" THEN "success" ELSE "failed")
NextPart == Link(VerifyPart, ~Finished /\ release \notin {"deploying", "verifying"},
                 <<"next", 0>>, "queued")
QaPart == Link(NextPart, guard.qa, <<"qa", 0>>,
               IF ~Finished THEN "queued"
               ELSE IF release = "live" THEN "waiting" ELSE "skipped")
EndPart == Chained(QaPart, Done, IF ~Finished THEN "queued"
                                 ELSE IF release = "live" THEN "success" ELSE "failed")

Opening == {Trigger, <<"policy", 0>>, <<"appsec", 0>>}

LEMMA JobGraphIs == JobGraph = EndPart.nodes
  BY DEF JobGraph, EndPart, QaPart, NextPart, VerifyPart, DeployPart, AppsecPart, PolicyPart,
         TriggerPart

\* What comes before the jobs of a deployment has succeeded.
LEMMA OpeningOpen ==
    /\ OpenGraph(AppsecPart, Opening)
    /\ Deploying => \A x \in AppsecPart.tail : AppsecPart.nodes[x].status = "success"
  <1> DEFINE Bright(g) == \A x \in g.tail : g.nodes[x].status = "success"
  <1>1. ASSUME NEW g, NEW ids, OpenGraph(g, ids), NEW id, id \notin ids, NEW w, NEW status,
               Bright(g), status = "success"
        PROVE  Bright(Link(g, w, id, status))
    <2>1. CASE w
      <3>1. id \notin DOMAIN g.nodes
        BY <1>1 DEF OpenGraph
      <3>2. /\ Chained(g, id, status).tail = {id}
            /\ Chained(g, id, status).nodes[id] = [needs |-> g.tail, status |-> status]
        BY <3>1, ChainedIs
      <3>3. Chained(g, id, status).nodes[id].status = "success"
        BY <1>1, <3>2
      <3> QED BY <2>1, <3>2, <3>3 DEF Link
    <2>2. CASE ~w
      BY <1>1, <2>2 DEF Link
    <2> QED BY <2>1, <2>2
  <1>2. /\ OpenGraph(TriggerPart, {Trigger})
        /\ release # "pending" => Bright(TriggerPart)
    BY StartOpen DEF TriggerPart
  <1> HIDE DEF Bright
  <1>3. <<"policy", 0>> \notin {Trigger} /\ <<"appsec", 0>> \notin {Trigger} \cup {<<"policy", 0>>}
    BY DEF Trigger
  <1>4. OpenGraph(PolicyPart, {Trigger} \cup {<<"policy", 0>>})
    BY <1>2, <1>3, LinkOpen DEF PolicyPart
  <1>5. OpenGraph(AppsecPart, ({Trigger} \cup {<<"policy", 0>>}) \cup {<<"appsec", 0>>})
    BY <1>3, <1>4, LinkOpen DEF AppsecPart
  <1>6. ({Trigger} \cup {<<"policy", 0>>}) \cup {<<"appsec", 0>>} = Opening
    BY DEF Opening
  <1>7. ASSUME Deploying PROVE Bright(AppsecPart)
    <2>1. release \notin {"pending", "judged", "refused", "unsafe", "barred"}
      BY <1>7 DEF Deploying, Halted
    <2>2. Bright(PolicyPart)
      BY <1>1, <1>2, <1>3, <2>1 DEF PolicyPart
    <2> QED BY <1>1, <1>3, <1>4, <2>1, <2>2 DEF AppsecPart
  <1> QED BY <1>5, <1>6, <1>7 DEF Bright

\* The graph of the jobs is one picture, and shows the deployment's part unchanged.
LEMMA JobGraphGrows ==
    ASSUME FlowTypeOK
    PROVE  HoldsTogether(JobGraph) /\ PartOf(DeployPart.nodes, JobGraph)
  <1> DEFINE verify == <<"verify", 0>>
             nextUp == <<"next", 0>>
             qa == <<"qa", 0>>
             A == Opening \cup Jobs
  <1>1. /\ verify \notin A /\ nextUp \notin A \cup {verify} /\ qa \notin (A \cup {verify}) \cup {nextUp}
        /\ Done \notin ((A \cup {verify}) \cup {nextUp}) \cup {qa} /\ Opening \cap Jobs = {}
    <2>1. \A j \in JobOfRun : JobNode(j)[1] = "job"
      BY JobNodeIs
    <2>2. \A x \in Jobs : x[1] = "job"
      BY <2>1 DEF Jobs
    <2> QED BY <2>2 DEF Opening, Trigger, Done
  <1> HIDE DEF A, verify, nextUp, qa
  <1>2. OpenGraph(DeployPart, A)
    <2>1. CASE Deploying
      <3>1. PICK n \in Nat : \E q : JobRank(InferredNeeds, q, n)
        BY InferredRank
      <3>2. PICK q : JobRank(InferredNeeds, q, n)
        BY <3>1
      <3> QED BY <1>1, <2>1, <3>2, OpeningOpen, WithJobsOpen DEF DeployPart, A
    <2>2. CASE ~Deploying
      <3>1. DeployPart = AppsecPart /\ Opening \subseteq A
        BY <2>2 DEF DeployPart, A
      <3> QED BY <3>1, OpeningOpen DEF OpenGraph
    <2> QED BY <2>1, <2>2
  <1>3. OpenGraph(VerifyPart, A \cup {verify}) /\ PartOf(DeployPart.nodes, VerifyPart.nodes)
    BY <1>1, <1>2, LinkOpen DEF VerifyPart, verify
  <1>4. OpenGraph(NextPart, (A \cup {verify}) \cup {nextUp}) /\ PartOf(VerifyPart.nodes, NextPart.nodes)
    BY <1>1, <1>3, LinkOpen DEF NextPart, nextUp
  <1>5. /\ OpenGraph(QaPart, ((A \cup {verify}) \cup {nextUp}) \cup {qa})
        /\ PartOf(NextPart.nodes, QaPart.nodes)
    BY <1>1, <1>4, LinkOpen DEF QaPart, qa
  <1>6. HoldsTogether(EndPart.nodes)
    BY <1>1, <1>5, EndedHolds DEF EndPart
  <1>7. PartOf(QaPart.nodes, EndPart.nodes)
    BY <1>1, <1>5, ChainedOpen DEF EndPart
  <1>8. PartOf(DeployPart.nodes, EndPart.nodes)
    BY <1>3, <1>4, <1>5, <1>7, PartOfPassesOn
  <1> QED BY <1>6, <1>8, JobGraphIs

\* So is the graph of the pipeline.
LEMMA PipelineGraphGrows ==
    ASSUME FlowTypeOK
    PROVE  HoldsTogether(PipelineGraph) /\ PartOf(WithJobs(Start, needed).nodes, PipelineGraph)
  <1> DEFINE g == WithJobs(Start, needed)
             status == IF ~AllOver THEN "queued"
                       ELSE IF release # "cancelled" /\ \A j \in JobOfRun : Good(j) THEN "success"
                       ELSE "failed"
  <1>1. PICK q : JobRank(needed, q, Len(needed))
    BY NeededRank
  <1>2. Len(needed) \in Nat
    BY JobsOfRun
  <1>3. {Trigger} \cap Jobs = {} /\ Done \notin {Trigger} \cup Jobs
    <2>1. \A x \in Jobs : x # Trigger /\ x # Done
      BY JobNodeIs DEF Jobs
    <2> QED BY <2>1 DEF Trigger, Done
  <1>4. OpenGraph(g, {Trigger} \cup Jobs)
    BY <1>1, <1>2, <1>3, StartOpen, WithJobsOpen DEF Start
  <1> HIDE DEF g, status
  <1>5. HoldsTogether(Chained(g, Done, status).nodes)
    BY <1>3, <1>4, EndedHolds
  <1>6. PartOf(g.nodes, Chained(g, Done, status).nodes)
    BY <1>3, <1>4, ChainedOpen
  <1>7. PipelineGraph = Chained(g, Done, status).nodes
    BY DEF PipelineGraph, g, status
  <1> QED BY <1>5, <1>6, <1>7 DEF g

LEMMA RunGraphsHold == ASSUME FlowTypeOK PROVE GraphsHoldTogether
  BY JobGraphGrows, PipelineGraphGrows DEF GraphsHoldTogether

-----------------------------------------------------------------------------
(* What the edges tell                                                      *)

Tells(g) ==
    \A j \in JobOfRun :
        /\ jobStatus[j] \in Live => EdgesOf(g, j) = {"flowing"}
        /\ Good(j) => EdgesOf(g, j) = {"done"}
        /\ jobStatus[j] = "failed" => EdgesOf(g, j) \cap {"blocked", "idle"} = {}
        /\ AllOver => EdgesOf(g, j) \subseteq {"done", "blocked"}

\* The jobs' nodes are in g, with these needs, behind what is done.
Shows(g, needs, start) ==
    /\ start # {} /\ \A x \in start : g[x].status = "success"
    /\ \A j \in JobOfRun :
         /\ needs[j] \subseteq JobOfRun
         /\ g[JobNode(j)].needs = IF needs[j] = {} THEN start ELSE {JobNode(n) : n \in needs[j]}
         /\ g[JobNode(j)].status = jobStatus[j]

\* A job that has got as far as this had what it is drawn to need.
NeedsMet(needs) ==
    \A j \in JobOfRun :
        jobStatus[j] \notin {"queued", "skipped", "cancelled"} => \A n \in needs[j] : Good(n)

LEMMA EdgeStateIs ==
    ASSUME NEW from \in {"success", "reused"}
    PROVE  /\ \A to \in Live : EdgeState(from, to) = "flowing"
           /\ \A to \in {"success", "reused", "failed"} : EdgeState(from, to) = "done"
  BY DEF EdgeState, Live

LEMMA EdgeBlocked ==
    ASSUME NEW from, NEW to \in {"skipped", "cancelled"} PROVE EdgeState(from, to) = "blocked"
  BY DEF EdgeState

\* A graph that shows the jobs behind needs that were met tells the run.
LEMMA RunTells ==
    ASSUME FlowTypeOK, NEW g, NEW needs, NEW start, Shows(g, needs, start), NeedsMet(needs)
    PROVE  Tells(g)
  <1> SUFFICES ASSUME NEW j \in JobOfRun
               PROVE  /\ jobStatus[j] \in Live => EdgesOf(g, j) = {"flowing"}
                      /\ Good(j) => EdgesOf(g, j) = {"done"}
                      /\ jobStatus[j] = "failed" => EdgesOf(g, j) \cap {"blocked", "idle"} = {}
                      /\ AllOver => EdgesOf(g, j) \subseteq {"done", "blocked"}
    BY DEF Tells
  <1> DEFINE ups == g[JobNode(j)].needs
  <1>2. EdgesOf(g, j) = {EdgeState(g[up].status, jobStatus[j]) : up \in ups}
    BY DEF EdgesOf
  <1>3. ups = IF needs[j] = {} THEN start ELSE {JobNode(n) : n \in needs[j]}
    BY DEF Shows
  <1> HIDE DEF ups
  <1>4. ASSUME jobStatus[j] \notin {"queued", "skipped", "cancelled"}
        PROVE  ups # {} /\ \A up \in ups : g[up].status \in {"success", "reused"}
    <2>1. \A n \in needs[j] : Good(n)
      BY <1>4 DEF NeedsMet
    <2>2. CASE needs[j] = {}
      BY <1>3, <2>2 DEF Shows
    <2>3. CASE needs[j] # {}
      <3>1. \A n \in needs[j] : g[JobNode(n)].status \in {"success", "reused"}
        BY <2>1 DEF Shows, Good
      <3>2. ups = {JobNode(n) : n \in needs[j]}
        BY <1>3, <2>3
      <3> QED BY <2>3, <3>1, <3>2
    <2> QED BY <2>2, <2>3
  <1>5. ASSUME jobStatus[j] \in Live PROVE EdgesOf(g, j) = {"flowing"}
    <2>1. jobStatus[j] \notin {"queued", "skipped", "cancelled"}
      BY <1>5 DEF Live
    <2>2. \A up \in ups : EdgeState(g[up].status, jobStatus[j]) = "flowing"
      BY <1>4, <1>5, <2>1, EdgeStateIs
    <2> QED BY <1>2, <1>4, <2>1, <2>2
  <1>6. ASSUME jobStatus[j] \in {"success", "reused", "failed"} PROVE EdgesOf(g, j) = {"done"}
    <2>1. \A up \in ups : EdgeState(g[up].status, jobStatus[j]) = "done"
      BY <1>4, <1>6, EdgeStateIs
    <2> QED BY <1>2, <1>4, <1>6, <2>1
  <1>7. ASSUME AllOver PROVE EdgesOf(g, j) \subseteq {"done", "blocked"}
    <2>1. jobStatus[j] \in {"success", "reused", "failed", "skipped", "cancelled"}
      BY <1>7 DEF AllOver, Settled, Live, FlowTypeOK
    <2>2. CASE jobStatus[j] \in {"skipped", "cancelled"}
      <3>1. \A up \in ups : EdgeState(g[up].status, jobStatus[j]) = "blocked"
        BY <2>2, EdgeBlocked
      <3> QED BY <1>2, <3>1
    <2> QED BY <1>6, <2>1, <2>2
  <1>8. Good(j) => EdgesOf(g, j) = {"done"}
    BY <1>6 DEF Good
  <1>9. jobStatus[j] = "failed" => EdgesOf(g, j) \cap {"blocked", "idle"} = {}
    BY <1>6
  <1> QED BY <1>5, <1>7, <1>8, <1>9

\* The jobs of a part that stays unchanged in a graph are shown by it.
LEMMA ShownStay ==
    ASSUME NEW g, NEW needs, NEW h, OpenGraph(g, Opening) \/ OpenGraph(g, {Trigger}),
           \A x \in g.tail : g.nodes[x].status = "success",
           \A j \in JobOfRun : needs[j] \subseteq JobOfRun,
           PartOf(WithJobs(g, needs).nodes, h)
    PROVE  Shows(h, needs, g.tail)
  <1> DEFINE w == WithJobs(g, needs)
  <1>1. /\ DOMAIN g.nodes \cap Jobs = {} /\ g.tail # {} /\ g.tail \subseteq DOMAIN g.nodes
    <2>1. DOMAIN g.nodes \subseteq Opening
      BY DEF OpenGraph, Opening
    <2>2. \A x \in Jobs : x[1] = "job"
      BY JobNodeIs DEF Jobs
    <2>3. Opening \cap Jobs = {}
      BY <2>2 DEF Opening, Trigger
    <2> QED BY <2>1, <2>3 DEF OpenGraph
  <1>2. /\ DOMAIN w.nodes = DOMAIN g.nodes \cup Jobs
        /\ \A j \in JobOfRun :
             w.nodes[JobNode(j)] =
                 [needs |-> IF needs[j] = {} THEN g.tail ELSE {JobNode(n) : n \in needs[j]},
                  status |-> jobStatus[j]]
        /\ PartOf(g.nodes, w.nodes)
    BY <1>1, WithJobsIs
  <1>3. PartOf(w.nodes, h)
    OBVIOUS
  <1> HIDE DEF w
  <1>4. \A x \in g.tail : h[x].status = "success"
    <2> SUFFICES ASSUME NEW x \in g.tail PROVE h[x] = g.nodes[x]
      OBVIOUS
    <2> QED BY <1>1, <1>2, <1>3 DEF PartOf
  <1>5. ASSUME NEW j \in JobOfRun
        PROVE  /\ h[JobNode(j)].needs = IF needs[j] = {} THEN g.tail ELSE {JobNode(n) : n \in needs[j]}
               /\ h[JobNode(j)].status = jobStatus[j]
    <2> DEFINE up == IF needs[j] = {} THEN g.tail ELSE {JobNode(n) : n \in needs[j]}
    <2>1. w.nodes[JobNode(j)] = [needs |-> up, status |-> jobStatus[j]]
      BY <1>2
    <2> HIDE DEF up
    <2>2. JobNode(j) \in DOMAIN w.nodes
      BY <1>2 DEF Jobs
    <2>3. h[JobNode(j)] = [needs |-> up, status |-> jobStatus[j]]
      BY <1>3, <2>1, <2>2 DEF PartOf
    <2>4. h[JobNode(j)].needs = up /\ h[JobNode(j)].status = jobStatus[j]
      BY <2>3
    <2> QED BY <2>4 DEF up
  <1> QED BY <1>1, <1>4, <1>5 DEF Shows

LEMMA StagesTell ==
    ASSUME FlowTypeOK, \A j \in JobOfRun : StageWell(j) PROVE Tells(PipelineGraph)
  <1>1. \A j \in JobOfRun : needed[j] \subseteq JobOfRun
    BY JobsOfRun
  <1>2. /\ OpenGraph(Start, {Trigger})
        /\ \A x \in Start.tail : Start.nodes[x].status = "success"
    BY StartOpen DEF Start
  <1>3. PartOf(WithJobs(Start, needed).nodes, PipelineGraph)
    BY PipelineGraphGrows
  <1>4. Shows(PipelineGraph, needed, Start.tail)
    BY <1>1, <1>2, <1>3, ShownStay
  <1>5. NeedsMet(needed)
    BY DEF NeedsMet, StageWell
  <1> QED BY <1>4, <1>5, RunTells

LEMMA JobsTell ==
    ASSUME RunInv, Deploying, Linear \/ (Layered /\ drift = {}) PROVE Tells(JobGraph)
  <1>1. FlowTypeOK
    BY DEF RunInv
  <1>2. /\ OpenGraph(AppsecPart, Opening)
        /\ \A x \in AppsecPart.tail : AppsecPart.nodes[x].status = "success"
    BY OpeningOpen
  <1>3. PartOf(WithJobs(AppsecPart, InferredNeeds).nodes, JobGraph)
    BY <1>1, JobGraphGrows DEF DeployPart
  <1>4. \A j \in JobOfRun : InferredNeeds[j] \subseteq JobOfRun
    <2>1. Started \subseteq JobOfRun
      BY <1>1, JobsOfRun
    <2>2. \A j \in JobOfRun : InferredNeeds[j] = IF j \in Started THEN InferredOf(j) ELSE Sinks
      BY <1>1, InferredIs
    <2>3. Sinks \subseteq Started /\ \A j \in Started : InferredOf(j) \subseteq Started
      BY DEF Sinks, InferredOf, Before
    <2> QED BY <2>1, <2>2, <2>3
  <1>5. Shows(JobGraph, InferredNeeds, AppsecPart.tail)
    BY <1>2, <1>3, <1>4, ShownStay
  <1>6. \A j \in Started : InferredNeeds[j] = needed[j]
    BY RunInfersTrue DEF InferredGraphIsReal
  <1>7. NeedsMet(InferredNeeds)
    <2> SUFFICES ASSUME NEW j \in JobOfRun,
                        jobStatus[j] \notin {"queued", "skipped", "cancelled"}
                 PROVE  \A n \in InferredNeeds[j] : Good(n)
      BY DEF NeedsMet
    <2>1. JobWell(j)
      BY DEF RunInv, JobsWell
    <2>2. jobStatus[j] \in {"running", "success", "failed"}
      BY <1>1, <2>1 DEF FlowTypeOK, JobWell
    <2>3. began[j] # Untold /\ \A n \in needed[j] : Good(n)
      BY <2>1, <2>2 DEF JobWell
    <2> QED BY <1>6, <2>3 DEF Started
  <1> QED BY <1>1, <1>5, <1>7, RunTells

LEMMA ChartEdgesTell == ASSUME ChartInv PROVE EdgesTellTheRun
  <1>1. chart = "pipeline" => Tells(PipelineGraph)
    BY StagesTell DEF ChartInv
  <1>2. chart = "job" /\ Deploying /\ (Linear \/ (Layered /\ drift = {})) => Tells(JobGraph)
    BY JobsTell DEF ChartInv
  <1> QED BY <1>1, <1>2 DEF EdgesTellTheRun, Tells

\* A stage has no stamps that anything would be inferred from.
LEMMA ChartInfersTrue == ASSUME ChartInv PROVE InferredGraphIsReal
  <1>1. CASE chart = "job"
    BY <1>1, RunInfersTrue DEF ChartInv
  <1>2. CASE chart = "pipeline"
    <2>1. Started = {}
      BY <1>2 DEF ChartInv, StageWell, Started
    <2> QED BY <2>1 DEF InferredGraphIsReal
  <1> QED BY <1>1, <1>2 DEF ChartInv, FlowTypeOK

\* A run's stamps are in order, and its stages had what they need, at every moment.
LEMMA RunsAreWell == FlowSpec => []ChartInv
  BY ChartInitWell, ChartNextWell, PTL DEF FlowSpec

\* The graph of a run is one picture, whatever stamps its jobs have: edges lead to
\* later columns, nothing hangs loose (flow-layout.ts, job-flow.tsx, pipeline-view.tsx).
THEOREM GraphsAlwaysHoldTogether == FlowSpec => []GraphsHoldTogether
  BY FlowTypeCorrect, RunGraphsHold, PTL

\* The edges inferred from the stamps are the run's own, for any line of jobs, and
\* for any layers while no job was late or quick (flow-layout.ts: inferStageNeeds).
THEOREM InferredGraphAlwaysReal == FlowSpec => []InferredGraphIsReal
  BY RunsAreWell, ChartInfersTrue, PTL

\* What the edges into a stage tell is so for any shape of pipeline, rerun or not, and
\* what those into a job tell wherever the inferred graph is the run's own; of a failed
\* one only that nothing it needed is drawn as missing (flow-layout.ts: edgeState).
THEOREM EdgesAlwaysTellTheRun == FlowSpec => []EdgesTellTheRun
  BY RunsAreWell, ChartEdgesTell, PTL

-----------------------------------------------------------------------------
(* The parts side by side                                                  *)

\* A scene is a step of its part, and none of the others'.
LEMMA ScenesAreSteps ==
    ASSUME [ConsoleNext]_consoleVars
    PROVE  /\ [SessionNext]_sessionVars /\ [DeskNext]_deskVars
           /\ [AnswersNext]_answersVars /\ [BoardNext]_boardVars
           /\ [GroupsNext]_groupsVars /\ [SpokeNext]_spokeVars
           /\ [StageNext]_stageVars /\ [RunDeskNext]_runDeskVars
           /\ [GatesNext]_gatesVars /\ [FlowNext]_flowVars
           /\ [StripNext]_stripVars /\ [LightsNext]_lightsVars
           /\ scene' = scene
  <1>1. CASE UNCHANGED consoleVars
    BY <1>1 DEF consoleVars
  <1>2. CASE SessionScene
    BY <1>2 DEF SessionScene
  <1>3. CASE DeskScene
    BY <1>3 DEF DeskScene
  <1>4. CASE AnswersScene
    BY <1>4 DEF AnswersScene
  <1>5. CASE BoardScene
    BY <1>5 DEF BoardScene
  <1>6. CASE GroupsScene
    BY <1>6 DEF GroupsScene
  <1>7. CASE SpokeScene
    BY <1>7 DEF SpokeScene
  <1>8. CASE StageScene
    BY <1>8 DEF StageScene
  <1>9. CASE RunDeskScene
    BY <1>9 DEF RunDeskScene
  <1>10. CASE GatesScene
    BY <1>10 DEF GatesScene
  <1>11. CASE FlowScene
    BY <1>11 DEF FlowScene
  <1>12. CASE StripScene
    BY <1>12 DEF StripScene
  <1>13. CASE LightsScene
    BY <1>13 DEF LightsScene
  <1> QED BY <1>1, <1>2, <1>3, <1>4, <1>5, <1>6, <1>7, <1>8, <1>9, <1>10, <1>11,
             <1>12, <1>13 DEF ConsoleNext

\* Every part of the console behaves as it does alone, whichever are played.
THEOREM ConsoleIsItsParts ==
    ConsoleSpec => /\ SessionSpec /\ DeskSpec /\ AnswersSpec /\ BoardSpec
                   /\ GroupsSpec /\ SpokeSpec /\ StageSpec /\ RunDeskSpec
                   /\ GatesSpec /\ FlowSpec /\ StripSpec /\ LightsSpec
  <1>1. ConsoleInit => /\ SessionInit /\ DeskInit /\ AnswersInit /\ BoardInit
                       /\ GroupsInit /\ SpokeInit /\ StageInit /\ RunDeskInit
                       /\ GatesInit /\ FlowInit /\ StripInit /\ LightsInit
    BY DEF ConsoleInit
  <1> QED BY <1>1, ScenesAreSteps, PTL
         DEF ConsoleSpec, SessionSpec, DeskSpec, AnswersSpec, BoardSpec, GroupsSpec,
             SpokeSpec, StageSpec, RunDeskSpec, GatesSpec, FlowSpec, StripSpec, LightsSpec

\* What the parts promise, each with the exceptions its own module names, holds of the
\* console as it is checked: one session with tokens a server accepted, codes where
\* they were meant, no override without a no-go, answers and jobs watched, groups,
\* edges, spokes, runs and pages drawn alike, for any clusters, applications, rings
\* and bounds.
ConsoleSafe ==
    /\ SessionIsOfOneCluster /\ TokensProven /\ CodesFitThePromotion
    /\ WatchedToTheEnd /\ WatchedJobsAreReported /\ QuietBoardIsTrue
    /\ MigratedOnce /\ GroupsStandTogether /\ SpokeTellsTheTruth
    /\ EndedRunsAreFinal /\ LastWordCounts /\ GreenRowsHold /\ NoSilentOverrides
    /\ GraphsHoldTogether /\ InferredGraphIsReal /\ EdgesTellTheRun /\ PagesAgree

\* The console keeps every safety property of its parts that a theorem states.
THEOREM ConsoleKeepsItsWord == ConsoleSpec => []ConsoleSafe
  BY ConsoleIsItsParts, SessionIsOfOneClusterAlways, TokensAreProven, CodesFitAlways,
     WatchedToTheEndAlways, WatchedJobsReported, QuietBoardTrue, GroupsMigratedOnce,
     GroupsAlwaysStandTogether, SpokeAlwaysTrue, EndedRunsStayFinal, LastWordAlways,
     GreenRowsAlwaysHold, OverridesNeverSilent, GraphsAlwaysHoldTogether,
     InferredGraphAlwaysReal, EdgesAlwaysTellTheRun, PagesAlwaysAgree, PTL DEF ConsoleSafe

\* Every part of the console keeps its types, whichever is played.
THEOREM ConsoleTypesKept == ConsoleSpec => []ConsoleTypeOK
  <1>1. ConsoleInit => scene \in Scenes
    BY DEF ConsoleInit
  <1>2. scene \in Scenes /\ [ConsoleNext]_consoleVars => (scene \in Scenes)'
    BY ScenesAreSteps
  <1>3. ASSUME scene \in Scenes, SessionTypeOK, DeskTypeOK, AnswersTypeOK, BoardTypeOK,
               GroupsTypeOK, SpokeTypeOK, StageTypeOK, RunDeskTypeOK, GatesTypeOK,
               FlowTypeOK, StripTypeOK, LightsTypeOK
        PROVE  ConsoleTypeOK
    BY <1>3, SceneAssumption DEF ConsoleTypeOK
  <1> QED BY <1>1, <1>2, <1>3, ConsoleIsItsParts, SessionTypeCorrect, DeskTypeCorrect,
             AnswersTypeCorrect, BoardTypeCorrect, GroupsTypeCorrect, SpokeTypeCorrect,
             StageTypeCorrect, RunDeskTypeCorrect, GatesTypeCorrect, FlowTypeCorrect, StripTypeCorrect,
             LightsTypeCorrect, PTL DEF ConsoleSpec
=============================================================================
