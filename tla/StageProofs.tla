----------------------------- MODULE StageProofs -----------------------------
(***************************************************************************)
(* Proofs about the fleet's stage and lists, for any applications, rings   *)
(* and bounds: the last word on a dependency counts, old groups are        *)
(* migrated once, the stage draws a group as one arc, an application's     *)
(* spoke tells one story, and the pages agree on health and QA verdicts.   *)
(***************************************************************************)
EXTENDS Stage, Groups, Spoke, Lights, FiniteSetTheorems,
        WellFoundedInduction, TLAPS

\* What makes it inductive: under one declaration a dependency is added only if it
\* is not declared, and suppressed only if it is.
Apart == added \cap declared \subseteq redeclared /\ suppressed \subseteq declared \cup redeclared

StageInv == StageTypeOK /\ Apart /\ LastWordCounts

LEMMA StageInitFits == ASSUME StageInit PROVE StageInv
  BY DEF StageInit, StageInv, StageTypeOK, Apart, LastWordCounts, Effective

\* A call sent about an edge is well formed.
LEMMA SentWellFormed ==
    ASSUME StageTypeOK, NEW e \in Edge, NEW op \in {"add", "remove"}, SendLink(e, op)
    PROVE  links' \in SUBSET [edge : Edge, op : {"add", "remove"}]
  BY DEF StageTypeOK, SendLink

\* Nothing of what counts changes in these steps.
LEMMA UnmovedFits ==
    ASSUME StageInv, UNCHANGED edgeVars, drawn' \in SUBSET Edge, editing' \in BOOLEAN,
           linkFrom' \in SUBSET App, focused' \in SUBSET App,
           linkFrom' # {} => editing',
           links' \in SUBSET [edge : Edge, op : {"add", "remove"}]
    PROVE  StageInv'
  BY DEF StageInv, StageTypeOK, Apart, LastWordCounts, Effective, edgeVars

LEMMA RedeclareFits == ASSUME StageInv, NEW e \in Edge, Redeclare(e) PROVE StageInv'
  <1>1. /\ declared' \subseteq declared \cup {e} /\ declared \subseteq declared' \cup {e}
        /\ redeclared' = redeclared \cup {e}
        /\ UNCHANGED <<added, suppressed, links, turnedDown, drawn, handVars>>
    BY DEF Redeclare
  <1>2. StageTypeOK'
    BY <1>1 DEF StageInv, StageTypeOK, handVars
  <1>3. Apart'
    BY <1>1 DEF StageInv, Apart
  <1>4. LastWordCounts'
    BY <1>1 DEF StageInv, LastWordCounts, Effective
  <1> QED BY <1>2, <1>3, <1>4 DEF StageInv

LEMMA ReadTopologyFits == ASSUME StageInv, ReadTopology PROVE StageInv'
  <1>1. Effective \in SUBSET Edge
    BY DEF StageInv, StageTypeOK, Effective
  <1> QED BY <1>1, UnmovedFits DEF StageInv, StageTypeOK, ReadTopology, handVars

\* The served call is the last word on its edge, and no word on another.
LEMMA LinkServedFits == ASSUME StageInv, NEW l \in links, LinkServed(l) PROVE StageInv'
  <1>1. l.edge \in Edge /\ l.op \in {"add", "remove"}
    BY DEF StageInv, StageTypeOK
  <1>2. declared' = declared /\ redeclared' = redeclared
    BY DEF LinkServed
  <1>3. CASE l.op = "add" /\ l.edge \in declared
    <2>1. /\ suppressed' = suppressed \ {l.edge} /\ added' = added
          /\ turnedDown' = turnedDown \ {l.edge}
      BY <1>3 DEF LinkServed, Linked
    <2>2. StageTypeOK'
      BY <2>1 DEF StageInv, StageTypeOK, LinkServed, handVars
    <2>3. Apart' /\ LastWordCounts'
      BY <1>1, <1>2, <1>3, <2>1 DEF StageInv, Apart, LastWordCounts, Effective
    <2> QED BY <2>2, <2>3 DEF StageInv
  <1>4. CASE l.op = "add" /\ l.edge \notin declared
    <2>1. /\ suppressed' = suppressed /\ added' = added \cup {l.edge}
          /\ turnedDown' = turnedDown \ {l.edge}
      BY <1>4 DEF LinkServed, Linked
    <2>2. StageTypeOK'
      BY <1>1, <2>1 DEF StageInv, StageTypeOK, LinkServed, handVars
    <2>3. Apart' /\ LastWordCounts'
      BY <1>1, <1>2, <1>4, <2>1 DEF StageInv, Apart, LastWordCounts, Effective
    <2> QED BY <2>2, <2>3 DEF StageInv
  <1>5. CASE l.op = "remove" /\ l.edge \in added
    <2>1. /\ suppressed' = suppressed /\ added' = added \ {l.edge}
          /\ turnedDown' = turnedDown \cup {l.edge}
      BY <1>5 DEF LinkServed, Linked
    <2>2. StageTypeOK'
      BY <1>1, <2>1 DEF StageInv, StageTypeOK, LinkServed, handVars
    <2>3. Apart' /\ LastWordCounts'
      BY <1>1, <1>2, <1>5, <2>1 DEF StageInv, Apart, LastWordCounts, Effective
    <2> QED BY <2>2, <2>3 DEF StageInv
  <1>6. CASE l.op = "remove" /\ l.edge \notin added
    <2>1. /\ suppressed' = suppressed \cup {l.edge} /\ added' = added
          /\ turnedDown' = turnedDown \cup {l.edge} /\ l.edge \in declared
      BY <1>6 DEF LinkServed, Linked
    <2>2. StageTypeOK'
      BY <1>1, <2>1 DEF StageInv, StageTypeOK, LinkServed, handVars
    <2>3. Apart' /\ LastWordCounts'
      BY <1>1, <1>2, <1>6, <2>1 DEF StageInv, Apart, LastWordCounts, Effective
    <2> QED BY <2>2, <2>3 DEF StageInv
  <1> QED BY <1>1, <1>3, <1>4, <1>5, <1>6

LEMMA LinkRefusedFits == ASSUME StageInv, NEW l \in links, LinkRefused(l) PROVE StageInv'
  BY UnmovedFits DEF StageInv, StageTypeOK, LinkRefused, handVars

LEMMA ClickSpokeFits == ASSUME StageInv, NEW a \in App, ClickSpoke(a) PROVE StageInv'
  <1>1. CASE editing
    <2>1. links' \in SUBSET [edge : Edge, op : {"add", "remove"}]
      <3>1. CASE UNCHANGED links
        BY <3>1 DEF StageInv, StageTypeOK
      <3>2. CASE \E b \in linkFrom \ {a} : SendLink(<<b, a>>, "add")
        <4>1. PICK b \in linkFrom \ {a} : SendLink(<<b, a>>, "add")
          BY <3>2
        <4>2. <<b, a>> \in Edge
          BY DEF StageInv, StageTypeOK, Edge
        <4> QED BY <4>1, <4>2, SentWellFormed DEF StageInv
      <3> QED BY <1>1, <3>1, <3>2 DEF ClickSpoke
    <2> QED BY <1>1, <2>1, UnmovedFits DEF StageInv, StageTypeOK, ClickSpoke, Unmoved
  <1>2. CASE ~editing
    BY <1>2, UnmovedFits DEF StageInv, StageTypeOK, ClickSpoke, Unmoved
  <1> QED BY <1>1, <1>2

LEMMA ClickEdgeFits == ASSUME StageInv, NEW e \in ShownEdges, ClickEdge(e) PROVE StageInv'
  <1>1. e \in Edge
    BY DEF StageInv, StageTypeOK, ShownEdges
  <1>2. links' \in SUBSET [edge : Edge, op : {"add", "remove"}]
    BY <1>1, SentWellFormed DEF StageInv, ClickEdge
  <1> QED BY <1>2, UnmovedFits DEF StageInv, StageTypeOK, ClickEdge, Unmoved, handVars

\* The invariant is inductive.
LEMMA StageNextFits == ASSUME StageInv, [StageNext]_stageVars PROVE StageInv'
  <1>1. CASE UNCHANGED stageVars
    BY <1>1, UnmovedFits DEF StageInv, StageTypeOK, stageVars, handVars
  <1>2. CASE ToggleEditing
    BY <1>2, UnmovedFits DEF StageInv, StageTypeOK, ToggleEditing, Unmoved
  <1>3. CASE ClickAside
    BY <1>3, UnmovedFits DEF StageInv, StageTypeOK, ClickAside, Unmoved
  <1>4. CASE \E a \in App : ClickRoster(a)
    BY <1>4, UnmovedFits DEF StageInv, StageTypeOK, ClickRoster, Unmoved
  <1> QED BY <1>1, <1>2, <1>3, <1>4, RedeclareFits, ReadTopologyFits, LinkServedFits,
             LinkRefusedFits, ClickSpokeFits, ClickEdgeFits DEF StageNext

LEMMA StageInvAlways == StageSpec => []StageInv
  BY StageInitFits, StageNextFits, PTL DEF StageSpec

\* The variables keep their types, and a link is begun only in edit mode
\* (descent-stage.tsx, topology.go).
THEOREM StageTypeCorrect == StageSpec => []StageTypeOK
  <1>1. StageInv => StageTypeOK
    BY DEF StageInv
  <1> QED BY <1>1, StageInvAlways, PTL

\* Until its declaration changes, the last served call about a dependency decides
\* whether it is in force, whatever came before and happens to others (topology.go).
THEOREM LastWordAlways == StageSpec => []LastWordCounts
  <1>1. StageInv => LastWordCounts
    BY DEF StageInv
  <1> QED BY <1>1, StageInvAlways, PTL

-----------------------------------------------------------------------------
(* The greatest and the least of finitely many numbers                     *)

LEMMA LeastExists ==
    ASSUME NEW S, S \subseteq Nat, S # {}
    PROVE  Min(S) \in S /\ \A x \in S : Min(S) <= x
  <1> DEFINE R == OpToRel(<, Nat)
  <1>1. \A x, y \in Nat : <<x, y>> \in R <=> x < y
    BY DEF OpToRel
  <1>2. IsWellFoundedOn(R, Nat)
    BY NatLessThanWellFounded
  <1> HIDE DEF R
  <1>3. PICK x \in S : \A y \in S : ~(<<y, x>> \in R)
    BY <1>2, WFMin
  <1>4. \E z \in S : \A y \in S : z <= y
    <2>1. ASSUME NEW y \in S PROVE x <= y
      <3>1. x \in Nat /\ y \in Nat /\ ~(<<y, x>> \in R)
        BY <1>3
      <3>2. ~(y < x)
        BY <1>1, <3>1
      <3> QED BY <3>1, <3>2
    <2> QED BY <2>1
  <1> QED BY <1>4 DEF Min

LEMMA GreatestExists ==
    ASSUME NEW n \in Nat, NEW S, S \subseteq 0..n, S # {}
    PROVE  Max(S) \in S /\ \A x \in S : x <= Max(S)
  <1> DEFINE T == {n - x : x \in S}
  <1>1. T \subseteq Nat /\ T # {}
    <2>1. \A x \in S : n - x \in Nat
      OBVIOUS
    <2> QED BY <2>1
  <1> DEFINE t == Min(T)
  <1>2. t \in T /\ \A y \in T : t <= y
    <2> HIDE DEF T
    <2> QED BY <1>1, LeastExists
  <1>3. PICK x \in S : t = n - x
    BY <1>2
  <1>4. \E z \in S : \A y \in S : z >= y
    <2> SUFFICES ASSUME NEW y \in S PROVE x >= y
      OBVIOUS
    <2>1. n - y \in T /\ x \in 0..n /\ y \in 0..n
      OBVIOUS
    <2>2. t <= n - y
      BY <1>2, <2>1
    <2> HIDE DEF T, t
    <2> QED BY <1>3, <2>1, <2>2
  <1> QED BY <1>4 DEF Max

-----------------------------------------------------------------------------
(* Folds: what is folded one element at a time, and induction about a set  *)

\* A finite set may be folded whichever element is picked next, if every step stays in A.
Picks(pick, D) == \A s \in SUBSET D : s # {} => pick[s] \in s
FoldOf(h, D, A, base, pick, next) ==
    /\ h \in [SUBSET D -> A]
    /\ \A s \in SUBSET D :
         h[s] = IF s = {} THEN base ELSE next[<<h[s \ {pick[s]}], pick[s]>>]

LEMMA FoldExists ==
    ASSUME NEW D, IsFiniteSet(D), NEW A, NEW base \in A, NEW next \in [A \X D -> A],
           NEW pick, Picks(pick, D)
    PROVE  \E h : FoldOf(h, D, A, base, pick, next)
  <1> DEFINE Level(n) == {s \in SUBSET D : Cardinality(s) <= n}
             Folded(h, n) == /\ h \in [Level(n) -> A]
                            /\ \A s \in Level(n) :
                                 h[s] = IF s = {} THEN base
                                        ELSE next[<<h[s \ {pick[s]}], pick[s]>>]
             T == {n \in Nat : ~\E h : Folded(h, n)}
  <1>0. \A s \in SUBSET D : s # {} => pick[s] \in s
    BY DEF Picks
  <1>1. \A s \in SUBSET D : IsFiniteSet(s) /\ Cardinality(s) \in Nat
    BY FS_Subset, FS_CardinalityType
  <1>2. ASSUME NEW s \in SUBSET D, s # {}
        PROVE  /\ s \ {pick[s]} \in SUBSET D
               /\ Cardinality(s \ {pick[s]}) = Cardinality(s) - 1
    BY <1>0, <1>1, <1>2, FS_RemoveElement
  <1>3. T = {}
    <2> SUFFICES ASSUME T # {} PROVE FALSE
      OBVIOUS
    <2>1. PICK m \in T : \A n \in T : m <= n
      BY LeastExists
    <2>2. CASE m = 0
      <3> DEFINE h == [s \in Level(0) |-> base]
      <3>1. \A s \in Level(0) : s = {}
        BY <1>1, FS_EmptySet
      <3>2. {} \in Level(0) /\ h \in [Level(0) -> A]
        BY FS_EmptySet
      <3>3. \A s \in Level(0) : h[s] = base
        OBVIOUS
      <3> HIDE DEF h, Level
      <3>4. Folded(h, 0)
        BY <3>1, <3>2, <3>3
      <3> QED BY <2>1, <2>2, <3>4
    <2>3. CASE m # 0
      <3>0. T \subseteq Nat
        OBVIOUS
      <3>1. m \in Nat /\ m - 1 \in Nat /\ m - 1 \notin T
        <4> HIDE DEF T
        <4> QED BY <2>1, <2>3, <3>0
      <3>2. PICK h : Folded(h, m - 1)
        BY <3>1
      <3> DEFINE g == [s \in Level(m) |-> IF s = {} THEN base
                                          ELSE next[<<h[s \ {pick[s]}], pick[s]>>]]
      <3>3. ASSUME NEW s \in Level(m), s # {} PROVE s \ {pick[s]} \in Level(m - 1)
        BY <1>1, <1>2, <3>1, <3>3
      <3>4. ASSUME NEW s \in Level(m - 1) PROVE s \in Level(m) /\ g[s] = h[s]
        BY <1>1, <3>1, <3>2, <3>4
      <3>5. ASSUME NEW s \in Level(m)
            PROVE  g[s] = IF s = {} THEN base ELSE next[<<g[s \ {pick[s]}], pick[s]>>]
        BY <3>3, <3>4
      <3>6. ASSUME NEW s \in Level(m) PROVE g[s] \in A
        <4>1. CASE s = {}
          BY <4>1
        <4>2. CASE s # {}
          <5>1. h[s \ {pick[s]}] \in A
            BY <3>2, <3>3, <4>2
          <5>2. pick[s] \in D
            BY <1>0, <4>2
          <5> QED BY <4>2, <5>1, <5>2
        <4> QED BY <4>1, <4>2
      <3>7. Folded(g, m)
        BY <3>5, <3>6
      <3> QED BY <2>1, <3>7
    <2> QED BY <2>2, <2>3
  <1>4. Cardinality(D) \in Nat
    BY FS_CardinalityType
  <1>5. PICK h : Folded(h, Cardinality(D))
    BY <1>3, <1>4
  <1>6. Level(Cardinality(D)) = SUBSET D
    BY <1>1, FS_Subset
  <1> QED BY <1>5, <1>6 DEF FoldOf

Climbs(P, n) == \A i \in 1..n : i - 1 \in P => i \in P

\* Induction up to n, about a set.
LEMMA UpTo ==
    ASSUME NEW n \in Nat, NEW P, 0 \in P, Climbs(P, n)
    PROVE  0..n \subseteq P
  <1> DEFINE T == {i \in 0..n : i \notin P}
  <1>1. T = {}
    <2> SUFFICES ASSUME T # {} PROVE FALSE
      OBVIOUS
    <2>1. T \subseteq Nat
      OBVIOUS
    <2> HIDE DEF T
    <2>2. PICK m \in T : \A i \in T : m <= i
      BY <2>1, LeastExists
    <2>3. m \in 0..n /\ m \notin P
      BY DEF T
    <2>4. m \in 1..n /\ m - 1 \in 0..n /\ m - 1 \notin T
      BY <2>2, <2>3
    <2> QED BY <2>3, <2>4 DEF T, Climbs
  <1> QED BY <1>1

ListFold(h, n, A, base, next) ==
    /\ h \in [SUBSET (1..n) -> A]
    /\ \A s \in SUBSET (1..n) :
         h[s] = IF s = {} THEN base ELSE next[<<h[s \ {Max(s)}], Max(s)>>]

\* Of a list the fold takes away the last element, and folds what is before it.
LEMMA ListFoldExists ==
    ASSUME NEW n \in Nat, NEW A, NEW base \in A,
           NEW next \in [A \X (1..n) -> A]
    PROVE  \E h : ListFold(h, n, A, base, next)
  <1> DEFINE last == [s \in SUBSET (1..n) |-> Max(s)]
  <1>1. IsFiniteSet(1..n)
    BY FS_Interval
  <1>2. ASSUME NEW s \in SUBSET (1..n), s # {} PROVE last[s] \in s
    <2>1. s \subseteq 0..n
      OBVIOUS
    <2> QED BY <1>2, <2>1, GreatestExists
  <1>3. \A s \in SUBSET (1..n) : last[s] = Max(s)
    OBVIOUS
  <1>5. Picks(last, 1..n)
    BY <1>2 DEF Picks
  <1> HIDE DEF last
  <1>4. PICK h : FoldOf(h, 1..n, A, base, last, next)
    BY <1>1, <1>5, FoldExists
  <1>6. h \in [SUBSET (1..n) -> A]
    BY <1>4 DEF FoldOf
  <1>7. \A s \in SUBSET (1..n) :
          h[s] = IF s = {} THEN base ELSE next[<<h[s \ {Max(s)}], Max(s)>>]
    BY <1>3, <1>4 DEF FoldOf
  <1> QED BY <1>6, <1>7 DEF ListFold

LEMMA FirstFew ==
    ASSUME NEW n \in Nat
    PROVE  /\ 1..0 = {} /\ \A k \in 0..n : 1..k \in SUBSET (1..n)
           /\ \A k \in 1..n : k - 1 \in 0..n /\ k \in 0..n /\ Max(1..k) = k
                              /\ (1..k) \ {k} = 1..(k - 1) /\ 1..k # {}
  <1>1. ASSUME NEW k \in 1..n PROVE Max(1..k) = k
    <2>1. 1..k \subseteq 0..n /\ k \in 1..k /\ 1..k # {}
      OBVIOUS
    <2>2. Max(1..k) \in 1..k /\ k <= Max(1..k)
      BY <2>1, GreatestExists
    <2> QED BY <2>2
  <1>2. \A k \in 1..n : k - 1 \in 0..n /\ k \in 0..n /\ 1..k # {}
    OBVIOUS
  <1>3. \A k \in 1..n : (1..k) \ {k} = 1..(k - 1)
    OBVIOUS
  <1>4. 1..0 = {} /\ \A k \in 0..n : 1..k \in SUBSET (1..n)
    OBVIOUS
  <1> QED BY <1>1, <1>2, <1>3, <1>4

\* What is folded one element at a time, as the sequence of what comes after each.
StepsOf(F, n, A, base, next, last) ==
    /\ F \in [0..n -> A]
    /\ F[0] = base /\ F[n] = last
    /\ \A i \in 1..n : F[i] = next[<<F[i - 1], i>>]

Follows(f, n, A, base, next) ==
    /\ f[{}] = base
    /\ \A s \in SUBSET (1..n) :
         (s # {} /\ f[s \ {Max(s)}] \in A) => f[s] = next[<<f[s \ {Max(s)}], Max(s)>>]

LEMMA FoldSteps ==
    ASSUME NEW n \in Nat, NEW A, NEW base \in A, NEW next \in [A \X (1..n) -> A],
           NEW f, Follows(f, n, A, base, next)
    PROVE  \E F : StepsOf(F, n, A, base, next, f[1..n])
  <1> DEFINE F == [k \in 0..n |-> f[1..k]]
             P == {j \in 0..n : F[j] \in A}
  <1>1. F[0] = base /\ F[n] = f[1..n]
    <2>1. 1..0 = {} /\ 0 \in 0..n /\ n \in 0..n
      OBVIOUS
    <2> QED BY <2>1 DEF Follows
  <1>2. ASSUME NEW i \in 1..n, F[i - 1] \in A
        PROVE  F[i] = next[<<F[i - 1], i>>] /\ F[i] \in A
    <2>1. /\ 1..i \in SUBSET (1..n) /\ 1..i # {} /\ i - 1 \in 0..n /\ i \in 0..n
          /\ Max(1..i) = i /\ (1..i) \ {i} = 1..(i - 1)
      BY FirstFew
    <2>2. F[i - 1] = f[1..(i - 1)] /\ F[i] = f[1..i]
      BY <2>1
    <2> HIDE DEF F
    <2>3. f[1..i] = next[<<f[1..(i - 1)], i>>]
      BY <1>2, <2>1, <2>2 DEF Follows
    <2>4. next[<<F[i - 1], i>>] \in A
      BY <1>2
    <2> QED BY <2>2, <2>3, <2>4
  <1>3. F = [k \in 0..n |-> F[k]]
    OBVIOUS
  <1> HIDE DEF F
  <1>4. 0 \in P
    <2>1. 0 \in 0..n
      OBVIOUS
    <2> QED BY <1>1, <2>1 DEF P
  <1>5. ASSUME NEW i \in 1..n, i - 1 \in P PROVE i \in P
    <2>1. F[i - 1] \in A /\ i \in 0..n
      BY <1>5 DEF P
    <2> QED BY <1>2, <2>1 DEF P
  <1> HIDE DEF P
  <1>6. Climbs(P, n)
    BY <1>5 DEF Climbs
  <1>7. 0..n \subseteq P
    BY <1>4, <1>6, UpTo
  <1>8. \A k \in 0..n : F[k] \in A
    BY <1>7 DEF P
  <1>9. \A i \in 1..n : F[i - 1] \in A
    <2>1. \A i \in 1..n : i - 1 \in 0..n
      OBVIOUS
    <2> QED BY <1>8, <2>1
  <1> QED BY <1>1, <1>2, <1>3, <1>8, <1>9 DEF StepsOf

-----------------------------------------------------------------------------
(* What a filter returns                                                   *)

OnlySteps(F, list, S) ==
    /\ F[0] = <<>> /\ Only(list, S) = F[Len(list)]
    /\ \A i \in 1..Len(list) : F[i] = Kept(F[i - 1], list[i], S)

LEMMA OnlyStepByStep ==
    ASSUME NEW T, NEW list \in Seq(T), NEW S
    PROVE  \E F \in [0..Len(list) -> Seq(T)] : OnlySteps(F, list, S)
  <1> DEFINE n == Len(list)
             next == [p \in Seq(T) \X (1..n) |-> Kept(p[1], list[p[2]], S)]
             Folded(f) == f = [s \in SUBSET DOMAIN list |->
                                IF s = {} THEN <<>> ELSE Kept(f[s \ {Max(s)}], list[Max(s)], S)]
  <1>1. n \in Nat /\ DOMAIN list = 1..n /\ \A i \in 1..n : list[i] \in T
    OBVIOUS
  <1>2. ASSUME NEW x \in Seq(T), NEW i \in 1..n
        PROVE  next[<<x, i>>] = Kept(x, list[i], S) /\ Kept(x, list[i], S) \in Seq(T)
    BY <1>1 DEF Kept
  <1>3. next \in [Seq(T) \X (1..n) -> Seq(T)]
    BY <1>1, <1>2
  <1> HIDE DEF next, n
  <1>4. <<>> \in Seq(T)
    OBVIOUS
  <1>5. \A s \in SUBSET (1..n) : s # {} => Max(s) \in 1..n
    <2> SUFFICES ASSUME NEW s \in SUBSET (1..n), s # {} PROVE Max(s) \in 1..n
      OBVIOUS
    <2>1. s \subseteq 0..n
      BY <1>1
    <2> QED BY <1>1, <2>1, GreatestExists
  <1>6. PICK h : ListFold(h, n, Seq(T), <<>>, next)
    BY <1>1, <1>3, <1>4, ListFoldExists
  <1>7. Folded(h)
    <2>1. h \in [SUBSET (1..n) -> Seq(T)]
      BY <1>6 DEF ListFold
    <2>2. \A s \in SUBSET (1..n) :
            h[s] = IF s = {} THEN <<>> ELSE Kept(h[s \ {Max(s)}], list[Max(s)], S)
      BY <1>2, <1>5, <1>6, <2>1 DEF ListFold
    <2> QED BY <1>1, <2>1, <2>2
  <1>8. \E f : Folded(f) /\ Only(list, S) = f[DOMAIN list]
    BY <1>7 DEF Only, FoldLeft, MapThenFoldSet
  <1>9. PICK f : Folded(f) /\ Only(list, S) = f[DOMAIN list]
    BY <1>8
  <1>10. f[{}] = <<>>
    BY <1>1, <1>9
  <1>11. Follows(f, n, Seq(T), <<>>, next)
    <2> SUFFICES ASSUME NEW s \in SUBSET (1..n), s # {}, f[s \ {Max(s)}] \in Seq(T)
                 PROVE  f[s] = next[<<f[s \ {Max(s)}], Max(s)>>]
      BY <1>10 DEF Follows
    <2>1. f[s] = Kept(f[s \ {Max(s)}], list[Max(s)], S)
      BY <1>1, <1>9
    <2> QED BY <1>2, <1>5, <2>1
  <1>12. PICK F : StepsOf(F, n, Seq(T), <<>>, next, f[1..n])
    BY <1>1, <1>3, <1>4, <1>11, FoldSteps
  <1>13. \A i \in 1..n : F[i - 1] \in Seq(T) /\ F[i] = Kept(F[i - 1], list[i], S)
    <2>1. \A i \in 1..n : i - 1 \in 0..n
      BY <1>1
    <2> QED BY <1>2, <1>12, <2>1 DEF StepsOf
  <1>14. F \in [0..n -> Seq(T)] /\ F[0] = <<>> /\ F[n] = f[1..n]
    BY <1>12 DEF StepsOf
  <1>15. Only(list, S) = F[n]
    BY <1>1, <1>9, <1>14
  <1>16. OnlySteps(F, list, S)
    BY <1>13, <1>14, <1>15 DEF n, OnlySteps
  <1> QED BY <1>14, <1>16 DEF n

\* Groups, or members of one, that are what the list held and in its order.
OfTheirOwn(list) == \A i, j \in DOMAIN list : list[i].id = list[j].id => i = j

LEMMA Appended ==
    ASSUME NEW T, NEW s \in Seq(T), NEW x
    PROVE  /\ Len(Append(s, x)) = Len(s) + 1 /\ Len(s) \in Nat
           /\ DOMAIN s = 1..Len(s) /\ DOMAIN Append(s, x) = 1..(Len(s) + 1)
           /\ \A i \in 1..Len(s) : Append(s, x)[i] = s[i]
           /\ Append(s, x)[Len(s) + 1] = x
           /\ ToSet(Append(s, x)) = ToSet(s) \cup {x}
  <1>1. /\ Len(Append(s, x)) = Len(s) + 1 /\ Len(s) \in Nat
        /\ DOMAIN s = 1..Len(s) /\ DOMAIN Append(s, x) = 1..(Len(s) + 1)
        /\ \A i \in 1..Len(s) : Append(s, x)[i] = s[i]
        /\ Append(s, x)[Len(s) + 1] = x
    OBVIOUS
  <1>2. 1..(Len(s) + 1) = (1..Len(s)) \cup {Len(s) + 1}
    BY <1>1
  <1>3. ToSet(Append(s, x)) = ToSet(s) \cup {x}
    BY <1>1, <1>2 DEF ToSet
  <1> QED BY <1>1, <1>3

\* A filtered list holds elements of the list, and no two with one id if those had none.
LEMMA OnlyHolds ==
    ASSUME NEW T, NEW list \in Seq(T), NEW S
    PROVE  /\ Only(list, S) \in Seq(T)
           /\ OfTheirOwn(list) =>
                /\ OfTheirOwn(Only(list, S))
                /\ \A a \in DOMAIN Only(list, S) : Only(list, S)[a] \in ToSet(list)
  <1> DEFINE n == Len(list)
  <1>1. n \in Nat /\ DOMAIN list = 1..n
    OBVIOUS
  <1>2. PICK F \in [0..n -> Seq(T)] : OnlySteps(F, list, S)
    BY OnlyStepByStep
  <1> HIDE DEF n
  <1>3. /\ F[0] = <<>> /\ Only(list, S) = F[n]
        /\ \A i \in 1..n : F[i] = Kept(F[i - 1], list[i], S)
    BY <1>2 DEF OnlySteps, n
  <1>4. 0 \in 0..n /\ n \in 0..n /\ \A i \in 1..n : i \in 0..n /\ i - 1 \in 0..n
    BY <1>1
  <1>5. Only(list, S) \in Seq(T)
    BY <1>2, <1>3, <1>4
  <1> DEFINE Held(k) ==
               /\ \A a \in DOMAIN F[k] : \E i \in 1..k : F[k][a] = list[i]
               /\ OfTheirOwn(F[k])
             P == {k \in 0..n : Held(k)}
  <1>6. ASSUME OfTheirOwn(list) PROVE Held(n)
    <2>1. 0 \in P
      <3>1. DOMAIN <<>> = {}
        OBVIOUS
      <3> QED BY <1>3, <1>4, <3>1 DEF OfTheirOwn
    <2>2. ASSUME NEW k \in 1..n, k - 1 \in P PROVE k \in P
      <3>1. Held(k - 1)
        BY <2>2
      <3>2. CASE list[k] \notin S
        <4>1. F[k] = F[k - 1]
          BY <1>3, <3>2 DEF Kept
        <4>2. 1..(k - 1) \subseteq 1..k
          BY <1>1
        <4> QED BY <1>4, <3>1, <4>1, <4>2
      <3>3. CASE list[k] \in S
        <4> DEFINE was == F[k - 1]
        <4>1. was \in Seq(T) /\ F[k] = Append(was, list[k])
          BY <1>2, <1>3, <1>4, <3>3 DEF Kept
        <4>2. \A a \in DOMAIN was : \E i \in 1..(k - 1) : was[a] = list[i]
          BY <3>1
        <4>3. OfTheirOwn(was)
          BY <3>1
        <4> HIDE DEF was
        <4>4. /\ Len(was) \in Nat /\ DOMAIN was = 1..Len(was)
              /\ DOMAIN F[k] = 1..(Len(was) + 1)
              /\ \A a \in 1..Len(was) : F[k][a] = was[a]
              /\ F[k][Len(was) + 1] = list[k]
          BY <4>1, Appended
        <4>5. \A a \in DOMAIN F[k] : a \in DOMAIN was \/ a = Len(was) + 1
          BY <4>4
        <4>6. \A i \in 1..(k - 1) : i \in 1..k /\ i \in 1..n /\ i # k
          BY <1>1
        <4>7. k \in 1..k
          BY <1>1
        <4>8. ASSUME NEW a \in DOMAIN F[k] PROVE \E i \in 1..k : F[k][a] = list[i]
          BY <4>2, <4>4, <4>5, <4>6, <4>7
        <4>9. \A a \in DOMAIN was : F[k][a].id # list[k].id
          <5> SUFFICES ASSUME NEW a \in DOMAIN was, F[k][a].id = list[k].id PROVE FALSE
            OBVIOUS
          <5>1. PICK i \in 1..(k - 1) : was[a] = list[i]
            BY <4>2
          <5>2. i \in DOMAIN list /\ k \in DOMAIN list /\ i # k
            BY <1>1, <4>6
          <5>3. list[i].id = list[k].id
            BY <4>4, <5>1
          <5> QED BY <1>6, <5>2, <5>3 DEF OfTheirOwn
        <4>10. ASSUME NEW a \in DOMAIN F[k], NEW b \in DOMAIN F[k], F[k][a].id = F[k][b].id
               PROVE  a = b
          BY <4>3, <4>4, <4>5, <4>9, <4>10 DEF OfTheirOwn
        <4> QED BY <1>4, <4>8, <4>10 DEF OfTheirOwn
      <3> QED BY <3>2, <3>3
    <2> HIDE DEF P
    <2>3. Climbs(P, n)
      BY <2>2 DEF Climbs
    <2>4. 0..n \subseteq P
      BY <1>1, <2>1, <2>3, UpTo
    <2> QED BY <1>4, <2>4 DEF P
  <1> QED BY <1>1, <1>3, <1>5, <1>6 DEF ToSet

DistinctSteps(F, list, S) ==
    /\ F[0] = <<>> /\ Distinct(list, S) = F[Len(list)]
    /\ \A i \in 1..Len(list) : F[i] = Kept(F[i - 1], list[i], S \ ToSet(F[i - 1]))

LEMMA DistinctStepByStep ==
    ASSUME NEW T, NEW list \in Seq(T), NEW S
    PROVE  \E F \in [0..Len(list) -> Seq(T)] : DistinctSteps(F, list, S)
  <1> DEFINE n == Len(list)
             next == [p \in Seq(T) \X (1..n) |-> Kept(p[1], list[p[2]], S \ ToSet(p[1]))]
             Folded(f) == f = [s \in SUBSET DOMAIN list |->
                                IF s = {} THEN <<>>
                                ELSE Kept(f[s \ {Max(s)}], list[Max(s)],
                                          S \ ToSet(f[s \ {Max(s)}]))]
  <1>1. n \in Nat /\ DOMAIN list = 1..n /\ \A i \in 1..n : list[i] \in T
    OBVIOUS
  <1>2. ASSUME NEW x \in Seq(T), NEW i \in 1..n
        PROVE  next[<<x, i>>] = Kept(x, list[i], S \ ToSet(x)) /\ Kept(x, list[i], S \ ToSet(x)) \in Seq(T)
    BY <1>1 DEF Kept
  <1>3. next \in [Seq(T) \X (1..n) -> Seq(T)]
    BY <1>1, <1>2
  <1> HIDE DEF next, n
  <1>4. <<>> \in Seq(T)
    OBVIOUS
  <1>5. \A s \in SUBSET (1..n) : s # {} => Max(s) \in 1..n
    <2> SUFFICES ASSUME NEW s \in SUBSET (1..n), s # {} PROVE Max(s) \in 1..n
      OBVIOUS
    <2>1. s \subseteq 0..n
      BY <1>1
    <2> QED BY <1>1, <2>1, GreatestExists
  <1>6. PICK h : ListFold(h, n, Seq(T), <<>>, next)
    BY <1>1, <1>3, <1>4, ListFoldExists
  <1>7. Folded(h)
    <2>1. h \in [SUBSET (1..n) -> Seq(T)]
      BY <1>6 DEF ListFold
    <2>2. \A s \in SUBSET (1..n) :
            h[s] = IF s = {} THEN <<>>
                   ELSE Kept(h[s \ {Max(s)}], list[Max(s)], S \ ToSet(h[s \ {Max(s)}]))
      BY <1>2, <1>5, <1>6, <2>1 DEF ListFold
    <2> QED BY <1>1, <2>1, <2>2
  <1>8. \E f : Folded(f) /\ Distinct(list, S) = f[DOMAIN list]
    BY <1>7 DEF Distinct, FoldLeft, MapThenFoldSet
  <1>9. PICK f : Folded(f) /\ Distinct(list, S) = f[DOMAIN list]
    BY <1>8
  <1>10. f[{}] = <<>>
    BY <1>1, <1>9
  <1>11. Follows(f, n, Seq(T), <<>>, next)
    <2> SUFFICES ASSUME NEW s \in SUBSET (1..n), s # {}, f[s \ {Max(s)}] \in Seq(T)
                 PROVE  f[s] = next[<<f[s \ {Max(s)}], Max(s)>>]
      BY <1>10 DEF Follows
    <2>1. f[s] = Kept(f[s \ {Max(s)}], list[Max(s)], S \ ToSet(f[s \ {Max(s)}]))
      BY <1>1, <1>9
    <2> QED BY <1>2, <1>5, <2>1
  <1>12. PICK F : StepsOf(F, n, Seq(T), <<>>, next, f[1..n])
    BY <1>1, <1>3, <1>4, <1>11, FoldSteps
  <1>13. \A i \in 1..n : F[i - 1] \in Seq(T) /\ F[i] = Kept(F[i - 1], list[i], S \ ToSet(F[i - 1]))
    <2>1. \A i \in 1..n : i - 1 \in 0..n
      BY <1>1
    <2> QED BY <1>2, <1>12, <2>1 DEF StepsOf
  <1>14. F \in [0..n -> Seq(T)] /\ F[0] = <<>> /\ F[n] = f[1..n]
    BY <1>12 DEF StepsOf
  <1>15. Distinct(list, S) = F[n]
    BY <1>1, <1>9, <1>14
  <1>16. DistinctSteps(F, list, S)
    BY <1>13, <1>14, <1>15 DEF n, DistinctSteps
  <1> QED BY <1>14, <1>16 DEF n

\* What is made distinct holds what of the list is in S, each once.
LEMMA DistinctHolds ==
    ASSUME NEW T, NEW list \in Seq(T), NEW S
    PROVE  /\ Distinct(list, S) \in Seq(T)
           /\ IsInjective(Distinct(list, S))
           /\ ToSet(Distinct(list, S)) = ToSet(list) \cap S
  <1> DEFINE n == Len(list)
  <1>1. n \in Nat /\ DOMAIN list = 1..n
    OBVIOUS
  <1>2. PICK F \in [0..n -> Seq(T)] : DistinctSteps(F, list, S)
    BY DistinctStepByStep
  <1> HIDE DEF n
  <1>3. /\ F[0] = <<>> /\ Distinct(list, S) = F[n]
        /\ \A i \in 1..n : F[i] = Kept(F[i - 1], list[i], S \ ToSet(F[i - 1]))
    BY <1>2 DEF DistinctSteps, n
  <1>4. 0 \in 0..n /\ n \in 0..n /\ \A i \in 1..n : i \in 0..n /\ i - 1 \in 0..n
    BY <1>1
  <1>5. Distinct(list, S) \in Seq(T)
    BY <1>2, <1>3, <1>4
  <1> DEFINE First(k) == {list[i] : i \in 1..k}
             Held(k) == IsInjective(F[k]) /\ ToSet(F[k]) = First(k) \cap S
             P == {k \in 0..n : Held(k)}
  <1>6. 0 \in P
    <2>1. ToSet(<<>>) = {} /\ IsInjective(<<>>)
      BY DEF ToSet, IsInjective
    <2>2. First(0) = {}
      OBVIOUS
    <2> QED BY <1>3, <1>4, <2>1, <2>2
  <1>7. ASSUME NEW k \in 1..n, k - 1 \in P PROVE k \in P
    <2> DEFINE was == F[k - 1]
    <2>1. was \in Seq(T) /\ IsInjective(was) /\ ToSet(was) = First(k - 1) \cap S
      BY <1>2, <1>4, <1>7
    <2>2. First(k) = First(k - 1) \cup {list[k]}
      <3>1. 1..k = (1..(k - 1)) \cup {k}
        BY <1>1
      <3> QED BY <3>1
    <2>3. F[k] = Kept(was, list[k], S \ ToSet(was))
      BY <1>3
    <2> HIDE DEF was, First
    <2>4. CASE list[k] \in S \ ToSet(was)
      <3>1. F[k] = Append(was, list[k])
        BY <2>3, <2>4 DEF Kept
      <3>2. /\ Len(was) \in Nat /\ DOMAIN was = 1..Len(was)
            /\ DOMAIN F[k] = 1..(Len(was) + 1)
            /\ \A a \in 1..Len(was) : F[k][a] = was[a]
            /\ F[k][Len(was) + 1] = list[k]
            /\ ToSet(F[k]) = ToSet(was) \cup {list[k]}
        BY <2>1, <3>1, Appended
      <3>3. \A a \in DOMAIN was : was[a] # list[k]
        BY <2>4 DEF ToSet
      <3>4. \A a \in DOMAIN F[k] : a \in DOMAIN was \/ a = Len(was) + 1
        BY <3>2
      <3>5. IsInjective(F[k])
        BY <2>1, <3>2, <3>3, <3>4 DEF IsInjective
      <3>6. ToSet(F[k]) = First(k) \cap S
        BY <2>1, <2>2, <2>4, <3>2
      <3> QED BY <1>4, <3>5, <3>6
    <2>5. CASE list[k] \notin S \ ToSet(was)
      <3>1. F[k] = was
        BY <2>3, <2>5 DEF Kept
      <3>2. ToSet(F[k]) = First(k) \cap S
        BY <2>1, <2>2, <2>5, <3>1
      <3> QED BY <1>4, <2>1, <3>1, <3>2
    <2> QED BY <2>4, <2>5
  <1>8. First(n) = ToSet(list)
    BY <1>1 DEF ToSet
  <1> HIDE DEF P
  <1>9. Climbs(P, n)
    BY <1>7 DEF Climbs
  <1>10. 0..n \subseteq P
    BY <1>1, <1>6, <1>9, UpTo
  <1>11. Held(n)
    BY <1>4, <1>10 DEF P
  <1> QED BY <1>3, <1>5, <1>8, <1>11

-----------------------------------------------------------------------------
(* The migration of the groups an older console kept                       *)

Loop == [next : 0..Len(Legacy), to : Site, known : SUBSET App]

\* A loop is past a group, or the browser has forgotten it with the others.
Past(k) == legacy = <<>> \/ \E l \in loops : l.next > k

\* A call in flight does one of three things.
IsWrite(w) ==
    w \in [op : {"create", "update", "delete"}, id : {w.id}, apps : {w.apps},
           to : {w.to}, by : {w.by}]

\* Only one loop runs at a time, and the page knows of it.
OneLoop ==
    /\ here \in Site /\ loops \subseteq Loop
    /\ \A w \in writes : IsWrite(w)
    /\ \A l, m \in loops : l = m
    /\ legacy \in {Legacy, <<>>}
    /\ loops # {} => migrated /\ legacy # <<>>
    /\ ~moved => \A l \in loops : here = HomeSite /\ l.to = HomeSite

\* A group is made once for every loop that got past it, or ended before it did.
MadeInLoops ==
    /\ created \in [DOMAIN Legacy -> Nat] /\ restarts \in Nat
    /\ \A k \in DOMAIN Legacy :
         /\ created[k] <= restarts + 1
         /\ ~Past(k) => created[k] <= restarts
         /\ ~moved /\ Past(k) => created[k] >= 1

MigrationInv == OneLoop /\ MadeInLoops

LEMMA LegacyGroups ==
    /\ Len(Legacy) \in Nat /\ DOMAIN Legacy = 1..Len(Legacy)
    /\ Legacy # <<>> => Len(Legacy) >= 1
    /\ \A k \in DOMAIN Legacy : Legacy # <<>> /\ k \in Nat /\ 1 <= k /\ k <= Len(Legacy)
  BY GroupsAssumption

LEMMA FirstLoop ==
    ASSUME NEW s \in Site, NEW kept, NEW done, NEW l \in Migration(s, kept, done)
    PROVE  l \in Loop /\ l.next = 0 /\ l.to = s /\ s = HomeSite /\ kept # <<>> /\ ~done
  BY LegacyGroups DEF Migration, Loop

LEMMA FirstLoopAlone ==
    ASSUME NEW s, NEW kept, NEW done
    PROVE  \A l, m \in Migration(s, kept, done) : l = m
  BY DEF Migration

LEMMA GroupsInitFits == ASSUME GroupsInit PROVE MigrationInv
  <1>1. HomeSite \in Site
    BY GroupsAssumption
  <1>2. OneLoop
    BY <1>1, FirstLoop, FirstLoopAlone DEF GroupsInit, OneLoop
  <1>3. \A k \in DOMAIN Legacy : ~Past(k)
    <2> SUFFICES ASSUME NEW k \in DOMAIN Legacy, NEW l \in loops PROVE ~(l.next > k)
      BY LegacyGroups DEF GroupsInit, Past
    <2>1. l.next = 0
      BY <1>1, FirstLoop DEF GroupsInit
    <2> QED BY <2>1, LegacyGroups
  <1>4. MadeInLoops
    BY <1>3 DEF GroupsInit, MadeInLoops
  <1> QED BY <1>2, <1>4 DEF MigrationInv

\* A server that makes a group counts it only as the legacy group it is made for.
LEMMA CreatedCounts ==
    ASSUME MigrationInv, NEW s, NEW members, NEW k, Created(s, members, k)
    PROVE  IF s = HomeSite /\ k \in DOMAIN Legacy
           THEN created' = [created EXCEPT ![k] = @ + 1] ELSE created' = created
  BY DEF MigrationInv, MadeInLoops, Created

LEMMA OtherGroupsUncounted ==
    ASSUME MigrationInv, NEW s, NEW members, Created(s, members, 0)
    PROVE  created' = created
  BY CreatedCounts, LegacyGroups

LEMMA ServeUncounted ==
    ASSUME MigrationInv, NEW w \in writes, Serve(w)
    PROVE  created' = created
  <1>1. w.op \in {"create", "update", "delete"}
    BY DEF MigrationInv, OneLoop, IsWrite
  <1>2. CASE w.op = "create"
    BY <1>2, OtherGroupsUncounted DEF Serve
  <1>3. CASE w.op = "update"
    BY <1>3 DEF Serve, Updated
  <1>4. CASE w.op = "delete"
    BY <1>4 DEF Serve, Deleted
  <1> QED BY <1>1, <1>2, <1>3, <1>4

\* What the operators do besides leaves the migration alone.
LEMMA MigrationUntouched ==
    ASSUME MigrationInv, UNCHANGED <<here, created, migrationVars>>,
           \A w \in writes' : IsWrite(w)
    PROVE  MigrationInv'
  BY DEF MigrationInv, OneLoop, MadeInLoops, Past, migrationVars

LEMMA SendWriteFits ==
    ASSUME MigrationInv, NEW w, IsWrite(w), SendWrite(w)
    PROVE  MigrationInv'
  BY MigrationUntouched DEF SendWrite, serverVars, MigrationInv, OneLoop

LEMMA OperatorStepFits ==
    ASSUME MigrationInv,
           \/ \E s \in Site : EditElsewhere(s)
           \/ ReadGroups
           \/ \E g : OpenGroupPage(g) \/ DeleteFromMenu(g) \/ \E a : ToggleRow(g, a)
           \/ \E id, members : OpenGroupDialog(id, members)
           \/ CloseGroupDialog \/ SaveDraft
           \/ \E a : ToggleMember(a)
           \/ \E w \in writes : WriteSucceeded(w) \/ WriteFailed(w)
    PROVE  MigrationInv'
  <1>0. \A w \in writes : IsWrite(w)
    BY DEF MigrationInv, OneLoop
  <1>1. ASSUME NEW s \in Site, EditElsewhere(s) PROVE MigrationInv'
    <2>1. created' = created
      BY <1>1, OtherGroupsUncounted DEF EditElsewhere, Updated, Deleted
    <2> QED BY <1>0, <1>1, <2>1, MigrationUntouched DEF EditElsewhere
  <1>2. CASE ReadGroups
    BY <1>0, <1>2, MigrationUntouched DEF ReadGroups, serverVars
  <1>3. ASSUME NEW g, OpenGroupPage(g) PROVE MigrationInv'
    BY <1>0, <1>3, MigrationUntouched DEF OpenGroupPage, serverVars
  <1>4. ASSUME NEW g, DeleteFromMenu(g) PROVE MigrationInv'
    BY <1>4, SendWriteFits DEF DeleteFromMenu, IsWrite
  <1>5. ASSUME NEW g, NEW a, ToggleRow(g, a) PROVE MigrationInv'
    BY <1>5, SendWriteFits DEF ToggleRow, IsWrite
  <1>6. ASSUME NEW id, NEW members, OpenGroupDialog(id, members) PROVE MigrationInv'
    BY <1>0, <1>6, MigrationUntouched DEF OpenGroupDialog, serverVars
  <1>7. CASE CloseGroupDialog
    BY <1>0, <1>7, MigrationUntouched DEF CloseGroupDialog, serverVars
  <1>8. CASE SaveDraft
    <2>1. PICK d \in draft :
            SendWrite([op |-> IF d.id = NewGroup THEN "create" ELSE "update",
                       id |-> d.id, apps |-> d.apps, to |-> here, by |-> "dialog"])
      BY <1>8 DEF SaveDraft
    <2> QED BY <2>1, SendWriteFits DEF IsWrite
  <1>9. ASSUME NEW a, ToggleMember(a) PROVE MigrationInv'
    BY <1>0, <1>9, MigrationUntouched DEF ToggleMember, serverVars
  <1>10. ASSUME NEW w \in writes, WriteSucceeded(w) PROVE MigrationInv'
    <2>1. created' = created
      BY <1>10, ServeUncounted DEF WriteSucceeded
    <2> QED BY <1>0, <1>10, <2>1, MigrationUntouched DEF WriteSucceeded
  <1>11. ASSUME NEW w \in writes, WriteFailed(w) PROVE MigrationInv'
    <2>1. created' = created
      BY <1>11, ServeUncounted DEF WriteFailed, serverVars
    <2> QED BY <1>0, <1>11, <2>1, MigrationUntouched DEF WriteFailed
  <1> QED BY <1>1, <1>2, <1>3, <1>4, <1>5, <1>6, <1>7, <1>8, <1>9, <1>10, <1>11

-----------------------------------------------------------------------------
(* Loops begin                                                             *)

LEMMA OrphansWrite ==
    ASSUME MigrationInv, NEW w \in Orphaned
    PROVE  IsWrite(w)
  <1>1. PICK v \in writes : w = [v EXCEPT !.by = "row"]
    BY DEF Orphaned
  <1> QED BY <1>1 DEF MigrationInv, OneLoop, IsWrite

\* Another loop begins only if none runs, so none of its groups are counted yet.
LEMMA SwitchGroupsFits ==
    ASSUME MigrationInv, NEW s \in Site, SwitchGroups(s)
    PROVE  MigrationInv'
  <1>1. /\ here' = s /\ s # here /\ moved' = (moved \/ loops # {})
        /\ loops' = loops \cup Migration(s, legacy, migrated)
        /\ migrated' = (migrated \/ Migration(s, legacy, migrated) # {})
        /\ UNCHANGED <<created, legacy, restarts>>
        /\ \A w \in writes' : IsWrite(w)
    BY OrphansWrite DEF SwitchGroups, serverVars, MigrationInv, OneLoop
  <1>2. CASE Migration(s, legacy, migrated) = {}
    BY <1>1, <1>2 DEF MigrationInv, OneLoop, MadeInLoops, Past
  <1>3. CASE Migration(s, legacy, migrated) # {}
    <2>1. s = HomeSite /\ legacy # <<>> /\ ~migrated
      BY <1>3, FirstLoop
    <2>2. loops = {} /\ loops' = Migration(s, legacy, migrated)
      BY <1>1, <2>1 DEF MigrationInv, OneLoop
    <2>3. \A k \in DOMAIN Legacy : ~Past(k) /\ ~Past(k)'
      BY <1>1, <2>1, <2>2, FirstLoop, LegacyGroups DEF Past
    <2>4. \A l \in loops' : l \in Loop /\ l.to = s
      BY <2>2, FirstLoop
    <2>5. OneLoop'
      BY <1>1, <1>3, <2>1, <2>2, <2>4, FirstLoopAlone DEF MigrationInv, OneLoop
    <2>6. MadeInLoops'
      BY <1>1, <2>2, <2>3 DEF MigrationInv, MadeInLoops
    <2> QED BY <2>5, <2>6 DEF MigrationInv
  <1> QED BY <1>2, <1>3

LEMMA ReloadGroupsFits == ASSUME MigrationInv, ReloadGroups PROVE MigrationInv'
  <1>1. /\ UNCHANGED <<here, created, legacy, moved>> /\ writes' = {}
        /\ loops' = Migration(here, legacy, FALSE)
        /\ migrated' = (loops' # {})
        /\ restarts' = IF loops # {} THEN restarts + 1 ELSE restarts
    BY DEF ReloadGroups, serverVars
  <1>2. here \in Site
    BY DEF MigrationInv, OneLoop
  <1>3. \A l \in loops' : l \in Loop /\ l.next = 0 /\ l.to = here /\ here = HomeSite
                          /\ legacy # <<>>
    BY ZenonT(40), <1>1, <1>2, FirstLoop
  <1>4. \A l, m \in loops' : l = m
    BY <1>1, FirstLoopAlone
  <1>5. OneLoop'
    BY <1>1, <1>2, <1>3, <1>4 DEF MigrationInv, OneLoop
  <1>6. ASSUME NEW k \in DOMAIN Legacy
        PROVE  /\ Past(k)' => Past(k)
               /\ loops = {} => (Past(k) => Past(k)')
    <2>1. \A l \in loops' : ~(l.next > k)
      BY <1>3, LegacyGroups
    <2> QED BY <1>1, <2>1 DEF Past
  <1>7. MadeInLoops'
    BY <1>1, <1>6 DEF MigrationInv, MadeInLoops
  <1> QED BY <1>5, <1>7 DEF MigrationInv

-----------------------------------------------------------------------------
(* Loops go on and end                                                     *)

LEMMA MigrationStartsFits ==
    ASSUME MigrationInv, NEW l \in loops, MigrationStarts(l)
    PROVE  MigrationInv'
  <1> DEFINE m == [next |-> 1, to |-> here, known |-> Configured[l.to]]
  <1>1. /\ l.next = 0 /\ loops' = (loops \ {l}) \cup {m}
        /\ UNCHANGED <<here, created, writes, legacy, migrated, restarts, moved>>
    BY DEF MigrationStarts, serverVars
  <1>2. legacy # <<>> /\ legacy = Legacy /\ l \in Loop /\ loops = {l} /\ here \in Site
    BY DEF MigrationInv, OneLoop
  <1>3. m \in Loop /\ m.next = 1 /\ m.to = here
    BY <1>2, LegacyGroups, GroupsAssumption DEF Loop
  <1> HIDE DEF m
  <1>4. loops' = {m}
    BY <1>1, <1>2
  <1>5. \A k \in DOMAIN Legacy : ~Past(k) /\ ~Past(k)'
    BY <1>1, <1>2, <1>3, <1>4, LegacyGroups DEF Past
  <1>6. OneLoop'
    BY <1>1, <1>2, <1>3, <1>4 DEF MigrationInv, OneLoop
  <1>7. MadeInLoops'
    BY <1>1, <1>5 DEF MigrationInv, MadeInLoops
  <1> QED BY <1>6, <1>7 DEF MigrationInv

LEMMA MigrationAdvancesFits ==
    ASSUME MigrationInv, NEW l \in loops, MigrationAdvances(l)
    PROVE  MigrationInv'
  <1> DEFINE k == l.next
             m == [l EXCEPT !.next = @ + 1, !.to = here]
  <1>1. /\ k > 0 /\ Created(l.to, Offered(l), k)
        /\ IF k = Len(Legacy) THEN loops' = loops \ {l} /\ legacy' = <<>>
                              ELSE loops' = (loops \ {l}) \cup {m} /\ legacy' = legacy
        /\ UNCHANGED <<here, writes, migrated, restarts, moved>>
    BY DEF MigrationAdvances
  <1>2. /\ legacy # <<>> /\ legacy = Legacy /\ l \in Loop /\ loops = {l} /\ here \in Site
        /\ migrated /\ (~moved => here = HomeSite /\ l.to = HomeSite)
        /\ created \in [DOMAIN Legacy -> Nat] /\ restarts \in Nat
    BY DEF MigrationInv, OneLoop, MadeInLoops
  <1>3. k \in DOMAIN Legacy /\ k \in 1..Len(Legacy) /\ Len(Legacy) \in Nat
    <2>1. k \in 0..Len(Legacy) /\ k > 0
      BY <1>1, <1>2 DEF Loop
    <2> HIDE DEF k
    <2> QED BY <2>1, LegacyGroups
  <1>4. ASSUME k # Len(Legacy) PROVE m \in Loop /\ m.next = k + 1 /\ m.to = here
    <2>1. k + 1 \in 0..Len(Legacy)
      BY <1>3, <1>4
    <2> QED BY <1>2, <2>1 DEF Loop
  <1> HIDE DEF k, m
  <1>5. OneLoop'
    BY <1>1, <1>2, <1>4 DEF MigrationInv, OneLoop
  <1>6. \A i \in DOMAIN Legacy : /\ Past(i) <=> k > i
                                 /\ Past(i)' <=> k >= i
    <2>1. \A i \in DOMAIN Legacy : Past(i) <=> k > i
      BY <1>2 DEF Past, k
    <2>2. \A i \in DOMAIN Legacy : Past(i)' <=> k >= i
      BY <1>1, <1>2, <1>3, <1>4, LegacyGroups DEF Past
    <2> QED BY <2>1, <2>2
  <1>7. /\ created' \in [DOMAIN Legacy -> Nat]
        /\ \A i \in DOMAIN Legacy : i # k => created'[i] = created[i]
        /\ created'[k] \in {created[k], created[k] + 1}
        /\ ~moved => created'[k] = created[k] + 1
    BY <1>1, <1>2, <1>3, CreatedCounts
  <1>8. ASSUME NEW i \in DOMAIN Legacy
        PROVE  /\ created'[i] <= restarts + 1
               /\ ~Past(i)' => created'[i] <= restarts
               /\ ~moved /\ Past(i)' => created'[i] >= 1
    <2>1. i \in Nat /\ k \in Nat /\ created[i] \in Nat
      BY <1>2, <1>3, LegacyGroups
    <2>2. CASE i = k
      BY <1>2, <1>6, <1>7, <2>1, <2>2 DEF MigrationInv, MadeInLoops
    <2>3. CASE i # k
      BY <1>2, <1>6, <1>7, <2>1, <2>3 DEF MigrationInv, MadeInLoops
    <2> QED BY <2>2, <2>3
  <1>9. MadeInLoops'
    BY <1>1, <1>2, <1>7, <1>8 DEF MadeInLoops
  <1> QED BY <1>5, <1>9 DEF MigrationInv

\* The group it was sending may have been made or not.
LEMMA MigrationFailsFits ==
    ASSUME MigrationInv, NEW l \in loops, MigrationFails(l)
    PROVE  MigrationInv'
  <1> DEFINE k == l.next
  <1>1. /\ (k > 0 /\ Created(l.to, Offered(l), k)) \/ created' = created
        /\ loops' = loops \ {l} /\ restarts' = restarts + 1
        /\ UNCHANGED <<here, writes, legacy, moved>>
    BY DEF MigrationFails, serverVars
  <1>2. /\ legacy # <<>> /\ l \in Loop /\ loops = {l}
        /\ created \in [DOMAIN Legacy -> Nat] /\ restarts \in Nat
    BY DEF MigrationInv, OneLoop, MadeInLoops
  <1>3. OneLoop'
    BY <1>1, <1>2 DEF MigrationInv, OneLoop
  <1>4. \A i \in DOMAIN Legacy : (Past(i) <=> k > i) /\ ~Past(i)'
    BY <1>1, <1>2 DEF Past
  <1>5. k \in Nat
    BY <1>2, LegacyGroups DEF Loop
  <1> HIDE DEF k
  <1>6. /\ created' \in [DOMAIN Legacy -> Nat]
        /\ \A i \in DOMAIN Legacy : i # k => created'[i] = created[i]
        /\ k \in DOMAIN Legacy => created'[k] \in {created[k], created[k] + 1}
    BY <1>1, <1>2, CreatedCounts
  <1>7. ASSUME NEW i \in DOMAIN Legacy PROVE created'[i] <= restarts + 1
    <2>1. CASE i = k
      BY <1>2, <1>4, <1>5, <1>6, <2>1 DEF MigrationInv, MadeInLoops
    <2>2. CASE i # k
      BY <1>6, <2>2 DEF MigrationInv, MadeInLoops
    <2> QED BY <2>1, <2>2
  <1>8. MadeInLoops'
    BY <1>1, <1>2, <1>4, <1>6, <1>7 DEF MadeInLoops
  <1> QED BY <1>3, <1>8 DEF MigrationInv

-----------------------------------------------------------------------------
LEMMA GroupsNextFits == ASSUME MigrationInv, [GroupsNext]_groupsVars PROVE MigrationInv'
  <1>1. CASE UNCHANGED groupsVars
    BY <1>1 DEF MigrationInv, OneLoop, MadeInLoops, Past, groupsVars
  <1> QED BY <1>1, OperatorStepFits, SwitchGroupsFits, ReloadGroupsFits,
             MigrationStartsFits, MigrationAdvancesFits, MigrationFailsFits DEF GroupsNext

\* Whatever fails, reloads or switches, an older console's groups are made on their
\* server, each once but for the loops that broke off, before the browser forgets
\* them, unless the operator left that cluster meanwhile (app-shell.tsx).
THEOREM GroupsMigratedOnce == GroupsSpec => []MigratedOnce
  <1>1. ASSUME MigrationInv PROVE MigratedOnce
    BY <1>1 DEF MigrationInv, MadeInLoops, MigratedOnce, Past
  <1> QED BY <1>1, GroupsInitFits, GroupsNextFits, PTL DEF GroupsSpec

-----------------------------------------------------------------------------
(* The groups' lists                                                       *)

GroupId == Site \X Nat
GroupOf == [id : GroupId, apps : Seq(App)]
WriteOf == [op : {"create", "update", "delete"}, id : GroupId,
            apps : Seq(App), to : Site, by : {"dialog", "row"}]

\* No two groups of a list have one id, and no server has used the next one.
WellListed(groups, last) ==
    /\ groups \in Seq(GroupOf) /\ OfTheirOwn(groups)
    /\ \A i \in DOMAIN groups : groups[i].id[2] <= last

ServersList ==
    /\ groupsAt \in [Site -> Seq(GroupOf)] /\ made \in [Site -> Nat]
    /\ \A s \in Site : WellListed(groupsAt[s], made[s])

ScreenListed ==
    /\ sidebar \in Seq(GroupOf) /\ OfTheirOwn(sidebar)
    /\ groupPage \subseteq GroupId /\ draft \subseteq GroupOf /\ writes \subseteq WriteOf
    /\ migrated \in BOOLEAN /\ moved \in BOOLEAN

ListsInv == ServersList /\ ScreenListed

LEMMA ToggledHolds ==
    ASSUME NEW members \in Seq(App), NEW a \in App
    PROVE  Toggled(members, a) \in Seq(App)
  BY OnlyHolds DEF Toggled

LEMMA CreatedLists ==
    ASSUME ServersList, NEW s \in Site, NEW members \in Seq(App), NEW k,
           Created(s, members, k)
    PROVE  ServersList'
  <1> DEFINE g == [id |-> <<s, made[s] + 1>>, apps |-> Distinct(members, App)]
             list == groupsAt[s]
             longer == Append(list, g)
  <1>1. list \in Seq(GroupOf) /\ made[s] \in Nat /\ WellListed(list, made[s])
    BY DEF ServersList
  <1>2. g \in GroupOf /\ g.id[2] = made[s] + 1
    BY <1>1, DistinctHolds DEF GroupOf, GroupId
  <1>3. /\ made' = [made EXCEPT ![s] = @ + 1]
        /\ groupsAt' = [groupsAt EXCEPT ![s] = longer]
    BY DEF Created, ServersList
  <1> HIDE DEF g
  <1>4. /\ Len(list) \in Nat /\ DOMAIN list = 1..Len(list)
        /\ DOMAIN longer = 1..(Len(list) + 1)
        /\ \A i \in 1..Len(list) : longer[i] = list[i]
        /\ longer[Len(list) + 1] = g
    BY <1>1, Appended
  <1>5. longer \in Seq(GroupOf)
    BY <1>1, <1>2
  <1> HIDE DEF list, longer
  <1>6. \A i \in DOMAIN longer : i \in DOMAIN list \/ i = Len(list) + 1
    BY <1>4
  <1>7. \A i \in DOMAIN list : list[i].id[2] \in Nat /\ list[i].id[2] <= made[s]
    <2>1. \A i \in DOMAIN list : list[i] \in GroupOf
      BY <1>1
    <2> QED BY <1>1, <2>1 DEF WellListed, GroupOf, GroupId
  <1>8. OfTheirOwn(longer)
    <2> SUFFICES ASSUME NEW i \in DOMAIN longer, NEW j \in DOMAIN longer,
                        longer[i].id = longer[j].id
                 PROVE  i = j
      BY DEF OfTheirOwn
    <2>1. \A x \in DOMAIN list : list[x].id[2] # g.id[2]
      BY <1>1, <1>2, <1>7
    <2> QED BY <1>1, <1>4, <1>6, <2>1 DEF WellListed, OfTheirOwn
  <1>9. \A i \in DOMAIN longer : longer[i].id[2] <= made[s] + 1
    BY <1>1, <1>2, <1>4, <1>6, <1>7
  <1>10. WellListed(longer, made[s] + 1)
    BY <1>5, <1>8, <1>9 DEF WellListed
  <1> QED BY <1>1, <1>3, <1>5, <1>10 DEF ServersList

LEMMA UpdatedLists ==
    ASSUME ServersList, NEW s \in Site, NEW id, NEW members \in Seq(App),
           Updated(s, id, members)
    PROVE  ServersList'
  <1> DEFINE list == groupsAt[s]
             changed(i) == IF list[i].id = id
                           THEN [list[i] EXCEPT !.apps = Distinct(members, App)] ELSE list[i]
             after == [i \in DOMAIN list |-> changed(i)]
  <1>1. list \in Seq(GroupOf) /\ WellListed(list, made[s])
    BY DEF ServersList
  <1>2. Len(list) \in Nat /\ DOMAIN list = 1..Len(list) /\ \A i \in DOMAIN list : list[i] \in GroupOf
    BY <1>1
  <1>3. groupsAt' = [groupsAt EXCEPT ![s] = after] /\ made' = made
    BY DEF Updated, ServersList
  <1>4. \A i \in DOMAIN list : changed(i) \in GroupOf /\ changed(i).id = list[i].id
    BY <1>2, DistinctHolds DEF GroupOf
  <1> HIDE DEF list, changed
  <1>5. after \in Seq(GroupOf) /\ DOMAIN after = DOMAIN list
    BY <1>2, <1>4
  <1>6. \A i \in DOMAIN after : after[i].id = list[i].id
    BY <1>4
  <1> HIDE DEF after
  <1>7. WellListed(after, made[s])
    BY <1>1, <1>5, <1>6 DEF WellListed, OfTheirOwn
  <1> QED BY <1>3, <1>5, <1>7 DEF ServersList

LEMMA DeletedLists ==
    ASSUME ServersList, NEW s \in Site, NEW id, Deleted(s, id)
    PROVE  ServersList'
  <1> DEFINE list == groupsAt[s]
             S == {g \in ToSet(list) : g.id # id}
             after == Only(list, S)
  <1>1. list \in Seq(GroupOf) /\ WellListed(list, made[s])
    BY DEF ServersList
  <1>2. groupsAt' = [groupsAt EXCEPT ![s] = after] /\ made' = made
    BY DEF Deleted, ServersList
  <1> HIDE DEF S
  <1>3. /\ after \in Seq(GroupOf) /\ OfTheirOwn(after)
        /\ \A a \in DOMAIN after : after[a] \in ToSet(list)
    BY <1>1, OnlyHolds DEF WellListed
  <1> HIDE DEF list, after
  <1>4. \A a \in DOMAIN after : after[a].id[2] <= made[s]
    BY <1>1, <1>3 DEF WellListed, ToSet
  <1>5. WellListed(after, made[s])
    BY <1>3, <1>4 DEF WellListed
  <1> QED BY <1>2, <1>3, <1>5 DEF ServersList

LEMMA ServeLists ==
    ASSUME ServersList, NEW w \in WriteOf, Serve(w)
    PROVE  ServersList'
  <1>1. /\ w.op \in {"create", "update", "delete"} /\ w.to \in Site
        /\ w.apps \in Seq(App)
    BY DEF WriteOf
  <1>2. CASE w.op = "create"
    BY <1>1, <1>2, CreatedLists DEF Serve
  <1>3. CASE w.op = "update"
    BY <1>1, <1>3, UpdatedLists DEF Serve
  <1>4. CASE w.op = "delete"
    BY <1>1, <1>4, DeletedLists DEF Serve
  <1> QED BY <1>1, <1>2, <1>3, <1>4

LEMMA GroupsInitLists == ASSUME GroupsInit PROVE ListsInv
  <1>1. \A n : WellListed(<<>>, n)
    BY DEF WellListed, OfTheirOwn
  <1>2. ServersList
    BY <1>1 DEF GroupsInit, ServersList
  <1>3. ScreenListed
    <2>1. migrated \in BOOLEAN /\ moved \in BOOLEAN
      BY DEF GroupsInit
    <2>2. /\ sidebar \in Seq(GroupOf) /\ OfTheirOwn(sidebar)
          /\ groupPage = {} /\ draft = {} /\ writes = {}
      BY DEF GroupsInit, OfTheirOwn, NoDialog
    <2> QED BY <2>1, <2>2 DEF ScreenListed
  <1> QED BY <1>2, <1>3 DEF ListsInv

LEMMA ServersUntouched ==
    ASSUME ServersList, UNCHANGED <<groupsAt, made>>
    PROVE  ServersList'
  BY DEF ServersList, WellListed, OfTheirOwn

LEMMA SendWriteLists ==
    ASSUME ListsInv, NEW w \in WriteOf, SendWrite(w)
    PROVE  ListsInv'
  BY ServersUntouched
     DEF ListsInv, ScreenListed, OfTheirOwn, SendWrite, serverVars, migrationVars

\* What a group of the list is made of.
LEMMA Listed ==
    ASSUME NEW list \in Seq(GroupOf), NEW g \in ToSet(list)
    PROVE  g \in GroupOf /\ g.id \in GroupId /\ g.apps \in Seq(App)
  <1>1. g \in GroupOf
    BY DEF ToSet
  <1> QED BY <1>1 DEF GroupOf

LEMMA OperatorStepLists ==
    ASSUME ListsInv, MigrationInv,
           \/ \E s \in Site : EditElsewhere(s) \/ SwitchGroups(s)
           \/ ReadGroups \/ ReloadGroups
           \/ \E g \in ToSet(sidebar) :
                \/ OpenGroupPage(g) \/ DeleteFromMenu(g)
                \/ OpenGroupDialog(g.id, g.apps)
                \/ \E a \in App : ToggleRow(g, a)
           \/ OpenGroupDialog(NewGroup, <<>>)
           \/ CloseGroupDialog \/ SaveDraft
           \/ \E a \in Configured[here] : ToggleMember(a)
    PROVE  ListsInv'
  <1>1. ServersList /\ ScreenListed /\ here \in Site /\ Configured[here] \subseteq App
    BY GroupsAssumption DEF ListsInv, MigrationInv, OneLoop
  <1>2. ASSUME NEW s \in Site, EditElsewhere(s) PROVE ListsInv'
    <2>1. ServersList'
      <3>1. ASSUME NEW a \in App, Created(s, <<a>>, 0) PROVE ServersList'
        <4>1. <<a>> \in Seq(App)
          OBVIOUS
        <4> QED BY <1>1, <3>1, <4>1, CreatedLists
      <3>2. ASSUME NEW g \in ToSet(groupsAt[s]), Deleted(s, g.id) PROVE ServersList'
        BY <1>1, <3>2, DeletedLists
      <3>3. ASSUME NEW g \in ToSet(groupsAt[s]), NEW a \in App,
                   Updated(s, g.id, Toggled(g.apps, a))
            PROVE  ServersList'
        <4>1. groupsAt[s] \in Seq(GroupOf)
          BY <1>1 DEF ServersList
        <4>2. Toggled(g.apps, a) \in Seq(App)
          BY <4>1, Listed, ToggledHolds
        <4> QED BY <1>1, <3>3, <4>2, UpdatedLists
      <3> QED BY <1>2, <3>1, <3>2, <3>3 DEF EditElsewhere
    <2> QED BY <1>1, <1>2, <2>1 DEF EditElsewhere, ListsInv, ScreenListed, OfTheirOwn, migrationVars
  <1>3. ASSUME NEW s \in Site, SwitchGroups(s) PROVE ListsInv'
    <2>1. ServersList'
      BY <1>1, <1>3, ServersUntouched DEF SwitchGroups, serverVars
    <2>2. writes' \subseteq WriteOf
      <3>1. \A w \in writes : w \in WriteOf => [w EXCEPT !.by = "row"] \in WriteOf
        BY DEF WriteOf
      <3> QED BY <1>1, <1>3, <3>1 DEF SwitchGroups, Orphaned, ScreenListed
    <2>3. /\ sidebar' = <<>> /\ groupPage' = {} /\ draft' = {}
          /\ migrated' \in BOOLEAN /\ moved' \in BOOLEAN
      BY <1>1, <1>3 DEF SwitchGroups, NoDialog, ScreenListed
    <2> QED BY <2>1, <2>2, <2>3 DEF ListsInv, ScreenListed, OfTheirOwn
  <1>4. CASE ReadGroups
    <2>1. sidebar' \in Seq(GroupOf) /\ OfTheirOwn(sidebar')
      BY <1>1, <1>4 DEF ReadGroups, ServersList, WellListed
    <2>2. ServersList'
      BY <1>1, <1>4, ServersUntouched DEF ReadGroups, serverVars
    <2>3. ScreenListed'
      BY <1>1, <1>4, <2>1 DEF ReadGroups, ScreenListed, OfTheirOwn, migrationVars
    <2> QED BY <2>2, <2>3 DEF ListsInv
  <1>5. CASE ReloadGroups
    <2>1. ServersList'
      BY <1>1, <1>5, ServersUntouched DEF ReloadGroups, serverVars
    <2>2. ScreenListed'
      BY <1>1, <1>5 DEF ReloadGroups, ScreenListed, OfTheirOwn, NoDialog
    <2> QED BY <2>1, <2>2 DEF ListsInv
  <1>6. ASSUME NEW g \in ToSet(sidebar) PROVE g \in GroupOf /\ g.id \in GroupId /\ g.apps \in Seq(App)
    BY <1>1, Listed DEF ScreenListed
  <1>7. ASSUME NEW g \in ToSet(sidebar), OpenGroupPage(g) PROVE ListsInv'
    <2>1. ServersList'
      BY <1>1, <1>7, ServersUntouched DEF OpenGroupPage, serverVars
    <2> QED BY <1>1, <1>6, <1>7, <2>1 DEF OpenGroupPage, ListsInv, ScreenListed, OfTheirOwn, migrationVars
  <1>8. ASSUME NEW g \in ToSet(sidebar), DeleteFromMenu(g) PROVE ListsInv'
    <2>1. [op |-> "delete", id |-> g.id, apps |-> <<>>, to |-> here, by |-> "row"] \in WriteOf
      BY <1>1, <1>6 DEF WriteOf
    <2> QED BY <1>8, <2>1, SendWriteLists DEF DeleteFromMenu
  <1>9. ASSUME NEW id \in GroupId, NEW members \in Seq(App), OpenGroupDialog(id, members)
        PROVE  ListsInv'
    <2>1. ServersList'
      BY <1>1, <1>9, ServersUntouched DEF OpenGroupDialog, serverVars
    <2>2. draft' \subseteq GroupOf
      BY <1>9 DEF OpenGroupDialog, GroupOf
    <2> QED BY <1>1, <1>9, <2>1, <2>2
            DEF OpenGroupDialog, ListsInv, ScreenListed, OfTheirOwn, migrationVars
  <1>10. ASSUME NEW g \in ToSet(sidebar), NEW a \in App, ToggleRow(g, a) PROVE ListsInv'
    <2>1. Toggled(g.apps, a) \in Seq(App)
      BY <1>6, ToggledHolds
    <2>2. [op |-> "update", id |-> g.id, apps |-> Toggled(g.apps, a), to |-> here,
           by |-> "row"] \in WriteOf
      BY <1>1, <1>6, <2>1 DEF WriteOf
    <2> QED BY <1>10, <2>2, SendWriteLists DEF ToggleRow
  <1>11. NewGroup \in GroupId /\ <<>> \in Seq(App)
    BY GroupsAssumption DEF NewGroup, GroupId
  <1>12. CASE CloseGroupDialog
    <2>1. ServersList'
      BY <1>1, <1>12, ServersUntouched DEF CloseGroupDialog, serverVars
    <2> QED BY <1>1, <1>12, <2>1
            DEF CloseGroupDialog, NoDialog, ListsInv, ScreenListed, OfTheirOwn, migrationVars
  <1>13. CASE SaveDraft
    <2>1. PICK d \in draft : SendWrite([op |-> IF d.id = NewGroup THEN "create" ELSE "update",
                                        id |-> d.id, apps |-> d.apps, to |-> here, by |-> "dialog"])
      BY <1>13 DEF SaveDraft
    <2>2. d \in GroupOf
      BY <1>1 DEF ScreenListed
    <2>3. [op |-> IF d.id = NewGroup THEN "create" ELSE "update",
           id |-> d.id, apps |-> d.apps, to |-> here, by |-> "dialog"] \in WriteOf
      BY <1>1, <2>2 DEF WriteOf, GroupOf
    <2> QED BY <2>1, <2>3, SendWriteLists
  <1>14. ASSUME NEW a \in Configured[here], ToggleMember(a) PROVE ListsInv'
    <2>1. ServersList'
      BY <1>1, <1>14, ServersUntouched DEF ToggleMember, serverVars
    <2>2. \A d \in draft : [d EXCEPT !.apps = Toggled(@, a)] \in GroupOf
      BY <1>1, ToggledHolds DEF ScreenListed, GroupOf
    <2>3. draft' \subseteq GroupOf
      BY <1>14, <2>2 DEF ToggleMember
    <2> QED BY <1>1, <1>14, <2>1, <2>3
            DEF ToggleMember, ListsInv, ScreenListed, OfTheirOwn, migrationVars
  <1> QED BY <1>2, <1>3, <1>4, <1>5, <1>6, <1>7, <1>8, <1>9, <1>10, <1>11, <1>12, <1>13, <1>14

\* The answers to the calls, and the steps of the migration.
LEMMA AnswersLists ==
    ASSUME ListsInv, MigrationInv, NEW w \in writes, WriteSucceeded(w) \/ WriteFailed(w)
    PROVE  ListsInv'
  <1>1. ServersList /\ ScreenListed /\ w \in WriteOf
    BY DEF ListsInv, ScreenListed
  <1>2. CASE WriteSucceeded(w)
    <2>1. ServersList'
      BY <1>1, <1>2, ServeLists DEF WriteSucceeded
    <2>2. ScreenListed'
      BY <1>1, <1>2 DEF WriteSucceeded, ScreenListed, OfTheirOwn, NoDialog, migrationVars
    <2> QED BY <2>1, <2>2 DEF ListsInv
  <1>3. CASE WriteFailed(w)
    <2>1. ServersList'
      BY <1>1, <1>3, ServeLists, ServersUntouched DEF WriteFailed, serverVars
    <2>2. ScreenListed'
      BY <1>1, <1>3 DEF WriteFailed, ScreenListed, OfTheirOwn, migrationVars
    <2> QED BY <2>1, <2>2 DEF ListsInv
  <1> QED BY <1>2, <1>3

LEMMA OfferedHolds ==
    ASSUME MigrationInv, NEW l \in loops, l.next > 0
    PROVE  Offered(l) \in Seq(App) /\ l.to \in Site
  <1>1. l \in Loop /\ l.next \in 1..Len(Legacy) /\ l.to \in Site
    BY LegacyGroups DEF MigrationInv, OneLoop, Loop
  <1>2. Legacy[l.next] \in Seq(App)
    BY <1>1, GroupsAssumption
  <1> QED BY <1>1, <1>2, OnlyHolds DEF Offered

LEMMA MigrationLists ==
    ASSUME ListsInv, MigrationInv, NEW l \in loops,
           MigrationStarts(l) \/ MigrationAdvances(l) \/ MigrationFails(l)
    PROVE  ListsInv'
  <1>1. ServersList /\ ScreenListed
    BY DEF ListsInv
  <1>2. CASE MigrationStarts(l)
    <2>1. ServersList'
      BY <1>1, <1>2, ServersUntouched DEF MigrationStarts, serverVars
    <2> QED BY <1>1, <1>2, <2>1 DEF MigrationStarts, ListsInv, ScreenListed, OfTheirOwn
  <1>3. CASE MigrationAdvances(l)
    <2>1. ServersList'
      BY <1>1, <1>3, OfferedHolds, CreatedLists DEF MigrationAdvances
    <2> QED BY <1>1, <1>3, <2>1 DEF MigrationAdvances, ListsInv, ScreenListed, OfTheirOwn
  <1>4. CASE MigrationFails(l)
    <2>1. ServersList'
      BY <1>1, <1>4, OfferedHolds, CreatedLists, ServersUntouched DEF MigrationFails, serverVars
    <2>2. ScreenListed'
      BY <1>1, <1>4 DEF MigrationFails, ScreenListed, OfTheirOwn
    <2> QED BY <2>1, <2>2 DEF ListsInv
  <1> QED BY <1>2, <1>3, <1>4

LEMMA GroupsNextLists ==
    ASSUME ListsInv, MigrationInv, [GroupsNext]_groupsVars
    PROVE  ListsInv'
  <1>1. CASE UNCHANGED groupsVars
    BY <1>1, ServersUntouched DEF groupsVars, ListsInv, ScreenListed, OfTheirOwn
  <1> QED BY <1>1, OperatorStepLists, AnswersLists, MigrationLists DEF GroupsNext

\* A server's groups, and what the console holds of them, keep their types, and no
\* two groups of a list have one id: an operator, a call answered late and an
\* interrupted migration alike add, change and take away whole groups (groups.go,
\* app-shell.tsx).
THEOREM GroupsTypeCorrect == GroupsSpec => []GroupsTypeOK
  <1>1. ASSUME ListsInv, MigrationInv PROVE GroupsTypeOK
    BY <1>1 DEF ListsInv, ServersList, ScreenListed, MigrationInv, OneLoop, MadeInLoops,
                GroupsTypeOK, GroupOf, GroupId, WriteOf, Loop
  <1> QED BY <1>1, GroupsInitFits, GroupsInitLists, GroupsNextFits, GroupsNextLists, PTL
          DEF GroupsSpec

-----------------------------------------------------------------------------
(* The stage's order of applications                                       *)

\* A set made a sequence has every element in one place.
LEMMA SetInOrder ==
    ASSUME NEW S, IsFiniteSet(S)
    PROVE  /\ SetToSeq(S) \in Seq(S) /\ IsInjective(SetToSeq(S))
           /\ ToSet(SetToSeq(S)) = S
  <1> DEFINE n == Cardinality(S)
             f == SetToSeq(S)
  <1>1. n \in Nat /\ ExistsBijection(1..n, S)
    BY FS_CardinalityType
  <1>2. \E g \in [1..n -> S] : IsInjective(g)
    BY <1>1 DEF ExistsBijection, Bijection, Injection
  <1>3. f \in [1..n -> S] /\ IsInjective(f)
    BY <1>2 DEF SetToSeq
  <1>4. IsFiniteSet(1..n) /\ Cardinality(1..n) = n
    BY <1>1, FS_Interval
  <1>5. f \in Injection(1..n, S)
    BY <1>3 DEF Injection
  <1>6. f \in Surjection(1..n, S)
    BY <1>4, <1>5, FS_Injection
  <1> HIDE DEF f
  <1>7. ToSet(f) = S
    BY <1>3, <1>6 DEF Surjection, ToSet
  <1> QED BY <1>1, <1>3, <1>7 DEF f

\* Two sequences with no element in common, one after the other.
LEMMA Joined ==
    ASSUME NEW T, NEW s \in Seq(T), NEW t \in Seq(T)
    PROVE  /\ s \o t \in Seq(T) /\ Len(s \o t) = Len(s) + Len(t)
           /\ Len(s) \in Nat /\ Len(t) \in Nat
           /\ DOMAIN s = 1..Len(s) /\ DOMAIN t = 1..Len(t)
           /\ DOMAIN (s \o t) = 1..(Len(s) + Len(t))
           /\ \A i \in 1..Len(s) : (s \o t)[i] = s[i]
           /\ \A i \in 1..Len(t) : (s \o t)[Len(s) + i] = t[i]
           /\ ToSet(s \o t) = ToSet(s) \cup ToSet(t)
           /\ IsInjective(s) /\ IsInjective(t) /\ ToSet(s) \cap ToSet(t) = {}
                => IsInjective(s \o t)
  <1> DEFINE j == s \o t
             m == Len(s)
             n == Len(t)
  <1>1. /\ j \in Seq(T) /\ Len(j) = m + n
        /\ m \in Nat /\ n \in Nat /\ DOMAIN s = 1..m /\ DOMAIN t = 1..n
        /\ DOMAIN j = 1..(m + n)
        /\ \A i \in 1..m : j[i] = s[i]
    OBVIOUS
  <1>2. ASSUME NEW i \in 1..n PROVE m + i \in 1..(m + n) /\ j[m + i] = t[i]
    OBVIOUS
  <1> HIDE DEF j, m, n
  <1>3. ASSUME NEW i \in DOMAIN j
        PROVE  i \in 1..m \/ \E k \in 1..n : i = m + k
    <2>1. CASE i <= m
      BY <1>1, <2>1
    <2>2. CASE i > m
      <3>1. i - m \in 1..n /\ i = m + (i - m)
        BY <1>1, <2>2
      <3> QED BY <3>1
    <2> QED BY <1>1, <2>1, <2>2
  <1>4. ToSet(j) = ToSet(s) \cup ToSet(t)
    <2>1. ToSet(j) \subseteq ToSet(s) \cup ToSet(t)
      <3> SUFFICES ASSUME NEW i \in DOMAIN j PROVE j[i] \in ToSet(s) \cup ToSet(t)
        BY DEF ToSet
      <3>1. CASE i \in 1..m
        BY <1>1, <3>1 DEF ToSet
      <3>2. ASSUME NEW k \in 1..n, i = m + k PROVE j[i] \in ToSet(t)
        BY <1>1, <1>2, <3>2 DEF ToSet
      <3> QED BY <1>3, <3>1, <3>2
    <2>2. ToSet(s) \subseteq ToSet(j)
      <3>1. \A i \in 1..m : i \in DOMAIN j
        BY <1>1
      <3> QED BY <1>1, <3>1 DEF ToSet
    <2>3. ToSet(t) \subseteq ToSet(j)
      BY <1>1, <1>2 DEF ToSet
    <2> QED BY <2>1, <2>2, <2>3
  <1>5. ASSUME IsInjective(s), IsInjective(t), ToSet(s) \cap ToSet(t) = {}
        PROVE  IsInjective(j)
    <2> SUFFICES ASSUME NEW a \in DOMAIN j, NEW b \in DOMAIN j, j[a] = j[b] PROVE a = b
      BY DEF IsInjective
    <2>1. \A x \in 1..m, y \in 1..n : s[x] # t[y]
      BY <1>1, <1>5 DEF ToSet
    <2>2. CASE a \in 1..m /\ b \in 1..m
      BY <1>1, <1>5, <2>2 DEF IsInjective
    <2>3. CASE a \in 1..m /\ b \notin 1..m
      <3>1. PICK y \in 1..n : b = m + y
        BY <1>3, <2>3
      <3> QED BY <1>1, <1>2, <2>1, <2>3, <3>1
    <2>4. CASE a \notin 1..m /\ b \in 1..m
      <3>1. PICK x \in 1..n : a = m + x
        BY <1>3, <2>4
      <3>2. j[a] = t[x] /\ j[b] = s[b]
        BY <1>1, <1>2, <2>4, <3>1
      <3> QED BY <2>1, <2>4, <3>2
    <2>5. CASE a \notin 1..m /\ b \notin 1..m
      <3>1. PICK x \in 1..n : a = m + x
        BY <1>3, <2>5
      <3>2. PICK y \in 1..n : b = m + y
        BY <1>3, <2>5
      <3>3. t[x] = t[y]
        BY <1>2, <3>1, <3>2
      <3> QED BY <1>1, <1>5, <3>1, <3>2, <3>3 DEF IsInjective
    <2> QED BY <2>2, <2>3, <2>4, <2>5
  <1> QED BY <1>1, <1>2, <1>4, <1>5 DEF j, m, n

SpanOf == [id : GroupId, from : Nat, to : Nat]
PlacedOf == [ordered : Seq(App), spans : Seq(SpanOf)]
NonePlaced == [ordered |-> <<>>, spans |-> <<>>]

\* A group adds its members that are not placed yet, and a span if there are any.
LEMMA PlacedAdds ==
    ASSUME NEW p \in PlacedOf, NEW g \in GroupOf
    PROVE  LET fresh == Distinct(g.apps, Configured[here] \ ToSet(p.ordered))
               from == Len(p.ordered) + 1
           IN  /\ Placed(p, g) \in PlacedOf /\ fresh \in Seq(App)
               /\ Placed(p, g) = IF fresh = <<>> THEN p
                    ELSE [ordered |-> p.ordered \o fresh,
                          spans |-> Append(p.spans, [id |-> g.id, from |-> from,
                                                     to |-> from + Len(fresh) - 1])]
  <1> DEFINE fresh == Distinct(g.apps, Configured[here] \ ToSet(p.ordered))
             from == Len(p.ordered) + 1
             span == [id |-> g.id, from |-> from, to |-> from + Len(fresh) - 1]
  <1>1. p.ordered \in Seq(App) /\ p.spans \in Seq(SpanOf) /\ g.id \in GroupId
        /\ g.apps \in Seq(App)
    BY DEF PlacedOf, GroupOf
  <1>2. fresh \in Seq(App)
    BY <1>1, DistinctHolds
  <1>3. Placed(p, g) = IF fresh = <<>> THEN p
                       ELSE [ordered |-> p.ordered \o fresh, spans |-> Append(p.spans, span)]
    BY DEF Placed
  <1> HIDE DEF fresh
  <1>4. span \in SpanOf
    BY <1>1, <1>2 DEF SpanOf
  <1> HIDE DEF span
  <1>5. Placed(p, g) \in PlacedOf
    BY <1>1, <1>2, <1>3, <1>4 DEF PlacedOf
  <1> QED BY <1>2, <1>3, <1>5 DEF fresh, span

PlacedSteps(F, list) ==
    /\ F[0] = NonePlaced /\ FoldLeft(Placed, NonePlaced, list) = F[Len(list)]
    /\ \A i \in 1..Len(list) : F[i] = Placed(F[i - 1], list[i])

LEMMA PlacedStepByStep ==
    ASSUME NEW list \in Seq(GroupOf)
    PROVE  \E F \in [0..Len(list) -> PlacedOf] : PlacedSteps(F, list)
  <1> DEFINE n == Len(list)
             next == [p \in PlacedOf \X (1..n) |-> Placed(p[1], list[p[2]])]
             Folded(f) == f = [s \in SUBSET DOMAIN list |->
                                IF s = {} THEN NonePlaced
                                ELSE Placed(f[s \ {Max(s)}], list[Max(s)])]
  <1>1. n \in Nat /\ DOMAIN list = 1..n /\ \A i \in 1..n : list[i] \in GroupOf
    OBVIOUS
  <1>2. ASSUME NEW x \in PlacedOf, NEW i \in 1..n
        PROVE  next[<<x, i>>] = Placed(x, list[i]) /\ Placed(x, list[i]) \in PlacedOf
    BY <1>1, PlacedAdds
  <1>3. next \in [PlacedOf \X (1..n) -> PlacedOf]
    BY <1>1, <1>2
  <1> HIDE DEF next, n
  <1>4. NonePlaced \in PlacedOf
    BY DEF NonePlaced, PlacedOf
  <1>5. \A s \in SUBSET (1..n) : s # {} => Max(s) \in 1..n
    <2> SUFFICES ASSUME NEW s \in SUBSET (1..n), s # {} PROVE Max(s) \in 1..n
      OBVIOUS
    <2>1. s \subseteq 0..n
      BY <1>1
    <2> QED BY <1>1, <2>1, GreatestExists
  <1>6. PICK h : ListFold(h, n, PlacedOf, NonePlaced, next)
    BY <1>1, <1>3, <1>4, ListFoldExists
  <1>7. Folded(h)
    <2>1. h \in [SUBSET (1..n) -> PlacedOf]
      BY <1>6 DEF ListFold
    <2>2. \A s \in SUBSET (1..n) :
            h[s] = IF s = {} THEN NonePlaced ELSE Placed(h[s \ {Max(s)}], list[Max(s)])
      BY <1>2, <1>5, <1>6, <2>1 DEF ListFold
    <2> QED BY <1>1, <2>1, <2>2
  <1>8. \E f : Folded(f) /\ FoldLeft(Placed, NonePlaced, list) = f[DOMAIN list]
    BY <1>7 DEF FoldLeft, MapThenFoldSet
  <1>9. PICK f : Folded(f) /\ FoldLeft(Placed, NonePlaced, list) = f[DOMAIN list]
    BY <1>8
  <1>10. f[{}] = NonePlaced
    BY <1>1, <1>9
  <1>11. Follows(f, n, PlacedOf, NonePlaced, next)
    <2> SUFFICES ASSUME NEW s \in SUBSET (1..n), s # {}, f[s \ {Max(s)}] \in PlacedOf
                 PROVE  f[s] = next[<<f[s \ {Max(s)}], Max(s)>>]
      BY <1>10 DEF Follows
    <2>1. f[s] = Placed(f[s \ {Max(s)}], list[Max(s)])
      BY <1>1, <1>9
    <2> QED BY <1>2, <1>5, <2>1
  <1>12. PICK F : StepsOf(F, n, PlacedOf, NonePlaced, next, f[1..n])
    BY <1>1, <1>3, <1>4, <1>11, FoldSteps
  <1>13. \A i \in 1..n : F[i - 1] \in PlacedOf /\ F[i] = Placed(F[i - 1], list[i])
    <2>1. \A i \in 1..n : i - 1 \in 0..n
      BY <1>1
    <2> QED BY <1>2, <1>12, <2>1 DEF StepsOf
  <1>14. F \in [0..n -> PlacedOf] /\ F[0] = NonePlaced /\ F[n] = f[1..n]
    BY <1>12 DEF StepsOf
  <1>15. FoldLeft(Placed, NonePlaced, list) = F[n]
    BY <1>1, <1>9, <1>14
  <1>16. PlacedSteps(F, list)
    BY <1>13, <1>14, <1>15 DEF n, PlacedSteps
  <1> QED BY <1>14, <1>16 DEF n

AllOf(list, k) == UNION {ToSet(list[j].apps) : j \in 1..k}
Mine(list, i) == (ToSet(list[i].apps) \cap Configured[here]) \ AllOf(list, i - 1)
Stand(ordered, s) == {ordered[i] : i \in s.from .. s.to}
Within(ordered, s) == 1 <= s.from /\ s.to <= Len(ordered)

\* The first k groups have placed their members, each once; a span is where one
\* group's stand, and the last ends with what is placed.
PlacedWell(p, list, k) ==
    /\ IsInjective(p.ordered) /\ ToSet(p.ordered) = AllOf(list, k) \cap Configured[here]
    /\ \A x \in DOMAIN p.spans :
         /\ Within(p.ordered, p.spans[x])
         /\ \E i \in 1..k : /\ p.spans[x].id = list[i].id
                            /\ Stand(p.ordered, p.spans[x]) = Mine(list, i)
    /\ \A i \in 1..k : Mine(list, i) # {} => \E x \in DOMAIN p.spans : p.spans[x].id = list[i].id
    /\ p.spans = <<>> => p.ordered = <<>>
    /\ p.spans # <<>> => p.spans[Len(p.spans)].to = Len(p.ordered)

\* What stands within a list stands there still when the list grows.
LEMMA StandsStill ==
    ASSUME NEW T, NEW o \in Seq(T), NEW t \in Seq(T), NEW s \in SpanOf, Within(o, s)
    PROVE  Stand(o \o t, s) = Stand(o, s) /\ Within(o \o t, s)
  <1>1. Len(o \o t) = Len(o) + Len(t) /\ Len(o) \in Nat /\ Len(t) \in Nat
        /\ \A i \in 1..Len(o) : (o \o t)[i] = o[i]
    BY Joined
  <1>2. s.from \in Nat /\ s.to \in Nat
    BY DEF SpanOf
  <1>3. \A i \in s.from .. s.to : i \in 1..Len(o)
    BY <1>1, <1>2 DEF Within
  <1>4. Within(o \o t, s)
    BY <1>1, <1>2 DEF Within
  <1>5. \A i \in s.from .. s.to : (o \o t)[i] = o[i]
    BY <1>1, <1>3
  <1> QED BY <1>4, <1>5 DEF Stand

LEMMA StandsBehind ==
    ASSUME NEW T, NEW o \in Seq(T), NEW t \in Seq(T), NEW s \in SpanOf,
           s.from = Len(o) + 1, s.to = Len(o) + Len(t)
    PROVE  Stand(o \o t, s) = ToSet(t)
  <1>1. /\ Len(o) \in Nat /\ Len(t) \in Nat /\ DOMAIN t = 1..Len(t)
        /\ \A i \in 1..Len(t) : (o \o t)[Len(o) + i] = t[i]
    BY Joined
  <1>2. ASSUME NEW i \in s.from .. s.to PROVE (o \o t)[i] \in ToSet(t)
    <2>1. i - Len(o) \in 1..Len(t) /\ i = Len(o) + (i - Len(o))
      BY <1>1
    <2> QED BY <1>1, <2>1 DEF ToSet
  <1>3. ASSUME NEW k \in 1..Len(t) PROVE t[k] \in Stand(o \o t, s)
    <2>1. Len(o) + k \in s.from .. s.to
      BY <1>1
    <2> QED BY <1>1, <2>1 DEF Stand
  <1> QED BY <1>1, <1>2, <1>3 DEF Stand, ToSet

LEMMA PlacedWellStep ==
    ASSUME NEW list \in Seq(GroupOf), NEW k \in 1..Len(list), NEW p \in PlacedOf,
           PlacedWell(p, list, k - 1)
    PROVE  PlacedWell(Placed(p, list[k]), list, k)
  <1> DEFINE g == list[k]
             o == p.ordered
             C == Configured[here]
             fresh == Distinct(g.apps, C \ ToSet(o))
             span == [id |-> g.id, from |-> Len(o) + 1, to |-> Len(o) + 1 + Len(fresh) - 1]
             q == Placed(p, g)
  <1>1. /\ g \in GroupOf /\ g.apps \in Seq(App) /\ g.id \in GroupId
        /\ o \in Seq(App) /\ p.spans \in Seq(SpanOf)
    <2>1. g \in GroupOf
      OBVIOUS
    <2> QED BY <2>1 DEF GroupOf, PlacedOf
  <1>2. /\ fresh \in Seq(App)
        /\ q = IF fresh = <<>> THEN p
               ELSE [ordered |-> o \o fresh, spans |-> Append(p.spans, span)]
    BY <1>1, PlacedAdds
  <1>3. IsInjective(fresh) /\ ToSet(fresh) = ToSet(g.apps) \cap (C \ ToSet(o))
    BY <1>1, DistinctHolds
  <1>4. AllOf(list, k) = AllOf(list, k - 1) \cup ToSet(g.apps)
    <2>1. 1..k = (1..(k - 1)) \cup {k}
      OBVIOUS
    <2> QED BY <2>1 DEF AllOf
  <1>5. Mine(list, k) = (ToSet(g.apps) \cap C) \ AllOf(list, k - 1)
    BY DEF Mine
  <1>6. ToSet(o) = AllOf(list, k - 1) \cap C
    BY DEF PlacedWell
  <1>7. k \in 1..k /\ \A i \in 1..k : i \in 1..(k - 1) \/ i = k
    OBVIOUS
  <1>8. \A i \in 1..(k - 1) : i \in 1..k
    OBVIOUS
  <1> HIDE DEF g, C, fresh, q
  <1>9. ToSet(fresh) = Mine(list, k)
    BY <1>3, <1>5, <1>6
  <1>10. CASE fresh = <<>>
    <2>1. ToSet(fresh) = {}
      BY <1>10 DEF ToSet
    <2>2. Mine(list, k) = {} /\ q = p
      BY <1>2, <1>9, <1>10, <2>1
    <2>3. ToSet(o) = AllOf(list, k) \cap C
      BY <1>4, <1>5, <1>6, <2>2
    <2> QED BY <1>7, <1>8, <2>2, <2>3 DEF PlacedWell, C, q, g
  <1>11. CASE fresh # <<>>
    <2>1. q.ordered = o \o fresh /\ q.spans = Append(p.spans, span)
      BY <1>2, <1>11
    <2>2. /\ Len(o) \in Nat /\ Len(fresh) \in Nat
          /\ Len(q.ordered) = Len(o) + Len(fresh) /\ ToSet(q.ordered) = ToSet(o) \cup ToSet(fresh)
      BY <1>1, <1>2, <2>1, Joined
    <2>3. ToSet(o) \cap ToSet(fresh) = {}
      BY <1>3
    <2>4. IsInjective(q.ordered)
      BY <1>1, <1>2, <1>3, <2>1, <2>3, Joined DEF PlacedWell
    <2>5. ToSet(q.ordered) = AllOf(list, k) \cap C
      BY <1>4, <1>5, <1>6, <1>9, <2>2
    <2>6. span \in SpanOf /\ span.from = Len(o) + 1 /\ span.to = Len(o) + Len(fresh)
          /\ span.id = g.id
      BY <1>1, <2>2 DEF SpanOf
    <2> HIDE DEF span
    <2>7. Stand(q.ordered, span) = Mine(list, k)
      BY ZenonT(40), <1>1, <1>2, <1>9, <2>1, <2>6, StandsBehind
    <2>8. Within(q.ordered, span)
      BY <2>2, <2>6 DEF Within
    <2>9. /\ Len(p.spans) \in Nat /\ DOMAIN p.spans = 1..Len(p.spans)
          /\ DOMAIN q.spans = 1..(Len(p.spans) + 1) /\ Len(q.spans) = Len(p.spans) + 1
          /\ \A x \in 1..Len(p.spans) : q.spans[x] = p.spans[x]
          /\ q.spans[Len(p.spans) + 1] = span
      BY <1>1, <2>1, Appended
    <2>10. \A x \in DOMAIN q.spans : x \in DOMAIN p.spans \/ x = Len(p.spans) + 1
      BY <2>9
    <2>11. \A x \in DOMAIN p.spans : x \in DOMAIN q.spans
      BY <2>9
    <2>12. Len(p.spans) + 1 \in DOMAIN q.spans
      BY <2>9
    <2>13. ASSUME NEW x \in DOMAIN q.spans
           PROVE  /\ Within(q.ordered, q.spans[x])
                  /\ \E i \in 1..k : /\ q.spans[x].id = list[i].id
                                     /\ Stand(q.ordered, q.spans[x]) = Mine(list, i)
      <3>1. CASE x = Len(p.spans) + 1
        BY <1>7, <2>6, <2>7, <2>8, <2>9, <3>1 DEF g
      <3>2. CASE x \in DOMAIN p.spans
        <4>1. q.spans[x] = p.spans[x] /\ p.spans[x] \in SpanOf /\ Within(o, p.spans[x])
          BY <1>1, <2>9, <3>2 DEF PlacedWell
        <4>2. PICK i \in 1..(k - 1) : /\ p.spans[x].id = list[i].id
                                      /\ Stand(o, p.spans[x]) = Mine(list, i)
          BY <3>2 DEF PlacedWell
        <4>3. Stand(q.ordered, p.spans[x]) = Stand(o, p.spans[x]) /\ Within(q.ordered, p.spans[x])
          BY <1>1, <1>2, <2>1, <4>1, StandsStill
        <4> QED BY <1>8, <4>1, <4>2, <4>3
      <3> QED BY <2>10, <3>1, <3>2
    <2>14. ASSUME NEW i \in 1..k, Mine(list, i) # {}
           PROVE  \E x \in DOMAIN q.spans : q.spans[x].id = list[i].id
      <3>1. CASE i = k
        BY <2>6, <2>9, <2>12, <3>1 DEF g
      <3>2. CASE i \in 1..(k - 1)
        <4>1. PICK x \in DOMAIN p.spans : p.spans[x].id = list[i].id
          BY <2>14, <3>2 DEF PlacedWell
        <4> QED BY <2>9, <2>11, <4>1
      <3> QED BY <1>7, <3>1, <3>2
    <2>15. q.spans # <<>>
      BY <2>9
    <2>16. q.spans[Len(q.spans)].to = Len(q.ordered)
      BY <2>2, <2>6, <2>9
    <2> QED BY <2>4, <2>5, <2>13, <2>14, <2>15, <2>16 DEF PlacedWell, C, q, g
  <1> QED BY <1>10, <1>11

LEMMA PlacedHolds ==
    ASSUME NEW list \in Seq(GroupOf), here \in Site
    PROVE  LET p == FoldLeft(Placed, NonePlaced, list)
           IN  p \in PlacedOf /\ PlacedWell(p, list, Len(list))
  <1> DEFINE n == Len(list)
  <1>1. n \in Nat
    OBVIOUS
  <1>2. PICK F \in [0..n -> PlacedOf] : PlacedSteps(F, list)
    BY PlacedStepByStep
  <1>3. 0 \in 0..n /\ n \in 0..n /\ \A i \in 1..n : i \in 0..n /\ i - 1 \in 0..n
    BY <1>1
  <1> DEFINE P == {k \in 0..n : PlacedWell(F[k], list, k)}
  <1>4. PlacedWell(NonePlaced, list, 0)
    <2>1. AllOf(list, 0) = {} /\ 1..0 = {} /\ ToSet(<<>>) = {} /\ DOMAIN <<>> = {}
      BY DEF AllOf, ToSet
    <2>2. IsInjective(<<>>)
      BY DEF IsInjective
    <2> QED BY <2>1, <2>2 DEF PlacedWell, NonePlaced
  <1>5. 0 \in P
    BY <1>2, <1>3, <1>4 DEF PlacedSteps
  <1>6. ASSUME NEW k \in 1..n, k - 1 \in P PROVE k \in P
    <2>1. PlacedWell(F[k - 1], list, k - 1) /\ F[k - 1] \in PlacedOf
      BY <1>2, <1>3, <1>6
    <2>2. F[k] = Placed(F[k - 1], list[k])
      BY <1>2 DEF PlacedSteps
    <2> HIDE DEF n
    <2>3. PlacedWell(Placed(F[k - 1], list[k]), list, k)
      BY <2>1, PlacedWellStep DEF n
    <2> QED BY <1>3, <2>2, <2>3
  <1> HIDE DEF P
  <1>7. Climbs(P, n)
    BY <1>6 DEF Climbs
  <1>8. 0..n \subseteq P
    BY <1>1, <1>5, <1>7, UpTo
  <1>9. PlacedWell(F[n], list, n)
    BY <1>3, <1>8 DEF P
  <1> QED BY <1>2, <1>3, <1>9 DEF PlacedSteps

\* Behind the last span stand the applications of no group.
LEMMA GroupsPlaced == ASSUME ListsInv, here \in Site PROVE GroupsStandTogether
  <1> DEFINE C == Configured[here]
             p == FoldLeft(Placed, NonePlaced, sidebar)
             o == p.ordered
             n == Len(sidebar)
             loose == C \ ToSet(o)
             rest == SetToSeq(loose)
             placed == OrderByGroup(sidebar)
             earlier(i) == UNION {ToSet(sidebar[j].apps) : j \in 1..(i - 1)}
             span(g) == {s \in ToSet(placed.spans) : s.id = g.id}
             stand(s) == {placed.ordered[i] : i \in s.from .. s.to}
  <1>1. sidebar \in Seq(GroupOf) /\ OfTheirOwn(sidebar) /\ IsFiniteSet(C) /\ C \subseteq App
    BY GroupsAssumption DEF ListsInv, ScreenListed
  <1>2. p \in PlacedOf /\ PlacedWell(p, sidebar, n)
    BY <1>1, PlacedHolds
  <1>3. placed = [p EXCEPT !.ordered = @ \o rest]
    BY DEF OrderByGroup, NonePlaced
  <1> HIDE DEF C, p, placed
  <1>4. o \in Seq(App) /\ p.spans \in Seq(SpanOf)
    BY <1>2 DEF PlacedOf
  <1>5. placed.ordered = o \o rest /\ placed.spans = p.spans
    BY <1>2, <1>3 DEF PlacedOf
  <1>6. rest \in Seq(App) /\ IsInjective(rest) /\ ToSet(rest) = loose
    <2>1. IsFiniteSet(loose) /\ loose \subseteq App
      BY <1>1, FS_Subset
    <2> HIDE DEF loose
    <2>2. rest \in Seq(loose) /\ IsInjective(rest) /\ ToSet(rest) = loose
      BY <2>1, SetInOrder
    <2> QED BY <2>1, <2>2
  <1> HIDE DEF o, rest
  <1>7. IsInjective(o) /\ ToSet(o) = AllOf(sidebar, n) \cap C
    BY <1>2 DEF PlacedWell, C, o
  <1>8. ToSet(placed.ordered) = C
    <2>1. ToSet(placed.ordered) = ToSet(o) \cup loose
      BY <1>4, <1>5, <1>6, Joined
    <2> QED BY <1>7, <2>1
  <1>9. IsInjective(placed.ordered)
    <2>1. ToSet(o) \cap ToSet(rest) = {}
      BY <1>6
    <2> QED BY <1>4, <1>5, <1>6, <1>7, <2>1, Joined
  <1>10. ASSUME NEW s \in ToSet(p.spans)
         PROVE  /\ s \in SpanOf /\ stand(s) = Stand(o, s)
                /\ \E i \in 1..n : s.id = sidebar[i].id /\ Stand(o, s) = Mine(sidebar, i)
    <2>1. PICK x \in DOMAIN p.spans : s = p.spans[x]
      BY DEF ToSet
    <2>2. s \in SpanOf
      BY <1>4, <2>1
    <2>3. Within(o, s) /\ \E i \in 1..n : s.id = sidebar[i].id /\ Stand(o, s) = Mine(sidebar, i)
      BY <1>2, <2>1 DEF PlacedWell, o
    <2>4. Stand(o \o rest, s) = Stand(o, s)
      BY <1>4, <1>6, <2>2, <2>3, StandsStill
    <2> QED BY <1>5, <2>2, <2>3, <2>4 DEF Stand
  <1>11. ASSUME NEW i \in DOMAIN sidebar
         PROVE  UNION {stand(s) : s \in span(sidebar[i])}
                  = (ToSet(sidebar[i].apps) \cap C) \ earlier(i)
    <2>1. (ToSet(sidebar[i].apps) \cap C) \ earlier(i) = Mine(sidebar, i)
      BY DEF Mine, AllOf, C
    <2>2. DOMAIN sidebar = 1..n /\ i \in 1..n
      BY <1>1
    <2> HIDE DEF stand, n
    <2>3. ASSUME NEW s \in ToSet(p.spans), s.id = sidebar[i].id PROVE stand(s) = Mine(sidebar, i)
      <3>1. PICK k \in 1..n : s.id = sidebar[k].id /\ stand(s) = Mine(sidebar, k)
        BY <1>10
      <3>2. k = i
        BY <1>1, <2>2, <2>3, <3>1 DEF OfTheirOwn
      <3> QED BY <3>1, <3>2
    <2>4. ASSUME Mine(sidebar, i) # {} PROVE \E s \in ToSet(p.spans) : s.id = sidebar[i].id
      <3>1. PICK x \in DOMAIN p.spans : p.spans[x].id = sidebar[i].id
        BY <1>2, <2>2, <2>4 DEF PlacedWell, n
      <3> QED BY <3>1 DEF ToSet
    <2> QED BY <1>5, <2>1, <2>3, <2>4
  <1>12. ASSUME NEW i \in DOMAIN placed.ordered, placed.spans # <<>>,
                i >= FirstUngrouped(placed.spans), NEW g \in ToSet(sidebar)
         PROVE  placed.ordered[i] \notin ToSet(g.apps)
    <2>1. FirstUngrouped(placed.spans) = Len(o) + 1
      BY <1>2, <1>5, <1>12 DEF FirstUngrouped, PlacedWell, o
    <2>2. /\ Len(o) \in Nat /\ Len(rest) \in Nat /\ DOMAIN rest = 1..Len(rest)
          /\ DOMAIN placed.ordered = 1..(Len(o) + Len(rest))
          /\ \A k \in 1..Len(rest) : placed.ordered[Len(o) + k] = rest[k]
      BY <1>4, <1>5, <1>6, Joined
    <2>3. i - Len(o) \in 1..Len(rest) /\ i = Len(o) + (i - Len(o))
      BY <1>12, <2>1, <2>2
    <2>4. placed.ordered[i] \in ToSet(rest)
      BY <2>2, <2>3 DEF ToSet
    <2>5. placed.ordered[i] \in C /\ placed.ordered[i] \notin AllOf(sidebar, n)
      BY <1>6, <1>7, <2>4
    <2>6. ToSet(g.apps) \subseteq AllOf(sidebar, n)
      <3>1. PICK k \in DOMAIN sidebar : g = sidebar[k]
        BY DEF ToSet
      <3>2. k \in 1..n
        BY <1>1
      <3> QED BY <3>1, <3>2 DEF AllOf
    <2> QED BY <2>5, <2>6
  <1> QED BY <1>8, <1>9, <1>11, <1>12 DEF GroupsStandTogether, placed, C

\* Whatever the operators and the other consoles did to the groups, every application
\* has one place on the stage and every group its members side by side, but for those
\* an earlier group took; the ungrouped stand behind (descent-layout.ts: orderByGroup).
THEOREM GroupsAlwaysStandTogether == GroupsSpec => []GroupsStandTogether
  <1>1. ASSUME ListsInv, MigrationInv PROVE GroupsStandTogether
    BY <1>1, GroupsPlaced DEF MigrationInv, OneLoop
  <1> QED BY <1>1, GroupsInitFits, GroupsInitLists, GroupsNextFits, GroupsNextLists, PTL
          DEF GroupsSpec

-----------------------------------------------------------------------------
(* An application's spoke                                                  *)

RowView == [version : 0..MaxBuilds, gate : BOOLEAN]

\* Further in, no ring holds a newer version; nor does a cached answer say so.
HeldFalls == \A r, q \in wired : r <= q => held[q].cur <= held[r].cur
RowsFall(views) == \A r, q \in wired : r <= q => views[q].version <= views[r].version

\* As long as nothing strayed, the answer under way has read what is held.
StraightRings ==
    /\ HeldFalls
    /\ \A r \in DOMAIN reading : reading[r].version = held[r].cur
    /\ seenRings # <<>> => RowsFall(seenRings)

SpokeInv == SpokeTypeOK /\ (strays = {} => StraightRings)

LEMMA EmptyAnswer == <<>> \in [1..0 -> RowView] /\ DOMAIN <<>> = {}
  OBVIOUS

LEMMA SpokeInitFits == ASSUME SpokeInit PROVE SpokeInv
  <1>1. 0 \in 0..(Depth - 1) /\ 0 \in 0..MaxTurns /\ 0 \in 0..MaxBuilds
    BY SpokeAssumption
  <1>2. \E n \in 0..(Depth - 1) : reading \in [1..n -> RowView]
    BY <1>1, EmptyAnswer DEF SpokeInit
  <1>3. SpokeTypeOK
    BY <1>1, <1>2 DEF SpokeInit, SpokeTypeOK, NoBuild, RowView
  <1>4. StraightRings
    BY EmptyAnswer DEF SpokeInit, StraightRings, HeldFalls, NoBuild
  <1> QED BY <1>3, <1>4 DEF SpokeInv

\* A ring takes a version: if that is none of the strays, the version is at most
\* what the rings before it hold and at least what the rings after it do.
LEMMA DeployFits ==
    ASSUME SpokeInv, NEW r \in wired, NEW v \in 0..MaxBuilds,
           NEW stray \in SUBSET {"seed", "rollback"}, Turn, Deploy(r, v, stray),
           strays = {} /\ stray = {} =>
               \A q \in wired : /\ q < r => v <= held[q].cur
                                /\ q > r => held[q].cur <= v
    PROVE  SpokeInv'
  <1>1. /\ held' = [held EXCEPT ![r] = [cur |-> v, prev |-> @.cur]]
        /\ strays' = strays \cup stray \cup (IF r \in DOMAIN reading THEN {"torn"} ELSE {})
        /\ UNCHANGED <<wired, shut, reading, seenRings>>
    BY DEF Deploy
  <1>2. turns' \in 0..MaxTurns
    BY SpokeAssumption DEF SpokeInv, SpokeTypeOK, Turn
  <1>3. r \in Ring /\ wired \subseteq Ring
        /\ held \in [Ring -> [cur : 0..MaxBuilds, prev : 0..MaxBuilds]]
    BY DEF SpokeInv, SpokeTypeOK
  <1>4. /\ held' \in [Ring -> [cur : 0..MaxBuilds, prev : 0..MaxBuilds]]
        /\ held'[r].cur = v /\ \A q \in Ring : q # r => held'[q] = held[q]
    BY <1>1, <1>3
  <1>5. SpokeTypeOK'
    BY <1>1, <1>2, <1>4 DEF SpokeInv, SpokeTypeOK
  <1>6. ASSUME strays' = {} PROVE StraightRings'
    <2>1. strays = {} /\ stray = {} /\ r \notin DOMAIN reading
      BY <1>1, <1>6
    <2>2. HeldFalls'
      <3> SUFFICES ASSUME NEW p \in wired, NEW q \in wired, p <= q
                   PROVE  held'[q].cur <= held'[p].cur
        BY <1>1 DEF HeldFalls
      <3>1. p \in Nat /\ q \in Nat /\ r \in Nat /\ v \in Nat /\ p \in Ring /\ q \in Ring
        BY <1>3, SpokeAssumption DEF Ring
      <3>2. CASE p = q
        BY <3>2, <1>4, <3>1, SpokeAssumption
      <3>3. CASE p # q /\ q = r
        BY <3>1, <3>3, <1>4, <2>1
      <3>4. CASE p # q /\ p = r
        BY <3>1, <3>4, <1>4, <2>1
      <3>5. CASE p # r /\ q # r
        BY <3>1, <3>5, <1>4, <2>1 DEF SpokeInv, StraightRings, HeldFalls
      <3> QED BY <3>2, <3>3, <3>4, <3>5
    <2>3. \A q \in DOMAIN reading' : reading'[q].version = held'[q].cur
      <3>1. \A q \in DOMAIN reading : q \in Ring
        BY SpokeAssumption DEF SpokeInv, SpokeTypeOK, Ring
      <3> QED BY <1>1, <1>4, <2>1, <3>1 DEF SpokeInv, StraightRings
    <2> QED BY <1>1, <2>1, <2>2, <2>3 DEF SpokeInv, StraightRings, RowsFall
  <1> QED BY <1>5, <1>6 DEF SpokeInv

LEMMA SeedRingFits ==
    ASSUME SpokeInv, NEW r \in wired, NEW v \in 1..MaxBuilds, SeedRing(r, v)
    PROVE  SpokeInv'
  <1> DEFINE stray == IF r = EntryRing /\ \A w \in Deployed : w <= v THEN {} ELSE {"seed"}
  <1>1. Turn /\ Deploy(r, v, stray) /\ stray \in SUBSET {"seed", "rollback"} /\ v \in 0..MaxBuilds
    BY SpokeAssumption DEF SeedRing
  <1>2. ASSUME stray = {}, NEW q \in wired
        PROVE  (q < r => v <= held[q].cur) /\ (q > r => held[q].cur <= v)
    <2>1. r = Min(wired) /\ \A w \in Deployed : w <= v
      BY <1>2 DEF EntryRing
    <2>2. wired \subseteq Nat /\ q \in Nat /\ r \in Nat /\ held[q].cur \in 0..MaxBuilds
      BY SpokeAssumption DEF SpokeInv, SpokeTypeOK, Ring
    <2>3. r <= q
      BY <2>1, <2>2, LeastExists
    <2>4. held[q].cur <= v
      BY <2>1, <2>2, <1>1, SpokeAssumption DEF Deployed, Holding, NoBuild
    <2> QED BY <2>2, <2>3, <2>4
  <1> HIDE DEF stray
  <1> QED BY <1>1, <1>2, DeployFits

LEMMA PromoteRingFits ==
    ASSUME SpokeInv, NEW r \in wired, PromoteRing(r)
    PROVE  SpokeInv'
  <1> DEFINE v == held[r].cur
  <1>1. r + 1 \in wired /\ Turn /\ Deploy(r + 1, v, {})
    BY DEF PromoteRing
  <1>2. v \in 0..MaxBuilds /\ wired \subseteq Nat /\ r \in Nat
    BY SpokeAssumption DEF SpokeInv, SpokeTypeOK, Ring
  <1>3. ASSUME strays = {}, NEW q \in wired
        PROVE  (q < r + 1 => v <= held[q].cur) /\ (q > r + 1 => held[q].cur <= v)
    BY <1>2, <1>3 DEF SpokeInv, StraightRings, HeldFalls
  <1> HIDE DEF v
  <1> QED BY <1>1, <1>2, <1>3, DeployFits

LEMMA RollbackRingFits ==
    ASSUME SpokeInv, NEW r \in wired, RollbackRing(r)
    PROVE  SpokeInv'
  <1>1. held[r].prev \in 0..MaxBuilds
    BY DEF SpokeInv, SpokeTypeOK
  <1> QED BY <1>1, DeployFits DEF RollbackRing

LEMMA TurnGateFits ==
    ASSUME SpokeInv, NEW r \in wired, TurnGate(r)
    PROVE  SpokeInv'
  <1>1. turns' \in 0..MaxTurns
    BY SpokeAssumption DEF SpokeInv, SpokeTypeOK, TurnGate, Turn
  <1>2. shut' \in SUBSET Ring
    BY DEF SpokeInv, SpokeTypeOK, TurnGate
  <1> QED BY <1>1, <1>2
          DEF SpokeInv, SpokeTypeOK, StraightRings, HeldFalls, RowsFall, TurnGate

\* Reading a row, the answer learns what the ring holds at that moment.
LEMMA ReadRowFits == ASSUME SpokeInv, ReadRow PROVE SpokeInv'
  <1>1. PICK n \in 0..(Depth - 1) : reading \in [1..n -> RowView]
    BY DEF SpokeInv, SpokeTypeOK, RowView
  <1>2. Cardinality(DOMAIN reading) = n /\ n \in Nat /\ Depth \in Nat
    BY <1>1, FS_Interval, SpokeAssumption
  <1>3. /\ n + 1 < Depth
        /\ reading' = [r \in 1..(n + 1) |-> IF r < n + 1 THEN reading[r] ELSE Row(r)]
        /\ UNCHANGED <<wired, held, shut, seenRings, strays, turns>>
    BY <1>2 DEF ReadRow
  <1>4. \A r \in Ring : Row(r) \in RowView /\ Row(r).version = held[r].cur
    BY DEF SpokeInv, SpokeTypeOK, Row, RowView
  <1>5. \A r \in 1..(n + 1) : /\ r \in Ring /\ reading'[r] \in RowView
                              /\ reading'[r] = IF r < n + 1 THEN reading[r] ELSE Row(r)
                              /\ r < n + 1 => r \in DOMAIN reading
    BY <1>1, <1>2, <1>3, <1>4 DEF Ring
  <1>6. reading' \in [1..(n + 1) -> RowView] /\ n + 1 \in 0..(Depth - 1)
    BY <1>2, <1>3, <1>5
  <1>7. SpokeTypeOK'
    BY <1>3, <1>6 DEF SpokeInv, SpokeTypeOK, RowView
  <1>8. strays = {} => StraightRings'
    BY <1>3, <1>4, <1>5 DEF SpokeInv, StraightRings, HeldFalls, RowsFall
  <1> QED BY <1>3, <1>7, <1>8 DEF SpokeInv

LEMMA RingsAnsweredFits == ASSUME SpokeInv, RingsAnswered PROVE SpokeInv'
  <1>1. PICK n \in 0..(Depth - 1) : reading \in [1..n -> RowView]
    BY DEF SpokeInv, SpokeTypeOK, RowView
  <1>2. Cardinality(DOMAIN reading) = n /\ n \in Nat /\ Depth \in Nat
    BY <1>1, FS_Interval, SpokeAssumption
  <1>3. /\ n = Depth - 1 /\ reading' = <<>>
        /\ seenRings' = [r \in Ring |-> IF r < Depth THEN reading[r] ELSE Row(r)]
        /\ UNCHANGED <<wired, held, shut, strays, turns>>
    BY <1>2 DEF RingsAnswered
  <1>4. \A r \in Ring : Row(r) \in RowView /\ Row(r).version = held[r].cur
    BY DEF SpokeInv, SpokeTypeOK, Row, RowView
  <1>5. \A r \in Ring : /\ seenRings'[r] \in RowView
                        /\ seenRings'[r] = IF r < Depth THEN reading[r] ELSE Row(r)
                        /\ r < Depth => r \in DOMAIN reading
    BY <1>1, <1>2, <1>3, <1>4 DEF Ring
  <1>6. seenRings' \in [Ring -> RowView]
    BY <1>3, <1>5
  <1>7. \E i \in 0..(Depth - 1) : reading' \in [1..i -> RowView]
    BY SMTT(40), <1>2, <1>3, EmptyAnswer
  <1>8. SpokeTypeOK'
    BY <1>3, <1>6, <1>7 DEF SpokeInv, SpokeTypeOK, RowView
  <1>9. strays = {} => StraightRings'
    <2> SUFFICES ASSUME strays = {} PROVE StraightRings'
      OBVIOUS
    <2>1. \A r \in Ring : seenRings'[r].version = held[r].cur
      BY <1>4, <1>5 DEF SpokeInv, StraightRings
    <2> QED BY <1>3, <2>1, EmptyAnswer
            DEF SpokeInv, SpokeTypeOK, StraightRings, HeldFalls, RowsFall
  <1> QED BY <1>3, <1>8, <1>9 DEF SpokeInv

LEMMA SpokeNextFits == ASSUME SpokeInv, [SpokeNext]_spokeVars PROVE SpokeInv'
  <1>1. CASE UNCHANGED spokeVars
    BY <1>1 DEF SpokeInv, SpokeTypeOK, StraightRings, HeldFalls, RowsFall, spokeVars
  <1> QED BY <1>1, SeedRingFits, PromoteRingFits, RollbackRingFits, TurnGateFits,
             ReadRowFits, RingsAnsweredFits DEF SpokeNext

LEMMA SpokeInvAlways == SpokeSpec => []SpokeInv
  BY SpokeInitFits, SpokeNextFits, PTL DEF SpokeSpec

\* The rings, the answer under way and the cached one keep their types.
THEOREM SpokeTypeCorrect == SpokeSpec => []SpokeTypeOK
  <1>1. SpokeInv => SpokeTypeOK
    BY DEF SpokeInv
  <1> QED BY <1>1, SpokeInvAlways, PTL

-----------------------------------------------------------------------------
(* What is drawn of views that fall                                         *)

\* The configured rings further in than the frontier.
Beyond(views) == {r \in Ring : r > BuildSpoke(views).frontier /\ NodeState(views, r) # "off"}

\* The frontier is the innermost ring that holds the version taken for the newest,
\* which is that of the outermost ring that holds any.
LEMMA FrontierHolds ==
    ASSUME SpokeTypeOK, NEW views \in [Ring -> RowView]
    PROVE  LET newest == BuildSpoke(views).newest
               frontier == BuildSpoke(views).frontier
           IN  /\ newest \in Nat /\ frontier \in Nat
               /\ frontier = Nowhere <=> newest = NoBuild
               /\ frontier # Nowhere => /\ frontier \in wired
                                        /\ views[frontier].version = newest
               /\ \A r \in wired : /\ newest = NoBuild => views[r].version = NoBuild
                                   /\ newest # NoBuild /\ views[r].version = newest
                                        => r <= frontier
               /\ newest # NoBuild =>
                    \E m \in wired : /\ views[m].version = newest
                                     /\ \A r \in wired : views[r].version # NoBuild => m <= r
  <1> DEFINE S == OnSpoke(views)
             newest == IF S = {} THEN NoBuild ELSE views[Min(S)].version
             F == {r \in S : views[r].version = newest}
             frontier == Max(F \cup {Nowhere})
  <1>1. BuildSpoke(views).newest = newest /\ BuildSpoke(views).frontier = frontier
    BY DEF BuildSpoke
  <1>2. /\ Depth \in Nat /\ wired \subseteq Ring
        /\ \A r \in Ring : views[r].version \in Nat /\ r \in Nat /\ r # 0 /\ r \in 0..Depth
    BY SpokeAssumption DEF SpokeTypeOK, RowView, Ring
  <1>3. S = {r \in wired : views[r].version # NoBuild}
    BY <1>2 DEF OnSpoke, NodeState
  <1> HIDE DEF S
  <1>4. S # {} => Min(S) \in S /\ \A r \in S : Min(S) <= r
    BY <1>2, <1>3, LeastExists
  <1>5. newest \in Nat /\ (newest = NoBuild <=> S = {})
    BY <1>2, <1>3, <1>4 DEF NoBuild
  <1>6. S # {} => newest = views[Min(S)].version
    OBVIOUS
  <1>7. newest # NoBuild => Min(S) \in F
    BY <1>4, <1>5
  <1> HIDE DEF newest
  <1>8. F \cup {Nowhere} \subseteq 0..Depth
    BY <1>2, <1>3 DEF Nowhere
  <1>9. frontier \in F \cup {Nowhere} /\ \A r \in F : r <= frontier
    <2> HIDE DEF F
    <2> QED BY <1>2, <1>8, GreatestExists
  <1> HIDE DEF frontier
  <1>10. frontier # Nowhere <=> frontier \in F
    BY <1>2, <1>3, <1>9 DEF Nowhere
  <1>11. frontier = Nowhere <=> newest = NoBuild
    <2>1. CASE newest = NoBuild
      BY <2>1, <1>5, <1>10
    <2>2. CASE newest # NoBuild
      <3>1. Min(S) <= frontier /\ Min(S) \in Nat /\ Min(S) # 0
        BY <2>2, <1>2, <1>3, <1>7, <1>9
      <3> QED BY <2>2, <3>1 DEF Nowhere
    <2> QED BY <2>1, <2>2
  <1>12. frontier \in Nat
    BY <1>2, <1>3, <1>9 DEF Nowhere
  <1>13. frontier # Nowhere => frontier \in wired /\ views[frontier].version = newest
    BY <1>3, <1>10
  <1>14. ASSUME NEW r \in wired
         PROVE  /\ newest = NoBuild => views[r].version = NoBuild
                /\ newest # NoBuild /\ views[r].version = newest => r <= frontier
    BY <1>3, <1>5, <1>9
  <1>15. newest # NoBuild =>
           \E m \in wired : /\ views[m].version = newest
                            /\ \A r \in wired : views[r].version # NoBuild => m <= r
    BY <1>3, <1>4, <1>5, <1>6
  <1> QED BY <1>1, <1>5, <1>11, <1>12, <1>13, <1>14, <1>15

\* Of views that fall, the frontier parts the configured rings: those up to it hold
\* the newest version, and none is newer.
LEMMA FrontierParts ==
    ASSUME SpokeTypeOK, NEW views \in [Ring -> RowView], RowsFall(views), NEW r \in wired
    PROVE  LET newest == BuildSpoke(views).newest
               frontier == BuildSpoke(views).frontier
           IN  /\ views[r].version <= newest
               /\ frontier # Nowhere /\ r <= frontier => views[r].version = newest
  <1> DEFINE newest == BuildSpoke(views).newest
             frontier == BuildSpoke(views).frontier
  <1>1. /\ newest \in Nat /\ frontier \in Nat
        /\ frontier = Nowhere <=> newest = NoBuild
        /\ frontier # Nowhere => frontier \in wired /\ views[frontier].version = newest
        /\ newest = NoBuild => views[r].version = NoBuild
        /\ newest # NoBuild =>
             \E m \in wired : /\ views[m].version = newest
                              /\ \A q \in wired : views[q].version # NoBuild => m <= q
    BY FrontierHolds
  <1> HIDE DEF newest, frontier
  <1>2. views[r].version \in Nat /\ r \in Nat
    BY SpokeAssumption DEF SpokeTypeOK, RowView, Ring
  <1>3. views[r].version <= newest
    BY <1>1, <1>2 DEF RowsFall, NoBuild
  <1>4. ASSUME frontier # Nowhere, r <= frontier PROVE views[r].version = newest
    <2>1. newest <= views[r].version
      BY <1>1, <1>4 DEF RowsFall
    <2> QED BY <1>1, <1>2, <1>3, <2>1
  <1> QED BY <1>3, <1>4 DEF newest, frontier

\* The drawn spoke, the card and the count of live applications agree on every
\* answer, for any rings, seeds, rollbacks and torn reads; and they tell of the newest
\* version as long as every version entered at the first ring, newer than all, went on
\* by promotion and was read in one moment (descent-layout.ts: buildSpoke).
THEOREM SpokeAlwaysTrue == SpokeSpec => []SpokeTellsTheTruth
  <1>1. ASSUME SpokeInv, seenRings # <<>> PROVE SpokeTellsTheTruth
    <2> DEFINE views == seenRings
               spoke == BuildSpoke(views)
               after == Beyond(views)
               cards == CardRows(views, spoke)
               picture == Drawn(views, spoke)
               next == picture.comet
    <2>1. SpokeTypeOK /\ views \in [Ring -> RowView]
      BY <1>1 DEF SpokeInv, SpokeTypeOK, RowView
    <2>2. /\ spoke.newest \in Nat /\ spoke.frontier \in Nat
          /\ spoke.frontier = Nowhere <=> spoke.newest = NoBuild
          /\ spoke.frontier # Nowhere => /\ spoke.frontier \in wired
                                         /\ views[spoke.frontier].version = spoke.newest
          /\ \A r \in wired : spoke.newest # NoBuild /\ views[r].version = spoke.newest
                                => r <= spoke.frontier
      BY <2>1, FrontierHolds
    <2>14. strays = {} => \A r \in wired :
             /\ views[r].version <= spoke.newest
             /\ spoke.frontier # Nowhere /\ r <= spoke.frontier
                  => views[r].version = spoke.newest
      BY <1>1, <2>1, FrontierParts DEF SpokeInv, StraightRings
    <2>3. /\ Depth \in Nat /\ wired \subseteq Ring
          /\ \A r \in Ring : r \in Nat /\ r # 0 /\ r \in 0..Depth
      BY <2>1, SpokeAssumption DEF SpokeTypeOK, Ring
    <2>4. /\ after = {r \in wired : r > spoke.frontier}
          /\ {o \in Ring : NodeState(views, o) # "off"} = wired
      BY <2>3 DEF Beyond, NodeState
    <2>5. after # {} => Min(after) \in after
      BY <2>3, <2>4, LeastExists
    <2>6. next = IF spoke.frontier = Nowhere \/ after = {} THEN Nowhere ELSE Min(after)
      BY DEF Drawn, NextOnSpoke, Beyond
    <2>7. spoke.gateAt = IF spoke.frontier # Nowhere /\ after # {} /\ views[Min(after)].gate
                         THEN Min(after) ELSE Nowhere
      BY DEF BuildSpoke, Beyond
    <2>8. picture.trail = 1..spoke.frontier /\ picture.bar = spoke.gateAt
      BY DEF Drawn
    <2>9. ASSUME NEW r \in wired
          PROVE  /\ picture.circle[r] = IF views[r].version = NoBuild THEN "dot"
                                      ELSE IF views[r].version = spoke.newest THEN "filled"
                                      ELSE "outlined"
                 /\ cards[r].version = views[r].version /\ cards[r].closed = views[r].gate
                 /\ cards[r].older <=> views[r].version \notin {NoBuild, spoke.newest}
      <3>1. NodeState(views, r) = IF views[r].version = NoBuild THEN "empty" ELSE "deployed"
        BY <2>3 DEF NodeState
      <3> HIDE DEF spoke
      <3>2. picture.circle[r] = IF views[r].version = NoBuild THEN "dot"
                              ELSE IF views[r].version = spoke.newest THEN "filled"
                              ELSE "outlined"
        BY <2>4, <3>1 DEF Drawn
      <3>3. /\ cards[r].version = views[r].version /\ cards[r].closed = views[r].gate
            /\ cards[r].older <=> views[r].version \notin {NoBuild, spoke.newest}
        BY <2>4 DEF CardRows
      <3> QED BY <3>2, <3>3
    <2>10. InProduction(views) <=> spoke.frontier # Nowhere /\ next = Nowhere
      BY DEF InProduction, Drawn
    <2> HIDE DEF spoke, after, cards, picture
    <2>11. ASSUME NEW r \in wired
           PROVE  /\ picture.circle[r] = "filled" => r \in picture.trail
                  /\ cards[r].older <=> picture.circle[r] = "outlined"
                  /\ strays = {} => /\ r \in picture.trail => picture.circle[r] = "filled"
                                    /\ cards[r].version <= spoke.newest
      <3>1. r \in Nat /\ r # 0 /\ (r \in picture.trail <=> r <= spoke.frontier)
        BY <2>2, <2>3, <2>8
      <3>2. picture.circle[r] = "filled" => r \in picture.trail
        BY <2>2, <2>9, <3>1
      <3>3. cards[r].older <=> picture.circle[r] = "outlined"
        BY <2>9
      <3>4. ASSUME strays = {}, r \in picture.trail PROVE picture.circle[r] = "filled"
        <4>1. spoke.frontier # Nowhere /\ views[r].version = spoke.newest
          BY <2>2, <2>14, <3>1, <3>4 DEF Nowhere
        <4> QED BY <4>1, <2>2, <2>9
      <3> QED BY <2>9, <2>14, <3>2, <3>3, <3>4
    <2>12. picture.bar = IF next # Nowhere /\ cards[next].closed THEN next ELSE Nowhere
      <3>1. CASE spoke.frontier = Nowhere \/ after = {}
        BY <3>1, <2>6, <2>7, <2>8
      <3>2. CASE spoke.frontier # Nowhere /\ after # {}
        <4>1. next = Min(after) /\ Min(after) \in wired /\ Min(after) # Nowhere
          BY <3>2, <2>3, <2>4, <2>5, <2>6 DEF Nowhere
        <4> QED BY <3>2, <4>1, <2>7, <2>8, <2>9
      <3> QED BY <3>1, <3>2
    <2>13. InProduction(views) <=> /\ wired # {} /\ spoke.newest # NoBuild
                                  /\ cards[Max(wired)].version = spoke.newest
      <3>1. InProduction(views) <=> spoke.frontier # Nowhere /\ after = {}
        <4>1. after # {} => Min(after) # Nowhere
          BY <2>3, <2>4, <2>5 DEF Nowhere
        <4> QED BY <4>1, <2>6, <2>10
      <3>2. wired # {} => Max(wired) \in wired /\ \A r \in wired : r <= Max(wired)
        <4>1. wired \subseteq 0..Depth
          BY <2>3
        <4> QED BY <4>1, <2>3, GreatestExists
      <3>3. ASSUME wired # {}, spoke.newest # NoBuild
            PROVE  after = {} <=> cards[Max(wired)].version = spoke.newest
        <4>1. cards[Max(wired)].version = spoke.newest <=> Max(wired) <= spoke.frontier
          <5>1. spoke.frontier \in wired /\ views[spoke.frontier].version = spoke.newest
            BY <3>3, <2>2
          <5>2. Max(wired) <= spoke.frontier => Max(wired) = spoke.frontier
            BY <3>2, <3>3, <5>1, <2>3
          <5> QED BY <3>2, <3>3, <5>1, <5>2, <2>2, <2>9
        <4>2. after = {} <=> Max(wired) <= spoke.frontier
          BY <3>2, <3>3, <2>2, <2>3, <2>4
        <4> QED BY <4>1, <4>2
      <3> QED BY <3>1, <3>3, <2>2
    <2> QED BY <2>11, <2>12, <2>13 DEF SpokeTellsTheTruth, spoke, picture, cards
  <1>2. SpokeInv => SpokeTellsTheTruth
    BY <1>1 DEF SpokeTellsTheTruth
  <1> QED BY <1>2, SpokeInvAlways, PTL

-----------------------------------------------------------------------------
(* The lights of the applications                                          *)

LightView == [configured : BOOLEAN, version : BOOLEAN, healthy : BOOLEAN]

LEMMA LightsInitFits == ASSUME LightsInit PROVE LightsTypeOK
  <1>1. /\ fitted \in [App -> SUBSET Slot] /\ well \in [App -> SUBSET Slot]
        /\ stocked \in [App -> SUBSET Slot]
    BY LightsAssumption DEF LightsInit
  <1>2. news \in 0..MaxNews
    BY StripAssumption DEF LightsInit
  <1> QED BY <1>1, <1>2 DEF LightsInit, LightsTypeOK

LEMMA LightsNextFits == ASSUME LightsTypeOK, [LightsNext]_lightsVars PROVE LightsTypeOK'
  <1> USE DEF LightsTypeOK
  <1>1. ASSUME News PROVE news' \in 0..MaxNews /\ UNCHANGED <<rows, running>>
    BY <1>1, StripAssumption DEF News
  <1>2. ASSUME NEW a \in App, JobBegins(a) PROVE LightsTypeOK'
    BY <1>1, <1>2 DEF JobBegins
  <1>3. ASSUME NEW a \in App, JobIsOver(a) PROVE LightsTypeOK'
    <2>1. PICK landed \in {{}} \cup {{r} : r \in fitted[a]} :
            stocked' = [stocked EXCEPT ![a] = @ \cup landed]
      BY <1>3 DEF JobIsOver
    <2>2. landed \in SUBSET Slot
      OBVIOUS
    <2>3. stocked' \in [App -> SUBSET Slot]
      BY <2>1, <2>2
    <2> QED BY <1>1, <1>3, <2>3 DEF JobIsOver
  <1>4. ASSUME NEW a \in App, ReadRings(a) PROVE LightsTypeOK'
    <2>1. RingViews(a) \in [Slot -> LightView]
      BY DEF RingViews, LightView
    <2> QED BY <1>4, <2>1 DEF ReadRings, LightView, worldVars
  <1>5. ASSUME NEW a \in App, NEW r \in Slot, HealthTurns(a, r) PROVE LightsTypeOK'
    BY <1>1, <1>5 DEF HealthTurns
  <1>6. ASSUME NEW a \in App, NEW r \in Slot, Refit(a, r) PROVE LightsTypeOK'
    BY <1>1, <1>6 DEF Refit
  <1>7. CASE ReadRunning
    BY <1>7 DEF ReadRunning, worldVars
  <1>8. CASE UNCHANGED lightsVars
    BY <1>8 DEF lightsVars, worldVars
  <1> QED BY <1>2, <1>3, <1>4, <1>5, <1>6, <1>7, <1>8 DEF LightsNext

\* What the server has, and what the pages have read of it, keeps its type.
THEOREM LightsTypeCorrect == LightsSpec => []LightsTypeOK
  BY LightsInitFits, LightsNextFits, PTL DEF LightsSpec

\* The rings of an application that count, and those of them that are well.
ActiveRings(a) == {r \in DOMAIN rows[a] : rows[a][r].configured /\ rows[a][r].version}
WellRings(a) == {r \in ActiveRings(a) : rows[a][r].healthy}

LEMMA DotsAreRings ==
    ASSUME LightsTypeOK, NEW a \in App
    PROVE  /\ ActiveRings(a) \subseteq Slot
           /\ Dots(a, "healthy") = WellRings(a)
           /\ Dots(a, "unhealthy") = ActiveRings(a) \ WellRings(a)
           /\ Pills(a, "healthy") = WellRings(a)
           /\ Pills(a, "failed") = ActiveRings(a) \ WellRings(a)
           /\ Summarize(rows[a]).active = ActiveRings(a)
           /\ Summarize(rows[a]).healthy = WellRings(a)
           /\ NothingDeployed(a) <=> ActiveRings(a) = {}
  <1>1. DOMAIN rows[a] \subseteq Slot
    <2>1. CASE rows[a] = NotAnswered
      BY <2>1, EmptyAnswer DEF NotAnswered
    <2>2. CASE rows[a] \in [Slot -> LightView]
      BY <2>2
    <2> QED BY <2>1, <2>2 DEF LightsTypeOK, LightView
  <1> USE DEF ActiveRings, WellRings
  <1>2. ActiveRings(a) \subseteq Slot
    BY <1>1
  <1>3. Dots(a, "healthy") = WellRings(a) /\ Dots(a, "unhealthy") = ActiveRings(a) \ WellRings(a)
    BY DEF Dots, RingHealth
  <1>4. Pills(a, "healthy") = WellRings(a) /\ Pills(a, "failed") = ActiveRings(a) \ WellRings(a)
    BY DEF Pills
  <1>5. Summarize(rows[a]).active = ActiveRings(a) /\ Summarize(rows[a]).healthy = WellRings(a)
    BY DEF Summarize
  <1>6. NothingDeployed(a) <=> ActiveRings(a) = {}
    BY DEF NothingDeployed
  <1> QED BY <1>2, <1>3, <1>4, <1>5, <1>6

LEMMA RingsAlwaysAgree ==
    ASSUME LightsTypeOK, NEW a \in App, rows[a] # NotAnswered
    PROVE  RingsAgree(a)
  <1> DEFINE A == ActiveRings(a)
             W == WellRings(a)
  <1>1. /\ Overview(a) = [shown |-> A # {}, of |-> Cardinality(A),
                          healthy |-> Cardinality(W), allHealthy |-> A # {} /\ W = A]
        /\ CardCount(a) = [shown |-> A # {}, of |-> Cardinality(A), healthy |-> Cardinality(W)]
    <2>1. Overview(a) = [shown |-> A # {}, of |-> Cardinality(A),
                         healthy |-> Cardinality(W), allHealthy |-> A # {} /\ W = A]
      <3>1. /\ {r \in DOMAIN rows[a] : rows[a][r].configured /\ rows[a][r].version} = A
            /\ {r \in A : rows[a][r].healthy} = W
        BY DEF ActiveRings, WellRings
      <3> HIDE DEF A, W
      <3> QED BY <3>1 DEF Overview
    <2>2. Summarize(rows[a]).active = A /\ Summarize(rows[a]).healthy = W
      BY DotsAreRings
    <2> QED BY <2>1, <2>2 DEF CardCount
  <1>2. Cardinality(A) - Cardinality(W) = Cardinality(A \ W)
    <2>1. IsFiniteSet(A) /\ W \subseteq A
      BY DotsAreRings, LightsAssumption, FS_Subset DEF WellRings
    <2> HIDE DEF A, W
    <2>2. IsFiniteSet(W) /\ IsFiniteSet(A \ W) /\ A \cap W = W
      BY <2>1, FS_Subset
    <2>3. Cardinality(A \ W) = Cardinality(A) - Cardinality(A \cap W)
      BY <2>1, <2>2, FS_Difference
    <2> QED BY <2>2, <2>3
  <1>3. a \notin running => (Status(a) = "healthy" <=> A # {} /\ W = A)
    <2>1. Summarize(rows[a]).active = A /\ Summarize(rows[a]).healthy = W
      BY DotsAreRings
    <2> HIDE DEF A, W
    <2> QED BY <2>1 DEF Status, BaseStatus
  <1>4. /\ Dots(a, "healthy") = W /\ Dots(a, "unhealthy") = A \ W
        /\ Pills(a, "healthy") = W /\ Pills(a, "failed") = A \ W
        /\ NothingDeployed(a) <=> A = {}
    BY DotsAreRings
  <1> HIDE DEF A, W
  <1> DEFINE o == Overview(a)
             c == CardCount(a)
  <1>5. /\ o.of = Cardinality(A) /\ o.healthy = Cardinality(W)
        /\ c.of = Cardinality(A) /\ c.healthy = Cardinality(W)
    BY <1>1
  <1>6. o.shown = (A # {}) /\ c.shown = (A # {}) /\ o.allHealthy = (A # {} /\ W = A)
    BY <1>1
  <1> HIDE DEF o, c
  <1>7. o.shown = ~NothingDeployed(a)
    BY <1>4, <1>6
  <1>8. a \notin running => (Status(a) = "healthy" <=> o.allHealthy)
    BY <1>3, <1>6
  <1>9. /\ c.of - c.healthy = Cardinality(Dots(a, "unhealthy"))
        /\ c.healthy = Cardinality(Dots(a, "healthy"))
    BY <1>2, <1>4, <1>5
  <1>10. /\ Dots(a, "healthy") = Pills(a, "healthy")
         /\ Dots(a, "unhealthy") = Pills(a, "failed")
         /\ o.shown = c.shown /\ o.of = c.of /\ o.healthy = c.healthy
    BY <1>4, <1>5, <1>6
  <1> QED BY <1>7, <1>8, <1>9, <1>10 DEF RingsAgree, o, c

\* The status of an application, told by its dots.
StatusTells(a) ==
    /\ Status(a) \in {"deploying", "loading", "empty", "healthy", "failed", "degraded"}
    /\ Status(a) = "deploying" <=> a \in running
    /\ Status(a) \in {"failed", "degraded"}
         <=> a \notin running /\ \E r \in Slot : r \in Dots(a, "unhealthy")
    /\ Status(a) = "failed" <=> /\ a \notin running /\ Dots(a, "healthy") = {}
                                /\ \E r \in Slot : r \in Dots(a, "unhealthy")
    /\ Status(a) \in {"healthy", "empty"} =>
         rows[a] # NotAnswered /\ (Overview(a).allHealthy \/ NothingDeployed(a))

LEMMA StatusAlwaysTells ==
    ASSUME LightsTypeOK, NEW a \in App
    PROVE  StatusTells(a)
  <1> DEFINE A == ActiveRings(a)
             W == WellRings(a)
  <1>1. /\ A \subseteq Slot /\ W \subseteq A
        /\ Dots(a, "healthy") = W /\ Dots(a, "unhealthy") = A \ W
        /\ NothingDeployed(a) <=> A = {}
    BY DotsAreRings DEF WellRings
  <1>2. Overview(a).allHealthy <=> A # {} /\ W = A
    BY DEF Overview, ActiveRings, WellRings
  <1>3. BaseStatus(a) = IF rows[a] = NotAnswered THEN "loading"
                        ELSE IF A = {} THEN "empty" ELSE IF W = A THEN "healthy"
                        ELSE IF W = {} THEN "failed" ELSE "degraded"
    <2>1. Summarize(rows[a]).active = A /\ Summarize(rows[a]).healthy = W
      BY DotsAreRings
    <2> HIDE DEF A, W
    <2> QED BY <2>1 DEF BaseStatus
  <1>4. rows[a] = NotAnswered => A = {}
    BY EmptyAnswer DEF ActiveRings, NotAnswered
  <1> HIDE DEF A, W
  <1>5. (\E r \in Slot : r \in Dots(a, "unhealthy")) <=> W # A
    BY <1>1
  <1> QED BY <1>1, <1>2, <1>3, <1>4, <1>5 DEF StatusTells, Status

\* The first of the list that is present is found.
LEMMA FirstIsFound ==
    ASSUME NEW n \in Nat, NEW priority, DOMAIN priority = 1..n, NEW statuses
    PROVE  \/ /\ FirstOf(priority, statuses) = "empty"
              /\ \A i \in 1..n : priority[i] \notin statuses
           \/ \E i \in 1..n : /\ FirstOf(priority, statuses) = priority[i]
                              /\ priority[i] \in statuses
                              /\ \A j \in 1..n : j < i => priority[j] \notin statuses
  <1> DEFINE present == {i \in DOMAIN priority : priority[i] \in statuses}
             first == CHOOSE i \in present : \A j \in present : i <= j
  <1>1. FirstOf(priority, statuses) = IF present = {} THEN "empty" ELSE priority[first]
    BY DEF FirstOf
  <1>2. present # {} => first \in present /\ \A j \in present : first <= j
    <2>1. present \subseteq Nat
      OBVIOUS
    <2> HIDE DEF present
    <2> QED BY <2>1, LeastExists
  <1>3. \A i \in 1..n : i \in present <=> priority[i] \in statuses
    OBVIOUS
  <1>4. present \subseteq 1..n
    OBVIOUS
  <1> HIDE DEF present, first
  <1>5. CASE present = {}
    BY <1>1, <1>3, <1>5
  <1>6. CASE present # {}
    <2>1. first \in 1..n /\ priority[first] \in statuses
      BY <1>2, <1>3, <1>4, <1>6
    <2>2. \A j \in 1..n : j < first => priority[j] \notin statuses
      BY <1>2, <1>3, <1>6, <2>1
    <2> QED BY <1>1, <1>6, <2>1, <2>2
  <1> QED BY <1>5, <1>6

LEMMA GroupLightFound ==
    ASSUME NEW members
    PROVE  LET all == {Status(a) : a \in members}
           IN  GroupLight(members) =
                 IF "failed" \in all THEN "failed" ELSE IF "degraded" \in all THEN "degraded"
                 ELSE IF "deploying" \in all THEN "deploying"
                 ELSE IF "loading" \in all THEN "loading"
                 ELSE IF "healthy" \in all THEN "healthy" ELSE "empty"
  <1> DEFINE all == {Status(a) : a \in members}
             priority == <<"failed", "degraded", "deploying", "loading", "healthy">>
  <1>1. GroupLight(members) = FirstOf(priority, all)
    BY DEF GroupLight
  <1>2. /\ DOMAIN priority = 1..5 /\ priority[1] = "failed" /\ priority[2] = "degraded"
        /\ priority[3] = "deploying" /\ priority[4] = "loading" /\ priority[5] = "healthy"
    OBVIOUS
  <1> HIDE DEF all, priority
  <1>3. \/ /\ FirstOf(priority, all) = "empty"
           /\ \A i \in 1..5 : priority[i] \notin all
        \/ \E i \in 1..5 : /\ FirstOf(priority, all) = priority[i]
                           /\ priority[i] \in all
                           /\ \A j \in 1..5 : j < i => priority[j] \notin all
    BY <1>2, FirstIsFound
  <1>4. 1..5 = {1, 2, 3, 4, 5}
    OBVIOUS
  <1>5. CASE \A i \in 1..5 : priority[i] \notin all
    BY <1>1, <1>2, <1>3, <1>4, <1>5 DEF all
  <1>6. ASSUME NEW i \in 1..5, FirstOf(priority, all) = priority[i], priority[i] \in all,
               \A j \in 1..5 : j < i => priority[j] \notin all
        PROVE  GroupLight(members) =
                 IF "failed" \in all THEN "failed" ELSE IF "degraded" \in all THEN "degraded"
                 ELSE IF "deploying" \in all THEN "deploying"
                 ELSE IF "loading" \in all THEN "loading"
                 ELSE IF "healthy" \in all THEN "healthy" ELSE "empty"
    BY <1>1, <1>2, <1>4, <1>6
  <1> QED BY <1>3, <1>5, <1>6 DEF all

LEMMA FleetLightFound ==
    ASSUME LightsTypeOK
    PROVE  FleetLight = GroupLight(App)
  <1> DEFINE all == {Status(a) : a \in App}
             priority == <<"failed", "degraded", "deploying", "loading", "healthy", "empty">>
  <1>1. FleetLight = FirstOf(priority, all)
    BY DEF FleetLight
  <1>2. /\ DOMAIN priority = 1..6 /\ priority[1] = "failed" /\ priority[2] = "degraded"
        /\ priority[3] = "deploying" /\ priority[4] = "loading" /\ priority[5] = "healthy"
        /\ priority[6] = "empty"
    OBVIOUS
  <1>3. GroupLight(App) =
          IF "failed" \in all THEN "failed" ELSE IF "degraded" \in all THEN "degraded"
          ELSE IF "deploying" \in all THEN "deploying"
          ELSE IF "loading" \in all THEN "loading"
          ELSE IF "healthy" \in all THEN "healthy" ELSE "empty"
    BY GroupLightFound
  <1> HIDE DEF all, priority
  <1>4. \/ /\ FirstOf(priority, all) = "empty"
           /\ \A i \in 1..6 : priority[i] \notin all
        \/ \E i \in 1..6 : /\ FirstOf(priority, all) = priority[i]
                           /\ priority[i] \in all
                           /\ \A j \in 1..6 : j < i => priority[j] \notin all
    BY <1>2, FirstIsFound
  <1>5. 1..6 = {1, 2, 3, 4, 5, 6}
    OBVIOUS
  <1>6. CASE \A i \in 1..6 : priority[i] \notin all
    BY <1>1, <1>2, <1>3, <1>4, <1>5, <1>6
  <1>7. ASSUME NEW i \in 1..6, FirstOf(priority, all) = priority[i], priority[i] \in all,
               \A j \in 1..6 : j < i => priority[j] \notin all
        PROVE  FleetLight = GroupLight(App)
    BY <1>1, <1>2, <1>3, <1>5, <1>7
  <1> QED BY <1>4, <1>6, <1>7

LEMMA LightsAreTheWorst ==
    ASSUME LightsTypeOK, NEW members \in SUBSET App
    PROVE  LightIsTheWorst(members)
  <1> DEFINE all == {Status(a) : a \in members}
             red == {a \in members \ running : \E r \in Slot : r \in Dots(a, "unhealthy")}
             light == GroupLight(members)
  <1>1. \A a \in members : StatusTells(a) /\ Status(a) \in all
    BY StatusAlwaysTells
  <1>2. \A s \in all : \E a \in members : Status(a) = s
    OBVIOUS
  <1>3. light = IF "failed" \in all THEN "failed" ELSE IF "degraded" \in all THEN "degraded"
                ELSE IF "deploying" \in all THEN "deploying"
                ELSE IF "loading" \in all THEN "loading"
                ELSE IF "healthy" \in all THEN "healthy" ELSE "empty"
    BY GroupLightFound
  <1>4. \A a \in members : a \in red <=> Status(a) \in {"failed", "degraded"}
    BY <1>1 DEF StatusTells
  <1> HIDE DEF all, light
  <1>5. light \in {"failed", "degraded"} <=> red # {}
    <2>1. light \in {"failed", "degraded"} <=> "failed" \in all \/ "degraded" \in all
      BY <1>3
    <2>2. red \subseteq members
      OBVIOUS
    <2> HIDE DEF red
    <2> QED BY <1>1, <1>2, <1>4, <2>1, <2>2
  <1>6. light = "failed" <=> Failing(members) # {}
    BY <1>1, <1>2, <1>3 DEF Failing
  <1>7. Failing(members) = {a \in red : Dots(a, "healthy") = {}}
    BY <1>1 DEF Failing, StatusTells
  <1>8. ASSUME light = "healthy", NEW a \in members
        PROVE  /\ a \notin running
               /\ rows[a] # NotAnswered /\ (Overview(a).allHealthy \/ NothingDeployed(a))
    <2>1. Status(a) \notin {"failed", "degraded", "deploying", "loading"}
      BY <1>1, <1>3, <1>8
    <2> QED BY <1>1, <2>1 DEF StatusTells
  <1> QED BY <1>5, <1>6, <1>7, <1>8 DEF LightIsTheWorst, light

-----------------------------------------------------------------------------
(* The QA strips                                                           *)

LEMMA StripInitFits == ASSUME StripInit PROVE StripTypeOK
  BY StripAssumption DEF StripInit, StripTypeOK

LEMMA StripNextFits == ASSUME StripTypeOK, [StripNext]_stripVars PROVE StripTypeOK'
  <1> USE DEF StripTypeOK
  <1>1. ASSUME NEW report \in Report, RecordQAReport(report) PROVE StripTypeOK'
    BY <1>1, StripAssumption DEF RecordQAReport
  <1>2. ASSUME NEW k \in App \cup {Everyone}, ReadStrip(k) PROVE StripTypeOK'
    <2>1. {p \in reports : k \in {p.app, Everyone}} \subseteq Report
      OBVIOUS
    <2>2. \A i \in App \cup {Everyone} : strips'[i] \subseteq Report
      BY <1>2, <2>1 DEF ReadStrip
    <2> QED BY <1>2, <2>2 DEF ReadStrip
  <1>3. CASE UNCHANGED stripVars
    BY <1>3 DEF stripVars
  <1> QED BY <1>1, <1>2, <1>3 DEF StripNext

\* The agent's reports and the strips that were read keep their types.
THEOREM StripTypeCorrect == StripSpec => []StripTypeOK
  BY StripInitFits, StripNextFits, PTL DEF StripSpec

\* What a strip says, told report by report.
LEMMA StripTells ==
    ASSUME NEW list \in SUBSET Report
    PROVE  /\ SummarizeWorkflow(list) = "no_go" <=> \E p \in list : p.said.verdict = "no_go"
           /\ SummarizeWorkflow(list) = "go"
                <=> list # {} /\ \A p \in list : p.said.verdict = "go"
           /\ SummarizeWorkflow(list) = "unknown" <=> \A p \in list : p.said.verdict = "unknown"
           /\ SummarizeEnv(list) = "down" <=> \E p \in list : p.said.env = "down"
           /\ SummarizeEnv(list) = "untold" <=> \A p \in list : p.said.env = "untold"
  <1> DEFINE verdicts == {p.said.verdict : p \in list}
             envs == {p.said.env : p \in list}
  <1>1. /\ \A p \in list : p.said.verdict \in verdicts /\ p.said.env \in envs
        /\ \A v \in verdicts : \E p \in list : p.said.verdict = v
        /\ \A e \in envs : \E p \in list : p.said.env = e
    OBVIOUS
  <1>2. /\ verdicts \subseteq {"go", "check", "no_go", "unknown"}
        /\ envs \subseteq {"up", "down", "untold"}
    BY StripAssumption DEF Report
  <1>3. SummarizeWorkflow(list) =
          IF list = {} THEN "unknown" ELSE IF "no_go" \in verdicts THEN "no_go"
          ELSE IF "check" \in verdicts THEN "check" ELSE IF verdicts = {"go"} THEN "go"
          ELSE IF "go" \in verdicts THEN "check" ELSE "unknown"
    BY DEF SummarizeWorkflow
  <1>4. SummarizeEnv(list) = IF envs \ {"untold"} = {} THEN "untold"
                             ELSE IF "down" \in envs \ {"untold"} THEN "down" ELSE "up"
    BY DEF SummarizeEnv
  <1> HIDE DEF verdicts, envs
  <1>5. verdicts = {"go"} <=> list # {} /\ \A p \in list : p.said.verdict = "go"
    BY <1>1
  <1>6. envs \ {"untold"} = {} <=> \A p \in list : p.said.env = "untold"
    BY <1>1
  <1>7. list # {} => verdicts # {}
    BY <1>1
  <1>8. SummarizeWorkflow(list) = "no_go" <=> \E p \in list : p.said.verdict = "no_go"
    BY <1>1, <1>3
  <1>9. SummarizeWorkflow(list) = "go" <=> list # {} /\ \A p \in list : p.said.verdict = "go"
    BY <1>1, <1>3, <1>5
  <1>10. SummarizeWorkflow(list) = "unknown" <=> \A p \in list : p.said.verdict = "unknown"
    <2>1. ASSUME list # {}, SummarizeWorkflow(list) = "unknown", NEW p \in list
          PROVE  p.said.verdict = "unknown"
      <3>1. "no_go" \notin verdicts /\ "check" \notin verdicts
        BY <1>3, <2>1
      <3>2. verdicts # {"go"} /\ "go" \notin verdicts
        BY <1>3, <2>1, <3>1
      <3> QED BY ZenonT(40), <1>1, <1>2, <3>1, <3>2
    <2>2. ASSUME \A p \in list : p.said.verdict = "unknown"
          PROVE  SummarizeWorkflow(list) = "unknown"
      <3>1. \A v \in verdicts : v = "unknown"
        BY <1>1, <2>2
      <3> QED BY <1>3, <3>1
    <2>3. list = {} => SummarizeWorkflow(list) = "unknown"
      BY <1>3
    <2> QED BY <2>1, <2>2, <2>3
  <1>11. SummarizeEnv(list) = "down" <=> \E p \in list : p.said.env = "down"
    BY <1>1, <1>4
  <1>12. SummarizeEnv(list) = "untold" <=> \A p \in list : p.said.env = "untold"
    BY <1>4, <1>6
  <1> QED BY <1>8, <1>9, <1>10, <1>11, <1>12

LEMMA StripsAreTheWorst == ASSUME StripTypeOK PROVE StripIsTheWorst
  <1> DEFINE told == {a \in App : ~Bar(a).waiting}
  <1>1. \A k : /\ Bar(k).workflow = SummarizeWorkflow(strips[k])
               /\ Bar(k).env = SummarizeEnv(strips[k])
               /\ ~Bar(k).waiting <=> strips[k] # {}
    BY DEF Bar
  <1>2. \A k \in App \cup {Everyone} : strips[k] \in SUBSET Report
    BY DEF StripTypeOK
  <1>3. ASSUME strips[Everyone] = UNION {strips[a] : a \in App}
        PROVE  /\ Bar(Everyone).workflow = "no_go" <=> \E a \in App : Bar(a).workflow = "no_go"
               /\ Bar(Everyone).workflow = "go"
                    <=> told # {} /\ \A a \in told : Bar(a).workflow = "go"
               /\ Bar(Everyone).workflow = "unknown" <=> \A a \in told : Bar(a).workflow = "unknown"
               /\ Bar(Everyone).env = "down" <=> \E a \in App : Bar(a).env = "down"
               /\ Bar(Everyone).env = "untold" <=> \A a \in App : Bar(a).env = "untold"
    <2>1. /\ \A a \in App : \A p \in strips[a] : p \in strips[Everyone]
          /\ \A p \in strips[Everyone] : \E a \in App : p \in strips[a]
      BY <1>3
    <2>2. \A a \in App : a \in told <=> strips[a] # {}
      BY <1>1
    <2>3. \A a \in App \cup {Everyone} :
            /\ Bar(a).workflow = "no_go" <=> \E p \in strips[a] : p.said.verdict = "no_go"
            /\ Bar(a).workflow = "go"
                 <=> strips[a] # {} /\ \A p \in strips[a] : p.said.verdict = "go"
            /\ Bar(a).workflow = "unknown" <=> \A p \in strips[a] : p.said.verdict = "unknown"
            /\ Bar(a).env = "down" <=> \E p \in strips[a] : p.said.env = "down"
            /\ Bar(a).env = "untold" <=> \A p \in strips[a] : p.said.env = "untold"
      BY <1>1, <1>2, StripTells
    <2>4. told \subseteq App
      OBVIOUS
    <2> HIDE DEF told
    <2>5. Bar(Everyone).workflow = "no_go" <=> \E a \in App : Bar(a).workflow = "no_go"
      BY <2>1, <2>3
    <2>6. Bar(Everyone).workflow = "go"
            <=> told # {} /\ \A a \in told : Bar(a).workflow = "go"
      BY <2>1, <2>2, <2>3, <2>4
    <2>7. Bar(Everyone).workflow = "unknown" <=> \A a \in told : Bar(a).workflow = "unknown"
      BY <2>1, <2>2, <2>3, <2>4
    <2>8. Bar(Everyone).env = "down" <=> \E a \in App : Bar(a).env = "down"
      BY <2>1, <2>3
    <2>9. Bar(Everyone).env = "untold" <=> \A a \in App : Bar(a).env = "untold"
      BY <2>1, <2>3
    <2> QED BY <2>5, <2>6, <2>7, <2>8, <2>9
  <1> QED BY <1>3 DEF StripIsTheWorst

\* The pages never disagree about an application's health (app-health.ts), nor the
\* QA strip of the fleet with those of the applications, for any applications and
\* rings, and however old each answer is.
THEOREM PagesAlwaysAgree == LightsSpec /\ StripSpec => []PagesAgree
  <1>1. LightsTypeOK /\ StripTypeOK => PagesAgree
    BY RingsAlwaysAgree, LightsAreTheWorst, FleetLightFound, StripsAreTheWorst DEF PagesAgree
  <1> QED BY <1>1, LightsTypeCorrect, StripTypeCorrect, PTL
=============================================================================
