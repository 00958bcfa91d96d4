-------------------------------- MODULE Ledger --------------------------------
(***************************************************************************)
(* What the promotion engine promises of an application's rings: actors    *)
(* take turns; nothing comes to a ring, or into its row, that an attempt   *)
(* was not written down for first; and an attempt stays written down until *)
(* it is reported, whoever dies (store.PendingOp, recovery.go, README      *)
(* "Concurrency & reliability").  Promoter implements it.                  *)
(***************************************************************************)
EXTENDS Naturals

CONSTANTS
  Ring,
  Version,
  Actor,         \* whoever can have the turn
  Nobody,
  Loose          \* rings whose build somebody else names

VARIABLES
  turn,          \* whose turn it is
  row,           \* current and previous version of each ring, as recorded
  cluster,       \* the version each ring runs
  open,          \* the attempts written down
  reported,      \* the ids of those in the history
  issued,        \* how many ids were given
  adrift         \* abandoned deploys that may still come

vars == <<turn, row, cluster, open, reported, issued, adrift>>

Attempt == [id : Nat, ring : Ring, version : Version, prev : Version]
Deploy == [ring : Ring, version : Version]

\* An attempt is written down with the version it is to bring and the version
\* to go back to; those two may come to the ring, either as the one recorded.
Written(d) ==
  \E t \in open : t.ring = d.ring /\ (d.ring \in Loose \/ d.version \in {t.version, t.prev})
Recordable(r, cur, prev) ==
  \E t \in open : /\ t.ring = r
                  /\ \/ r \in Loose
                     \/ <<cur, prev>> \in {<<t.version, t.prev>>, <<t.prev, t.version>>}

Take(a) ==
  /\ turn = Nobody
  /\ turn' = a
  /\ UNCHANGED <<row, cluster, open, reported, issued, adrift>>

Write(r, v, w) ==
  /\ turn # Nobody
  /\ issued' = issued + 1
  /\ open' = open \cup {[id |-> issued', ring |-> r, version |-> v, prev |-> w]}
  /\ UNCHANGED <<turn, row, cluster, reported, adrift>>

Ship(d) ==
  /\ turn # Nobody /\ Written(d)
  /\ cluster' = [cluster EXCEPT ![d.ring] = d.version]
  /\ UNCHANGED <<turn, row, open, reported, issued, adrift>>

\* A deploy nobody waits for any longer.
Abandon(d) ==
  /\ turn # Nobody /\ Written(d)
  /\ adrift' = adrift \cup {d}
  /\ UNCHANGED <<turn, row, cluster, open, reported, issued>>

Land(d) ==
  /\ d \in adrift
  /\ adrift' = adrift \ {d}
  /\ \E v \in Version : /\ d.ring \in Loose \/ v = d.version
                        /\ cluster' = [cluster EXCEPT ![d.ring] = v]
  /\ UNCHANGED <<turn, row, open, reported, issued>>

Record(r, cur, prev) ==
  /\ turn # Nobody /\ Recordable(r, cur, prev)
  /\ row' = [row EXCEPT ![r] = <<cur, prev>>]
  /\ UNCHANGED <<turn, cluster, open, reported, issued, adrift>>

Report(t) ==
  /\ turn # Nobody /\ t \in open
  /\ reported' = reported \cup {t.id}
  /\ UNCHANGED <<turn, row, cluster, open, issued, adrift>>

\* What was reported need not be kept; the turn may end with it.
Close(done) ==
  /\ turn # Nobody
  /\ \A t \in done : t.id \in reported
  /\ open' = open \ done
  /\ turn' \in {turn, Nobody}
  /\ UNCHANGED <<row, cluster, reported, issued, adrift>>

\* A death ends a turn, and may abandon what was being deployed.
Die ==
  /\ turn # Nobody
  /\ turn' = Nobody
  /\ \E lost \in SUBSET Deploy : /\ \A d \in lost : Written(d)
                                 /\ adrift' = adrift \cup lost
  /\ UNCHANGED <<row, cluster, open, reported, issued>>

Init ==
  /\ turn = Nobody
  /\ row \in [Ring -> Version \X Version]
  /\ cluster = [r \in Ring |-> row[r][1]]
  /\ open = {} /\ reported = {} /\ issued = 0
  /\ adrift = {}

Next ==
  \/ \E a \in Actor : Take(a)
  \/ \E r \in Ring, v, w \in Version : Write(r, v, w) \/ Record(r, v, w)
  \/ \E d \in Deploy : Ship(d) \/ Abandon(d) \/ Land(d)
  \/ \E t \in open : Report(t)
  \/ \E done \in SUBSET open : Close(done)
  \/ Die

Spec == Init /\ [][Next]_vars
=============================================================================
