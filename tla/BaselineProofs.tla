--------------------------- MODULE BaselineProofs ---------------------------
(* What Baseline promises follows from its steps, for any files and hashes: *)
(* with the refinement it holds of the daemon.                             *)
EXTENDS Baseline, TLAPS

Inv ==
    /\ rows \in [Tracked -> Values]
    /\ Current

(* A file that is not behind afterwards either settled or was not behind   *)
(* before.                                                                 *)
LEMMA SettledOrNot ==
    ASSUME Settles, NEW f \in Tracked \ behind'
    PROVE  rows'[f] = disk'[f] \/ f \in Tracked \ behind
BY DEF Settles

LEMMA InvStep ==
    ASSUME Inv, [Next]_vars
    PROVE  Inv'
<1> USE DEF Inv, Current
<1>1. CASE CatchUp
  BY <1>1, SettledOrNot DEF CatchUp
<1>2. CASE Touch
  BY <1>2 DEF Touch
<1>3. CASE LoseSight
  BY <1>3 DEF LoseSight
<1>4. ASSUME NEW f \in Tracked, NEW h \in Content, Record(f, h)
      PROVE  Inv'
  BY <1>4, SettledOrNot DEF Record
<1>5. ASSUME NEW f \in Tracked, NEW h \in Content, Adopt(f, h)
      PROVE  Inv'
  <2>1. rows' = [rows EXCEPT ![f] = h] /\ disk' = disk /\ f \in behind /\ Settles
    BY <1>5 DEF Adopt
  <2>2. ASSUME NEW g \in Tracked \ behind'
        PROVE  rows'[g] = disk'[g]
    BY <2>1, <2>2, SettledOrNot
  <2> QED
    BY <2>1, <2>2 DEF Values
<1>6. ASSUME NEW f \in Tracked, Forget(f)
      PROVE  Inv'
  <2>1. rows' = [rows EXCEPT ![f] = Nothing] /\ disk' = disk /\ f \in behind /\ Settles
    BY <1>6 DEF Forget
  <2>2. ASSUME NEW g \in Tracked \ behind'
        PROVE  rows'[g] = disk'[g]
    BY <2>1, <2>2, SettledOrNot
  <2> QED
    BY <2>1, <2>2 DEF Values
<1>7. CASE UNCHANGED vars
  BY <1>7 DEF vars
<1> QED
  BY <1>1, <1>2, <1>3, <1>4, <1>5, <1>6, <1>7 DEF Next

(* The row of a file that is not behind says what is on disk: what the     *)
(* daemon's handlers keep towards the disk, whatever the order in which    *)
(* records, rows, renames and losses of sight come.                        *)
THEOREM BaselineIsCurrent == Spec => []Current
<1>1. Init => Inv
  BY DEF Init, Inv, Current
<1>2. Inv /\ [Next]_vars => Inv'
  BY InvStep
<1>3. Inv => Current
  BY DEF Inv
<1> QED
  BY <1>1, <1>2, <1>3, PTL DEF Spec
=============================================================================
