------------------------- MODULE SentinelTickProofs -------------------------
(***************************************************************************)
(* The scans of SentinelTick, for any programs, rules, pids and processes  *)
(* and any order of scans, forks and exits: no process is told twice.      *)
(* Then the polls, for any lines, rotations, half-written lines and        *)
(* restarts: no login below the position is missing, and what is told is   *)
(* told in order.                                                          *)
(***************************************************************************)
EXTENDS SentinelTick, TLAPS, FiniteSetTheorems, SequenceTheorems

USE PidsAssumption

(* What the scans have alerted, recorded or about to be.                   *)
Found == spawns \o scan.alerts
IsFound(l) == \E k \in DOMAIN Found : Found[k] = l

Shapes ==
    /\ lives \in Nat
    /\ Live \subseteq Pids
    /\ scan \in [at : Nat, todo : SUBSET Pids, active : SUBSET Pids, alerts : Seq(Nat)]
    /\ spawns \in Seq(Nat)
    /\ phase = "stopped" => spawns = <<>>

(* A life has one pid, and none is found before it begins.                 *)
LivesDiffer ==
    /\ \A p \in Live : procs[p].life \in 1 .. lives
    /\ \A p, q \in Live : procs[p].life = procs[q].life => p = q
FoundHaveLived == \A k \in DOMAIN Found : Found[k] <= lives

(* While a process found before lives, its pid is not forgotten: this scan *)
(* has listed it, or has still to.                                         *)
Remembered ==
    \A p \in Live : IsFound(procs[p].life) =>
        /\ p \in alerted
        /\ p \in scan.todo \cup scan.active \/ p >= scan.at

IInv == Shapes /\ LivesDiffer /\ FoundHaveLived /\ Remembered /\ SpawnsOnce

-----------------------------------------------------------------------------
LEMMA FoundShape ==
    ASSUME Shapes
    PROVE  /\ Found \in Seq(Nat) /\ DOMAIN Found = 1 .. Len(Found) /\ Len(Found) \in Nat
           /\ \A k \in DOMAIN Found : Found[k] \in Nat
<1>1. Found \in Seq(Nat)
  BY ConcatProperties DEF Shapes, Found
<1> QED
  BY <1>1, LenProperties, ElementOfSeq

LEMMA AppendInside ==
    ASSUME NEW s \in Seq(Nat), NEW a \in Seq(Nat), NEW x \in Nat
    PROVE  s \o Append(a, x) = Append(s \o a, x)
<1>1. /\ <<x>> \in Seq(Nat) /\ s \o a \in Seq(Nat)
      /\ Append(a, x) = a \o <<x>>
  BY ConcatProperties, AppendIsConcat
<1>2. Append(s \o a, x) = (s \o a) \o <<x>>
  BY <1>1, AppendIsConcat
<1>3. (s \o a) \o <<x>> = s \o (a \o <<x>>)
  BY SMTT(30), <1>1, ConcatAssociative
<1> QED
  BY <1>1, <1>2, <1>3

(* Moving the first of one to the end of the other leaves the whole. *)
LEMMA MoveAcross ==
    ASSUME NEW s \in Seq(Nat), NEW a \in Seq(Nat), a # <<>>
    PROVE  Append(s, Head(a)) \o Tail(a) = s \o a
<1> DEFINE x == Head(a)
           t == Tail(a)
<1>1. x \in Nat /\ t \in Seq(Nat) /\ <<x>> \in Seq(Nat)
  BY HeadTailProperties
<1>2. a = <<x>> \o t
  <2>1. Len(a) \in Nat \ {0} /\ SubSeq(a, 1, Len(a)) = a /\ Head(a) = a[1]
    BY EmptySeq, LenProperties, SubSeqFull
  <2>2. SubSeq(a, 1, Len(a)) = <<a[1]>> \o SubSeq(a, 2, Len(a))
    BY <2>1, SubSeqRecursiveFirst
  <2>3. t = SubSeq(a, 2, Len(a))
    BY TailIsSubSeq
  <2> QED
    BY <2>1, <2>2, <2>3
<1> HIDE DEF x, t
<1>3. Append(s, x) = s \o <<x>>
  BY <1>1, AppendIsConcat
<1>4. (s \o <<x>>) \o t = s \o (<<x>> \o t)
  BY <1>1, ConcatAssociative
<1>5. Append(s, x) \o t = s \o a
  BY <1>2, <1>3, <1>4
<1> QED
  BY <1>5 DEF x, t

LEMMA NothingFound ==
    ASSUME spawns = <<>>, scan.alerts = <<>>
    PROVE  Found = <<>> /\ FoundHaveLived /\ Remembered /\ SpawnsOnce
<1>1. Found = <<>>
  BY DEF Found
<1>2. DOMAIN Found = {}
  BY <1>1
<1> QED
  BY <1>1, <1>2 DEF FoundHaveLived, Remembered, IsFound, SpawnsOnce, Found, IsInjective

LEMMA NoScanShape ==
    NoScan \in [at : Nat, todo : SUBSET Pids, active : SUBSET Pids, alerts : Seq(Nat)]
BY EmptySeq DEF NoScan

LEMMA InitFound ==
    ASSUME Init
    PROVE  IInv
<1>1. FoundHaveLived /\ Remembered /\ SpawnsOnce
  BY NothingFound DEF Init, NoScan
<1>2. PICK i \in Images :
        procs = [p \in Pids \cap {1} |->
                   [life |-> 1, parent |-> InitPid, image |-> i, masked |-> FALSE]]
  BY DEF Init
<1>3. Live = Pids \cap {1} /\ \A p \in Live : procs[p].life = 1 /\ p = 1
  BY <1>2 DEF Live
<1>4. lives \in Nat /\ (Live # {} => lives = 1)
  <2>1. lives = Cardinality(Live)
    BY DEF Init, Live
  <2>2. Cardinality({}) = 0 /\ Cardinality({1}) = 1
    BY FS_EmptySet, FS_Singleton
  <2>3. Live = {} \/ Live = {1}
    BY <1>3
  <2> QED
    BY <2>1, <2>2, <2>3
<1>5. LivesDiffer
  BY <1>3, <1>4 DEF LivesDiffer
<1>6. Shapes
  BY <1>3, <1>4, NoScanShape, EmptySeq DEF Init, Shapes
<1> QED
  BY <1>1, <1>5, <1>6 DEF IInv

-----------------------------------------------------------------------------
(* Processes come and go. *)
LEMMA KernelKeeps ==
    ASSUME IInv, KernelNext, UNCHANGED <<scan, alerted, spawns, phase>>
    PROVE  IInv'
<1>1. Found' = Found
  BY DEF Found
<1>2. SpawnsOnce'
  BY DEF IInv, SpawnsOnce
<1>3. ASSUME NEW parent \in Pids, NEW p \in Pids, Fork(parent, p)
      PROVE  IInv'
  <2>1. /\ p \notin Live /\ lives' = lives + 1 /\ Live' = Live \cup {p}
        /\ procs'[p].life = lives + 1
        /\ \A q \in Live : procs'[q] = procs[q]
    BY <1>3 DEF Fork, With, Live
  <2>2. Shapes'
    BY <2>1 DEF IInv, Shapes
  <2>3. lives \in Nat /\ \A q \in Live : procs[q].life \in 1 .. lives
    BY DEF IInv, Shapes, LivesDiffer
  <2>4. LivesDiffer'
    BY <2>1, <2>3 DEF IInv, LivesDiffer
  <2>5. FoundHaveLived'
    BY <1>1, <2>1, <2>3, FoundShape DEF IInv, FoundHaveLived
  <2>6. ~IsFound(lives + 1)
    BY <2>3, FoundShape DEF IInv, FoundHaveLived, IsFound
  <2>7. Remembered'
    <3> SUFFICES ASSUME NEW q \in Live', IsFound(procs'[q].life)
                 PROVE  /\ q \in alerted
                        /\ q \in scan.todo \cup scan.active \/ q >= scan.at
      BY <1>1 DEF Remembered, IsFound
    <3>1. q \in Live /\ IsFound(procs[q].life)
      BY <2>1, <2>6
    <3> QED
      BY <3>1 DEF IInv, Remembered
  <2> QED
    BY <1>2, <2>2, <2>4, <2>5, <2>7 DEF IInv
<1>4. ASSUME Live' \subseteq Live, lives' = lives,
             \A q \in Live' : procs'[q].life = procs[q].life
      PROVE  IInv'
  <2>1. Shapes'
    BY <1>4 DEF IInv, Shapes
  <2>2. LivesDiffer'
    BY <1>4 DEF IInv, LivesDiffer
  <2>3. FoundHaveLived' /\ Remembered'
    BY <1>1, <1>4 DEF IInv, FoundHaveLived, Remembered, IsFound
  <2> QED
    BY <1>2, <2>1, <2>2, <2>3 DEF IInv
<1>5. ASSUME NEW p \in Pids, NEW i \in Images, Exec(p, i)
      PROVE  IInv'
  <2>1. Live' = Live /\ lives' = lives /\ \A q \in Live' : procs'[q].life = procs[q].life
    BY <1>5 DEF Exec, Live
  <2> QED
    BY <1>4, <2>1
<1>6. ASSUME NEW p \in Pids, ExitProcess(p)
      PROVE  IInv'
  <2>1. /\ Live' \subseteq Live /\ lives' = lives
        /\ \A q \in Live' : procs'[q].life = procs[q].life
    BY <1>6 DEF ExitProcess, Live
  <2> QED
    BY <1>4, <2>1
<1> QED
  BY <1>3, <1>5, <1>6 DEF KernelNext

-----------------------------------------------------------------------------
(* The scan *)

LEMMA ListKeeps ==
    ASSUME IInv, NEW last \in Pids, ListPids(last), UNCHANGED <<tableVars, spawns, phase>>
    PROVE  IInv'
<1>1. /\ scan.todo = {} /\ alerted' = alerted
      /\ scan' = [scan EXCEPT !.todo = {p \in Unlisted : p <= last}, !.at = last + 1]
      /\ procs' = procs /\ lives' = lives /\ Live' = Live
  BY DEF ListPids, tableVars, Live
<1>2. scan \in [at : Nat, todo : SUBSET Pids, active : SUBSET Pids, alerts : Seq(Nat)]
      /\ Live \subseteq Pids
  BY DEF IInv, Shapes
<1>3. /\ scan'.at = last + 1 /\ scan'.active = scan.active /\ scan'.alerts = scan.alerts
      /\ scan'.todo = {p \in Live : p >= scan.at /\ p <= last}
      /\ scan' \in [at : Nat, todo : SUBSET Pids, active : SUBSET Pids, alerts : Seq(Nat)]
  <2> DEFINE T == {p \in Unlisted : p <= last}
             n == last + 1
  <2>1. T \in SUBSET Pids /\ T = {p \in Live : p >= scan.at /\ p <= last}
    BY <1>2 DEF Unlisted
  <2>2. n \in Nat
    BY DEF Pids
  <2>3. scan' = [scan EXCEPT !.todo = T, !.at = n]
    BY <1>1
  <2> HIDE DEF T, n
  <2>4. /\ scan'.at = n /\ scan'.todo = T
        /\ scan'.active = scan.active /\ scan'.alerts = scan.alerts
        /\ scan' \in [at : Nat, todo : SUBSET Pids, active : SUBSET Pids, alerts : Seq(Nat)]
    BY <1>2, <2>1, <2>2, <2>3
  <2> QED
    BY <2>1, <2>4 DEF n
<1>4. Found' = Found
  BY <1>3 DEF Found
<1>5. Shapes' /\ LivesDiffer' /\ FoundHaveLived' /\ SpawnsOnce'
  BY <1>1, <1>3, <1>4
     DEF IInv, Shapes, LivesDiffer, FoundHaveLived, SpawnsOnce, IsInjective, Found
<1>6. Remembered'
  <2> SUFFICES ASSUME NEW p \in Live, IsFound(procs[p].life)
               PROVE  p \in alerted /\ (p \in scan'.todo \cup scan'.active \/ p >= scan'.at)
    BY <1>1, <1>4 DEF Remembered, IsFound
  <2>1. p \in alerted /\ (p \in scan.active \/ p >= scan.at) /\ p \in Nat
    BY <1>1, <1>2 DEF IInv, Remembered, Pids
  <2> QED
    BY <1>3, <2>1 DEF Pids
<1> QED
  BY <1>5, <1>6 DEF IInv

LEMMA VisitKeeps ==
    ASSUME IInv, NEW p \in Pids, Visit(p), UNCHANGED <<tableVars, spawns, phase>>
    PROVE  IInv'
<1>1. /\ p \in scan.todo /\ procs' = procs /\ lives' = lives /\ Live' = Live
      /\ scan \in [at : Nat, todo : SUBSET Pids, active : SUBSET Pids, alerts : Seq(Nat)]
  BY DEF IInv, Shapes, Visit, tableVars, Live
<1>2. CASE Suspicious(p) /\ p \notin alerted
  <2> DEFINE l == procs[p].life
  <2>1. p \in Live /\ l \in 1 .. lives /\ lives \in Nat /\ ~IsFound(l)
    BY <1>2 DEF Suspicious, IInv, Shapes, LivesDiffer, Remembered
  <2>2. /\ scan' = [scan EXCEPT !.todo = scan.todo \ {p}, !.active = scan.active \cup {p},
                                !.alerts = Append(scan.alerts, l)]
        /\ alerted' = alerted \cup {p}
    BY <1>1, <1>2 DEF Visit, LookedAt, Alert
  <2>3. Append(scan.alerts, l) \in Seq(Nat) /\ l \in Nat
    BY <1>1, <2>1, AppendProperties
  <2>4. /\ scan'.at = scan.at /\ scan'.todo = scan.todo \ {p}
        /\ scan'.active = scan.active \cup {p}
        /\ scan'.alerts = Append(scan.alerts, l)
        /\ scan' \in [at : Nat, todo : SUBSET Pids, active : SUBSET Pids, alerts : Seq(Nat)]
    BY <1>1, <2>2, <2>3
  <2>5. Found' = Append(Found, l)
    <3>1. spawns \in Seq(Nat) /\ scan.alerts \in Seq(Nat)
      BY <1>1 DEF IInv, Shapes
    <3>2. spawns \o Append(scan.alerts, l) = Append(spawns \o scan.alerts, l)
      BY <2>3, <3>1, AppendInside
    <3> QED
      BY <2>4, <3>2 DEF Found
  <2>6. /\ Len(Found) \in Nat /\ DOMAIN Found = 1 .. Len(Found)
        /\ DOMAIN Found' = 1 .. Len(Found) + 1
        /\ Found'[Len(Found) + 1] = l
        /\ \A k \in DOMAIN Found : Found'[k] = Found[k] /\ Found[k] \in Nat
    BY <2>3, <2>5, FoundShape, AppendProperties DEF IInv
  <2>7. \A x : IsFound(x)' <=> IsFound(x) \/ x = l
    BY <2>6 DEF IsFound
  <2>8. SpawnsOnce'
    <3>1. IsInjective(Found)
      BY DEF IInv, SpawnsOnce, Found
    <3>2. \A k \in DOMAIN Found : Found[k] # l
      BY <2>1 DEF IsFound
    <3>3. IsInjective(Found')
      BY <2>6, <3>1, <3>2 DEF IsInjective
    <3> QED
      BY <3>3 DEF SpawnsOnce, Found
  <2>9. FoundHaveLived'
    BY <1>1, <2>1, <2>6 DEF IInv, FoundHaveLived
  <2>10. Remembered'
    <3> SUFFICES ASSUME NEW q \in Live, IsFound(procs[q].life) \/ procs[q].life = l
                 PROVE  q \in alerted' /\ (q \in scan'.todo \cup scan'.active \/ q >= scan'.at)
      BY <1>1, <2>7 DEF Remembered
    <3>1. CASE q = p
      BY <2>2, <2>4, <3>1
    <3>2. CASE q # p
      <4>1. IsFound(procs[q].life)
        BY <2>1, <3>2 DEF IInv, LivesDiffer
      <4> QED
        BY <2>2, <2>4, <4>1 DEF IInv, Remembered
    <3> QED
      BY <3>1, <3>2
  <2>11. Shapes' /\ LivesDiffer'
    BY <1>1, <2>4 DEF IInv, Shapes, LivesDiffer
  <2> QED
    BY <2>8, <2>9, <2>10, <2>11 DEF IInv
<1>3. CASE ~(Suspicious(p) /\ p \notin alerted)
  <2>1. /\ scan' = [scan EXCEPT !.todo = scan.todo \ {p}, !.active = scan.active \cup {p}]
        /\ alerted' = alerted
    BY <1>3 DEF Visit, LookedAt
  <2>2. /\ scan'.at = scan.at /\ scan'.todo = scan.todo \ {p}
        /\ scan'.active = scan.active \cup {p} /\ scan'.alerts = scan.alerts
        /\ scan' \in [at : Nat, todo : SUBSET Pids, active : SUBSET Pids, alerts : Seq(Nat)]
    BY <1>1, <2>1
  <2>3. Found' = Found
    BY <2>2 DEF Found
  <2> QED
    BY SMTT(30), <1>1, <2>1, <2>2, <2>3
       DEF IInv, Shapes, LivesDiffer, FoundHaveLived, Remembered, IsFound, SpawnsOnce,
           IsInjective, Found
<1> QED
  BY <1>2, <1>3

LEMMA RetainKeeps ==
    ASSUME IInv, Retain, UNCHANGED <<tableVars, spawns>>, phase' # "stopped"
    PROVE  IInv'
<1>1. /\ scan.todo = {} /\ Unlisted = {} /\ alerted' = alerted \cap scan.active
      /\ scan' = [NoScan EXCEPT !.alerts = scan.alerts]
      /\ procs' = procs /\ lives' = lives /\ Live' = Live
  BY DEF Retain, tableVars, Live
<1>2. /\ scan'.at = 1 /\ scan'.alerts = scan.alerts
      /\ scan' \in [at : Nat, todo : SUBSET Pids, active : SUBSET Pids, alerts : Seq(Nat)]
  BY <1>1 DEF NoScan, IInv, Shapes
<1>3. Found' = Found
  BY <1>2 DEF Found
<1>4. Shapes' /\ LivesDiffer' /\ FoundHaveLived' /\ SpawnsOnce'
  BY <1>1, <1>2, <1>3
     DEF IInv, Shapes, LivesDiffer, FoundHaveLived, SpawnsOnce, IsInjective, Found
<1>5. Remembered'
  <2> SUFFICES ASSUME NEW p \in Live, IsFound(procs[p].life)
               PROVE  p \in alerted \cap scan.active /\ p >= 1
    BY <1>1, <1>2, <1>3 DEF Remembered, IsFound
  <2>1. p \in alerted /\ (p \in scan.active \/ p >= scan.at)
    BY <1>1 DEF IInv, Remembered
  <2> QED
    BY <1>1, <2>1 DEF Unlisted, IInv, Shapes, Pids
<1> QED
  BY <1>4, <1>5 DEF IInv

(* A found process goes on record: the two sequences are still one.        *)
LEMMA ReportKeeps ==
    ASSUME IInv, ReportSpawn
    PROVE  IInv'
<1> DEFINE a == scan.alerts
<1>1. /\ a # <<>> /\ spawns' = Append(spawns, Head(a))
      /\ scan' = [scan EXCEPT !.alerts = Tail(a)]
      /\ phase' # "stopped"
      /\ alerted' = alerted /\ procs' = procs /\ lives' = lives /\ Live' = Live
  BY DEF ReportSpawn, Tick, tableVars, Live
<1>2. /\ a \in Seq(Nat) /\ spawns \in Seq(Nat)
      /\ scan \in [at : Nat, todo : SUBSET Pids, active : SUBSET Pids, alerts : Seq(Nat)]
  BY DEF IInv, Shapes
<1>3. /\ Head(a) \in Nat /\ Tail(a) \in Seq(Nat)
      /\ Append(spawns, Head(a)) \in Seq(Nat)
  BY <1>1, <1>2, HeadTailProperties, AppendProperties
<1>4. /\ scan'.at = scan.at /\ scan'.todo = scan.todo /\ scan'.active = scan.active
      /\ scan'.alerts = Tail(a)
      /\ scan' \in [at : Nat, todo : SUBSET Pids, active : SUBSET Pids, alerts : Seq(Nat)]
  BY <1>1, <1>2, <1>3
<1>5. Found' = Found
  <2>1. Append(spawns, Head(a)) \o Tail(a) = spawns \o a
    BY <1>1, <1>2, MoveAcross
  <2> QED
    BY <1>1, <1>4, <2>1 DEF Found
<1>6. Shapes'
  BY <1>1, <1>3, <1>4 DEF IInv, Shapes
<1>7. SpawnsOnce'
  BY <1>5 DEF IInv, SpawnsOnce, Found
<1>8. LivesDiffer' /\ FoundHaveLived'
  BY <1>1, <1>5 DEF IInv, LivesDiffer, FoundHaveLived
<1>9. Remembered'
  BY <1>1, <1>4, <1>5 DEF IInv, Remembered, IsFound
<1> QED
  BY <1>6, <1>7, <1>8, <1>9 DEF IInv

-----------------------------------------------------------------------------
(* Whatever leaves the processes and the detector alone. *)
LEMMA OthersKeep ==
    ASSUME IInv, UNCHANGED <<tableVars, alerted, scan, spawns>>,
           phase' = "stopped" => phase = "stopped"
    PROVE  IInv'
<1>1. /\ procs' = procs /\ lives' = lives /\ Live' = Live /\ alerted' = alerted
      /\ scan' = scan /\ spawns' = spawns /\ Found' = Found
  BY DEF tableVars, Live, Found
<1>2. Shapes'
  BY <1>1 DEF IInv, Shapes
<1>3. SpawnsOnce'
  BY <1>1 DEF IInv, SpawnsOnce
<1> QED
  BY <1>1, <1>2, <1>3 DEF IInv, LivesDiffer, FoundHaveLived, Remembered, IsFound

(* A new detector knows nothing, and nothing is on record yet.             *)
LEMMA NewDetectorKeeps ==
    ASSUME IInv, NewDetector, spawns' = <<>>, UNCHANGED tableVars
    PROVE  IInv'
<1>1. /\ procs' = procs /\ lives' = lives /\ Live' = Live
      /\ scan' = NoScan /\ spawns' = <<>>
  BY DEF NewDetector, tableVars, Live
<1>2. Found' = <<>> /\ FoundHaveLived' /\ Remembered' /\ SpawnsOnce'
  <2>1. Found' = <<>>
    BY <1>1 DEF Found, NoScan
  <2>2. DOMAIN Found' = {}
    BY <2>1
  <2> QED
    BY <2>1, <2>2 DEF FoundHaveLived, Remembered, IsFound, SpawnsOnce, Found, IsInjective
<1>3. Shapes' /\ LivesDiffer'
  BY <1>1, NoScanShape, EmptySeq DEF IInv, Shapes, LivesDiffer
<1> QED
  BY <1>2, <1>3 DEF IInv

LEMMA StepKeeps ==
    ASSUME IInv, [Next]_vars
    PROVE  IInv'
<1>1. CASE Logger
  BY <1>1, OthersKeep DEF Logger, rceVars, detectorVars
<1>2. CASE Kernel
  BY <1>2, KernelKeeps DEF Kernel, detectorVars
<1>3. CASE FimEventArrives
  BY <1>3, OthersKeep DEF FimEventArrives, rceVars, detectorVars
<1>4. CASE Start
  <2>1. spawns = <<>>
    BY <1>4 DEF Start, IInv, Shapes
  <2> QED
    BY <1>4, <2>1, NewDetectorKeeps DEF Start
<1>5. CASE Stop
  BY <1>5, NewDetectorKeeps DEF Stop
<1>6. CASE WakeUp \/ Drain
  BY <1>6, OthersKeep DEF WakeUp, Drain, HandleFimEvent, DrainEnds, Tick, detectorVars
<1>7. CASE ScanStep
  BY <1>7, ListKeeps, VisitKeeps DEF ScanStep, Tick
<1>8. CASE ScanEnds
  BY <1>8, RetainKeeps DEF ScanEnds, Tick
<1>9. CASE ReportSpawn
  BY <1>9, ReportKeeps
<1>10. CASE SpawnsReported
  BY <1>10, OthersKeep DEF SpawnsReported, Tick, detectorVars
<1>11. CASE AuthPoll
  BY <1>11, OthersKeep
     DEF AuthPoll, NoLog, PollStep, PollGivenUp, PollReturns, ReportLogin, LoginsReported,
         Tick, detectorVars
<1>12. CASE UNCHANGED vars
  BY <1>12, OthersKeep DEF vars, rceVars, detectorVars, tickVars
<1> QED
  BY <1>1, <1>2, <1>3, <1>4, <1>5, <1>6, <1>7, <1>8, <1>9, <1>10, <1>11, <1>12
     DEF Next, MainLoop, RceScan

(* No process is recorded or about to be recorded twice as an RCE_ANOMALY  *)
(* while the daemon runs: its pid stays in alerted_pids (scan_anomalies,   *)
(* process_tree.rs) for as long as it lives.                               *)
THEOREM SpawnsAlertedOnce == Spec => []SpawnsOnce
<1>1. Init => IInv
  BY InitFound
<1>2. IInv /\ [Next]_vars => IInv'
  BY StepKeeps
<1>3. IInv => SpawnsOnce
  BY DEF IInv
<1> QED
  BY <1>1, <1>2, <1>3, PTL DEF Spec

-----------------------------------------------------------------------------
(* The logins.  First the log as the logger and logrotate leave it: every  *)
(* line is two cells side by side, the second of the last one perhaps      *)
(* still to come, and the lines are in order within a file and from one    *)
(* file to the next.                                                       *)

CellsPaired ==
    \A f \in Inodes : \A k \in DOMAIN files[f] :
        IF files[f][k].half = 1
        THEN \/ /\ k + 1 \in DOMAIN files[f]
                /\ files[f][k + 1] = [line |-> files[f][k].line, half |-> 2]
             \/ k = Len(files[f]) /\ f = dest
        ELSE /\ k - 1 \in DOMAIN files[f]
             /\ files[f][k - 1] = [line |-> files[f][k].line, half |-> 1]

CellsInOrder ==
    \A f \in Inodes : \A j, k \in DOMAIN files[f] :
        j < k => \/ files[f][j].line < files[f][k].line
                 \/ /\ files[f][j].line = files[f][k].line
                    /\ files[f][j].half = 1 /\ files[f][k].half = 2

FilesInOrder ==
    \A f, g \in Inodes : f < g =>
        \A j \in DOMAIN files[f], k \in DOMAIN files[g] :
            files[f][j].line < files[g][k].line

LogShapes ==
    /\ lines \in Seq(Texts) /\ Len(lines) <= MaxLines
    /\ files \in [Inodes -> Seq(Cell)]
    /\ dest \in Inodes
    /\ path \in {NoFile, dest, dest + 1} /\ path \in Inodes \cup {NoFile}
    /\ path = NoFile => dest + 1 \in Inodes
    /\ whole \subseteq 1 .. Len(lines)
    /\ \A f \in Inodes :
          /\ Len(files[f]) <= 2 * Len(lines)
          /\ f > dest => files[f] = <<>>
          /\ \A k \in DOMAIN files[f] : files[f][k].line <= Len(lines)
    /\ MidLine => /\ Len(files[dest]) < 2 * Len(lines)
                  /\ files[dest][Len(files[dest])].line = Len(lines)
                  /\ Len(lines) \notin whole

LogInv == LogShapes /\ CellsPaired /\ CellsInOrder /\ FilesInOrder

(* Then the monitor: it has consumed the first ReadTo cells of the file    *)
(* posOf, and what it holds of it follows.                                 *)
Event == [line : Lines, success : BOOLEAN, cron : BOOLEAN]
ReadTo == IF Polling THEN poll.off - Len(poll.buf) ELSE pos

(* The file that the next poll opens, or a later one.                      *)
Upcoming == IF path = NoFile THEN dest + 1 ELSE path

MonitorShapes ==
    /\ pos \in Nat /\ since \in 0 .. Len(lines)
    /\ posOf \in Inodes \cup {NoFile} /\ posOf <= Upcoming
    /\ pos <= Len(Open(posOf))
    /\ outgrown \in BOOLEAN
    /\ poll \in [file : Inodes \cup {NoFile}, off : Nat, buf : Seq(Cell), events : Seq(Event)]
    /\ logins \in Seq(Event)
    /\ IF Polling
       THEN /\ phase = "auth" /\ AuthEnabled /\ poll.file = posOf
            /\ pos + Len(poll.buf) <= poll.off /\ poll.off <= Len(files[posOf])
            /\ \A k \in DOMAIN poll.buf : poll.buf[k] = files[posOf][ReadTo + k]
       ELSE /\ poll.off = 0 /\ poll.buf = <<>>
            /\ phase # "logins" => poll.events = <<>>

(* Whatever was reported so far comes before all that is still to be read; *)
(* only the rest of a line whose first half was reported may follow it.    *)
FirstHalfMatched(i) == Matched(Visible(lines[i], {1}))
Before(i, at) ==
    \A f \in Inodes : \A k \in DOMAIN files[f] :
        (f = posOf /\ k > at) \/ (f > posOf /\ f >= Upcoming) =>
            \/ i < files[f][k].line
            \/ /\ f = posOf /\ k = at + 1 /\ files[f][k] = [line |-> i, half |-> 2]
               /\ FirstHalfMatched(i)
Begun(i) == i <= Len(lines) /\ (i = Len(lines) /\ MidLine => FirstHalfMatched(i))

OrderInv ==
    /\ \A k \in DOMAIN logins : Begun(logins[k].line)
    /\ \A k \in DOMAIN poll.events : Begun(poll.events[k].line)
    /\ phase # "stopped" =>
          /\ \A k \in DOMAIN logins :
                Before(logins[k].line, pos) /\ Before(logins[k].line, ReadTo)
          /\ \A k \in DOMAIN poll.events : Before(poll.events[k].line, ReadTo)
    /\ LoginsInOrder
    /\ \A j, k \in DOMAIN poll.events : j < k => poll.events[j].line < poll.events[k].line
    /\ \A j \in DOMAIN logins, k \in DOMAIN poll.events :
          logins[j].line < poll.events[k].line

(* A line written in one go is read in one go, ... *)
Between(at) ==
    at \in DOMAIN files[posOf] /\ files[posOf][at].half = 1
        => files[posOf][at].line \notin whole
(* ... and one that is owed is on record, or reported, once it is read.    *)
Reported(i) == \E k \in DOMAIN poll.events : poll.events[k] = Saying(i, Whole(i))
RecordInv ==
    ~outgrown /\ posOf # NoFile =>
        /\ Between(pos) /\ Between(ReadTo)
        /\ \A k \in 1 .. ReadTo :
              LET i == files[posOf][k].line IN Owed(i) => Recorded(i) \/ Reported(i)
        /\ Polling => \A k \in 1 .. pos :
              LET i == files[posOf][k].line IN Owed(i) => Recorded(i)

LInv == LogInv /\ MonitorShapes /\ OrderInv /\ RecordInv

-----------------------------------------------------------------------------
(* The log *)

LEMMA FileShapes ==
    ASSUME LogShapes, NEW f \in Inodes
    PROVE  /\ f \in Nat \ {0} /\ files[f] \in Seq(Cell) /\ Len(files[f]) \in Nat
           /\ DOMAIN files[f] = 1 .. Len(files[f])
           /\ \A k \in DOMAIN files[f] : files[f][k] \in Cell
           /\ files[f] # <<>> <=> Len(files[f]) # 0
<1>1. f \in Nat \ {0} /\ files[f] \in Seq(Cell)
  BY LogBoundsAssumption DEF LogShapes, Inodes
<1> QED
  BY <1>1, LenProperties, ElementOfSeq, EmptySeq

LEMMA LogConstants ==
    ASSUME LogShapes
    PROVE  /\ MaxLines \in Nat /\ MaxFiles \in Nat
           /\ Len(lines) \in Nat /\ DOMAIN lines = 1 .. Len(lines)
           /\ dest \in Inodes /\ dest \in Nat \ {0}
           /\ Lines \subseteq Nat \ {0}
           /\ \A c \in Cell : c.line \in Lines /\ c.line \in Nat \ {0} /\ c.half \in {1, 2}
           /\ \A c \in Cell : \A x, h : c.line = x /\ c.half = h => c = [line |-> x, half |-> h]
<1>1. lines \in Seq(Texts)
  BY DEF LogShapes
<1>2. /\ \A c \in Cell : c.line \in Lines /\ c.half \in {1, 2}
      /\ \A c \in Cell : \A x, h : c.line = x /\ c.half = h => c = [line |-> x, half |-> h]
  BY DEF Cell
<1> QED
  BY <1>1, <1>2, LenProperties, LogBoundsAssumption DEF LogShapes, Inodes, Lines, Cell

LEMMA CellsAppended ==
    ASSUME LogShapes, NEW halves \in Seq({1, 2}), AppendCells(halves), Len(lines') \in Lines
    PROVE  /\ files' \in [Inodes -> Seq(Cell)]
           /\ \A f \in Inodes \ {dest} : files'[f] = files[f]
           /\ Len(files'[dest]) = Len(files[dest]) + Len(halves)
           /\ \A k \in DOMAIN files[dest] : files'[dest][k] = files[dest][k]
           /\ \A k \in 1 .. Len(halves) :
                 files'[dest][Len(files[dest]) + k] = [line |-> Len(lines'), half |-> halves[k]]
<1> DEFINE old == files[dest]
           new == [k \in DOMAIN halves |-> [line |-> Len(lines'), half |-> halves[k]]]
<1>1. old \in Seq(Cell) /\ Len(old) \in Nat /\ DOMAIN old = 1 .. Len(old)
  BY FileShapes, LogConstants
<1>2. DOMAIN halves = 1 .. Len(halves) /\ Len(halves) \in Nat
      /\ \A k \in 1 .. Len(halves) : halves[k] \in {1, 2}
  BY LenProperties, ElementOfSeq
<1>3. new \in [1 .. Len(halves) -> Cell]
  BY <1>2 DEF Cell
<1>4. new \in Seq(Cell) /\ Len(new) = Len(halves)
  <2>1. new \in Seq(Cell)
    BY <1>2, <1>3, IsASeq
  <2>2. DOMAIN new = 1 .. Len(new) /\ Len(new) \in Nat
    BY <2>1, LenProperties
  <2>3. DOMAIN new = 1 .. Len(halves)
    BY <1>2
  <2>4. \A a, b \in Nat : 1 .. a = 1 .. b => a = b
    OBVIOUS
  <2> HIDE DEF new
  <2> QED
    BY <1>2, <2>1, <2>2, <2>3, <2>4
<1>5. \A k \in 1 .. Len(halves) : new[k] = [line |-> Len(lines'), half |-> halves[k]]
  BY <1>2
<1>6. files' = [files EXCEPT ![dest] = old \o new] /\ files \in [Inodes -> Seq(Cell)]
  BY DEF AppendCells, LogShapes
<1> HIDE DEF old, new
<1>7. /\ old \o new \in Seq(Cell) /\ Len(old \o new) = Len(old) + Len(new)
      /\ \A k \in 1 .. Len(old) + Len(new) :
            (old \o new)[k] = IF k <= Len(old) THEN old[k] ELSE new[k - Len(old)]
  BY <1>1, <1>4, ConcatProperties
<1>8. files'[dest] = old \o new /\ \A f \in Inodes \ {dest} : files'[f] = files[f]
  BY <1>6, LogConstants
<1>9. files' \in [Inodes -> Seq(Cell)]
  BY <1>6, <1>7
<1>10. \A k \in 1 .. Len(old) : (old \o new)[k] = old[k]
  BY <1>1, <1>2, <1>4, <1>7
<1>11. \A k \in 1 .. Len(halves) : (old \o new)[Len(old) + k] = new[k]
  BY <1>1, <1>2, <1>4, <1>7
<1> QED
  BY <1>1, <1>4, <1>5, <1>7, <1>8, <1>9, <1>10, <1>11 DEF old

(* What a write adds: one or two cells of the last line there is then.     *)
LEMMA WriteShapes ==
    ASSUME LogInv, (\E t \in Texts : WriteLine(t) \/ WriteHalf(t)) \/ WriteRest
    PROVE  /\ path' = path /\ dest' = dest
           /\ lines' \in Seq(Texts) /\ Len(lines') \in Lines
           /\ Len(lines') \in {Len(lines), Len(lines) + 1}
           /\ \A i \in 1 .. Len(lines) : lines'[i] = lines[i]
           /\ files' \in [Inodes -> Seq(Cell)]
           /\ \A f \in Inodes \ {dest} : files'[f] = files[f]
           /\ Len(files'[dest]) \in {Len(files[dest]) + 1, Len(files[dest]) + 2}
           /\ \A k \in DOMAIN files[dest] : files'[dest][k] = files[dest][k]
           /\ \A k \in Len(files[dest]) + 1 .. Len(files'[dest]) :
                 files'[dest][k].line = Len(lines')
           /\ IF MidLine
              THEN /\ Len(lines') = Len(lines) /\ whole' = whole
                   /\ Len(files'[dest]) = Len(files[dest]) + 1
                   /\ files'[dest][Len(files[dest]) + 1] = [line |-> Len(lines'), half |-> 2]
              ELSE /\ Len(lines') = Len(lines) + 1
                   /\ files'[dest][Len(files[dest]) + 1] = [line |-> Len(lines'), half |-> 1]
                   /\ IF Len(files'[dest]) = Len(files[dest]) + 1
                      THEN whole' = whole
                      ELSE /\ files'[dest][Len(files[dest]) + 2]
                                 = [line |-> Len(lines'), half |-> 2]
                           /\ whole' = whole \cup {Len(lines')}
<1>1. LogShapes
  BY DEF LogInv
<1>2. /\ <<1>> \in Seq({1, 2}) /\ <<2>> \in Seq({1, 2}) /\ <<1, 2>> \in Seq({1, 2})
      /\ Len(<<1>>) = 1 /\ Len(<<2>>) = 1 /\ Len(<<1, 2>>) = 2
  OBVIOUS
<1>3. Len(lines) \in Nat /\ Len(lines) <= MaxLines /\ MaxLines \in Nat
      /\ Len(files[dest]) \in Nat /\ lines \in Seq(Texts)
  BY <1>1, LogConstants, FileShapes DEF LogShapes
<1>4. ASSUME NEW t \in Texts, Len(lines) < MaxLines, lines' = Append(lines, t)
      PROVE  /\ lines' \in Seq(Texts) /\ Len(lines') = Len(lines) + 1 /\ Len(lines') \in Lines
             /\ \A i \in 1 .. Len(lines) : lines'[i] = lines[i]
  BY <1>3, <1>4, AppendProperties DEF Lines
<1>5. ASSUME NEW t \in Texts, WriteLine(t)
      PROVE  /\ ~MidLine /\ path' = path /\ dest' = dest
             /\ lines' = Append(lines, t) /\ Len(lines) < MaxLines
             /\ whole' = whole \cup {Len(lines')} /\ AppendCells(<<1, 2>>)
  BY <1>5 DEF WriteLine
<1>6. ASSUME NEW t \in Texts, WriteHalf(t)
      PROVE  /\ ~MidLine /\ path' = path /\ dest' = dest
             /\ lines' = Append(lines, t) /\ Len(lines) < MaxLines
             /\ whole' = whole /\ AppendCells(<<1>>)
  BY <1>6 DEF WriteHalf
<1>7. ASSUME WriteRest
      PROVE  /\ MidLine /\ path' = path /\ dest' = dest /\ lines' = lines
             /\ whole' = whole /\ AppendCells(<<2>>) /\ Len(lines) \in Lines
  <2>1. files[dest] # <<>> /\ files[dest][Len(files[dest])].line = Len(lines)
    BY <1>1, <1>7 DEF WriteRest, MidLine, LogShapes
  <2>2. files[dest][Len(files[dest])] \in Cell
    BY <1>1, <2>1, FileShapes, LogConstants
  <2> QED
    BY <1>7, <2>1, <2>2 DEF WriteRest, Cell
<1>8. ASSUME NEW t \in Texts, WriteLine(t)
      PROVE  /\ files' \in [Inodes -> Seq(Cell)]
             /\ \A f \in Inodes \ {dest} : files'[f] = files[f]
             /\ Len(files'[dest]) = Len(files[dest]) + 2
             /\ \A k \in DOMAIN files[dest] : files'[dest][k] = files[dest][k]
             /\ files'[dest][Len(files[dest]) + 1] = [line |-> Len(lines'), half |-> 1]
             /\ files'[dest][Len(files[dest]) + 2] = [line |-> Len(lines'), half |-> 2]
  <2>1. Len(lines') \in Lines
    BY <1>4, <1>5, <1>8
  <2>2. \A k \in 1 .. 2 : files'[dest][Len(files[dest]) + k]
                                  = [line |-> Len(lines'), half |-> <<1, 2>>[k]]
    BY <1>1, <1>2, <1>5, <1>8, <2>1, CellsAppended
  <2>3. <<1, 2>>[1] = 1 /\ <<1, 2>>[2] = 2
    OBVIOUS
  <2>4. 1 \in 1 .. 2 /\ 2 \in 1 .. 2
    OBVIOUS
  <2>5. /\ files'[dest][Len(files[dest]) + 1] = [line |-> Len(lines'), half |-> 1]
        /\ files'[dest][Len(files[dest]) + 2] = [line |-> Len(lines'), half |-> 2]
    BY <2>2, <2>3, <2>4
  <2> QED
    BY <1>1, <1>2, <1>5, <1>8, <2>1, <2>5, CellsAppended
<1>9. ASSUME NEW h \in {1, 2}, AppendCells(<<h>>), Len(lines') \in Lines
      PROVE  /\ files' \in [Inodes -> Seq(Cell)]
             /\ \A f \in Inodes \ {dest} : files'[f] = files[f]
             /\ Len(files'[dest]) = Len(files[dest]) + 1
             /\ \A k \in DOMAIN files[dest] : files'[dest][k] = files[dest][k]
             /\ files'[dest][Len(files[dest]) + 1] = [line |-> Len(lines'), half |-> h]
  <2>1. <<h>> \in Seq({1, 2}) /\ Len(<<h>>) = 1 /\ <<h>>[1] = h /\ 1 \in 1 .. Len(<<h>>)
    OBVIOUS
  <2>2. files'[dest][Len(files[dest]) + 1] = [line |-> Len(lines'), half |-> <<h>>[1]]
    BY <1>1, <1>9, <2>1, CellsAppended
  <2> QED
    BY <1>1, <1>9, <2>1, <2>2, CellsAppended
<1>10. CASE \E t \in Texts : WriteLine(t)
  <2>1. PICK t \in Texts : WriteLine(t)
    BY <1>10
  <2>2. Len(files'[dest]) = Len(files[dest]) + 2
    BY <1>8, <2>1
  <2>3. \A k \in Len(files[dest]) + 1 .. Len(files'[dest]) :
           k = Len(files[dest]) + 1 \/ k = Len(files[dest]) + 2
    BY <1>3, <2>2
  <2>4. \A k \in Len(files[dest]) + 1 .. Len(files'[dest]) : files'[dest][k].line = Len(lines')
    BY <1>8, <2>1, <2>3
  <2>5. Len(files[dest]) + 2 # Len(files[dest]) + 1
    BY <1>3
  <2> QED
    BY <1>4, <1>5, <1>8, <2>1, <2>2, <2>4, <2>5
<1>11. CASE \E t \in Texts : WriteHalf(t)
  BY <1>3, <1>4, <1>6, <1>9, <1>11
<1>12. CASE WriteRest
  BY <1>3, <1>7, <1>9, <1>12
<1> QED
  BY <1>10, <1>11, <1>12

LEMMA WriteKeepsLog ==
    ASSUME LogInv, (\E t \in Texts : WriteLine(t) \/ WriteHalf(t)) \/ WriteRest
    PROVE  LogInv'
<1> DEFINE n == Len(files[dest])
           m == Len(files'[dest])
           b == Len(lines)
           l == Len(lines')
<1>1. LogShapes
  BY DEF LogInv
<1>2. /\ path' = path /\ dest' = dest
      /\ lines' \in Seq(Texts) /\ l \in Lines /\ l \in {b, b + 1}
      /\ files' \in [Inodes -> Seq(Cell)]
      /\ \A f \in Inodes \ {dest} : files'[f] = files[f]
      /\ m \in {n + 1, n + 2}
      /\ \A k \in DOMAIN files[dest] : files'[dest][k] = files[dest][k]
      /\ \A k \in n + 1 .. m : files'[dest][k].line = l
      /\ IF MidLine
         THEN /\ l = b /\ whole' = whole /\ m = n + 1
              /\ files'[dest][n + 1] = [line |-> l, half |-> 2]
         ELSE /\ l = b + 1 /\ files'[dest][n + 1] = [line |-> l, half |-> 1]
              /\ IF m = n + 1
                 THEN whole' = whole
                 ELSE /\ files'[dest][n + 2] = [line |-> l, half |-> 2]
                      /\ whole' = whole \cup {l}
  BY WriteShapes
<1>3. /\ n \in Nat /\ b \in Nat /\ l \in Nat \ {0} /\ m \in Nat /\ l <= MaxLines
      /\ dest \in Inodes /\ dest \in Nat \ {0} /\ MaxLines \in Nat
      /\ DOMAIN files[dest] = 1 .. n /\ Len(lines) <= MaxLines
  BY <1>1, <1>2, FileShapes, LogConstants DEF Lines, LogShapes
<1>4. DOMAIN files'[dest] = 1 .. m
  BY <1>2, <1>3, LenProperties
<1>5. /\ files[dest] # <<>> <=> n # 0
      /\ MidLine <=> n # 0 /\ files[dest][n].half = 1
      /\ \A k \in 1 .. n : files[dest][k] \in Cell
  BY <1>1, <1>3, FileShapes DEF MidLine
<1>6. MidLine' <=> files'[dest][m].half = 1
  <2>1. m # 0 /\ files'[dest] \in Seq(Cell)
    BY <1>2, <1>3
  <2>2. files'[dest] # <<>>
    BY <1>3, <2>1, EmptySeq
  <2> QED
    BY <1>2, <2>2 DEF MidLine
<1>7. MidLine' => ~MidLine /\ m = n + 1 /\ whole' = whole
  BY <1>2, <1>3, <1>6
<1>8. MidLine => files[dest][n].line = b /\ b \notin whole /\ n < 2 * b
  BY <1>1 DEF LogShapes
<1>9. /\ n <= 2 * b /\ whole \subseteq 1 .. b
      /\ \A k \in 1 .. n : files[dest][k].line <= b
  BY <1>1, <1>3 DEF LogShapes
<1> HIDE DEF n, m, b, l
<1>10. LogShapes'
  <2>1. m <= 2 * l /\ (MidLine' => m < 2 * l)
    BY <1>2, <1>3, <1>7, <1>8, <1>9
  <2>2. \A k \in 1 .. m : files'[dest][k].line <= l
    <3>1. \A k \in 1 .. m : k \in 1 .. n \/ k \in n + 1 .. m
      BY <1>2, <1>3
    <3>2. \A k \in 1 .. n : files'[dest][k].line <= l
      <4> SUFFICES ASSUME NEW k \in 1 .. n
                   PROVE  files'[dest][k].line <= l
        OBVIOUS
      <4>1. files[dest][k] \in Cell /\ files[dest][k].line \in Nat
        BY <1>1, <1>5, LogConstants
      <4>2. files[dest][k].line <= b /\ files'[dest][k] = files[dest][k]
        BY <1>2, <1>3, <1>9
      <4> QED
        BY SMTT(30), <1>2, <1>3, <4>1, <4>2
    <3> QED
      BY <1>2, <1>3, <3>1, <3>2
  <2>3. \A f \in Inodes \ {dest} :
           /\ Len(files'[f]) <= 2 * l
           /\ f > dest => files'[f] = <<>>
           /\ \A k \in DOMAIN files'[f] : files'[f][k].line <= l
    <3> SUFFICES ASSUME NEW f \in Inodes \ {dest}
                 PROVE  /\ Len(files[f]) <= 2 * l
                        /\ f > dest => files[f] = <<>>
                        /\ \A k \in DOMAIN files[f] : files[f][k].line <= l
      BY <1>2
    <3>1. /\ Len(files[f]) <= 2 * b /\ Len(files[f]) \in Nat
          /\ \A k \in DOMAIN files[f] : files[f][k] \in Cell /\ files[f][k].line <= b
      BY <1>1, FileShapes DEF LogShapes, b
    <3>2. \A k \in DOMAIN files[f] : files[f][k].line \in Nat
      BY <1>1, <3>1, LogConstants
    <3>3. b <= l
      BY <1>2, <1>3
    <3>4. f > dest => files[f] = <<>>
      BY <1>1 DEF LogShapes
    <3>5. \A k \in DOMAIN files[f] : files[f][k].line <= l
      BY <1>3, <3>1, <3>2, <3>3
    <3>6. Len(files[f]) <= 2 * l
      BY <1>3, <3>1, <3>3
    <3> QED
      BY <3>4, <3>5, <3>6
  <2>4. whole' \subseteq 1 .. l
    <3>1. whole' \subseteq whole \cup {l} /\ (MidLine => whole' = whole /\ l = b)
      BY <1>2
    <3>2. 1 .. b \subseteq 1 .. l /\ l \in 1 .. l
      BY <1>2, <1>3
    <3> QED
      BY <1>9, <3>1, <3>2
  <2>5. MidLine' => files'[dest][m].line = l /\ l \notin whole'
    BY <1>2, <1>3, <1>7, <1>9
  <2>6. path \in {NoFile, dest, dest + 1} /\ path \in Inodes \cup {NoFile}
        /\ (path = NoFile => dest + 1 \in Inodes)
    BY <1>1 DEF LogShapes
  <2>7. /\ Len(lines') <= MaxLines
        /\ \A f \in Inodes :
              /\ Len(files'[f]) <= 2 * Len(lines')
              /\ f > dest => files'[f] = <<>>
              /\ \A k \in DOMAIN files'[f] : files'[f][k].line <= Len(lines')
    <3>1. ~(dest > dest)
      BY <1>3
    <3> QED
      BY <1>3, <1>4, <2>1, <2>2, <2>3, <3>1 DEF m, l
  <2>8. MidLine' => /\ Len(files'[dest]) < 2 * Len(lines')
                    /\ files'[dest][Len(files'[dest])].line = Len(lines')
                    /\ Len(lines') \notin whole'
    BY <2>1, <2>5 DEF m, l
  <2>9. whole' \subseteq 1 .. Len(lines')
    BY <2>4 DEF l
  <2> QED
    BY <1>2, <1>3, <2>6, <2>7, <2>8, <2>9 DEF LogShapes
<1>11. CellsPaired'
  <2>1. ASSUME NEW f \in Inodes, f # dest, NEW k \in DOMAIN files'[f]
        PROVE  IF files'[f][k].half = 1
               THEN \/ /\ k + 1 \in DOMAIN files'[f]
                       /\ files'[f][k + 1] = [line |-> files'[f][k].line, half |-> 2]
                    \/ k = Len(files'[f]) /\ f = dest
               ELSE /\ k - 1 \in DOMAIN files'[f]
                    /\ files'[f][k - 1] = [line |-> files'[f][k].line, half |-> 1]
    <3>1. files'[f] = files[f]
      BY <1>2, <2>1
    <3>2. k \in DOMAIN files[f]
      BY <3>1
    <3>3. IF files[f][k].half = 1
          THEN \/ /\ k + 1 \in DOMAIN files[f]
                  /\ files[f][k + 1] = [line |-> files[f][k].line, half |-> 2]
               \/ k = Len(files[f]) /\ f = dest
          ELSE /\ k - 1 \in DOMAIN files[f]
               /\ files[f][k - 1] = [line |-> files[f][k].line, half |-> 1]
      BY <3>2 DEF LogInv, CellsPaired
    <3> QED
      BY <3>1, <3>3
  <2>2. ASSUME NEW k \in 1 .. m
        PROVE  IF files'[dest][k].half = 1
               THEN \/ /\ k + 1 \in 1 .. m
                       /\ files'[dest][k + 1] = [line |-> files'[dest][k].line, half |-> 2]
                    \/ k = m
               ELSE /\ k - 1 \in 1 .. m
                    /\ files'[dest][k - 1] = [line |-> files'[dest][k].line, half |-> 1]
    <3>1. CASE k \in 1 .. n
      <4>1. files'[dest][k] = files[dest][k]
        BY <1>2, <1>3, <3>1
      <4>2. IF files[dest][k].half = 1
            THEN \/ /\ k + 1 \in 1 .. n
                    /\ files[dest][k + 1] = [line |-> files[dest][k].line, half |-> 2]
                 \/ k = n
            ELSE /\ k - 1 \in 1 .. n
                 /\ files[dest][k - 1] = [line |-> files[dest][k].line, half |-> 1]
        BY <1>3, <3>1 DEF LogInv, CellsPaired, n
      <4>3. CASE k = n /\ files[dest][k].half = 1
        <5>1. MidLine
          BY <1>3, <1>5, <4>3, <3>1
        <5>2. files'[dest][n + 1] = [line |-> files[dest][n].line, half |-> 2] /\ m = n + 1
          BY <1>2, <1>8, <5>1
        <5>3. k + 1 \in 1 .. m
          BY <1>3, <4>3, <5>2
        <5>4. files'[dest][n] = files[dest][n] /\ files[dest][n].half = 1 /\ k = n
          BY <4>1, <4>3
        <5>5. files'[dest][n].half = 1
              /\ files'[dest][n + 1] = [line |-> files'[dest][n].line, half |-> 2]
          BY <5>2, <5>4
        <5> QED
          BY <5>3, <5>4, <5>5
      <4>4. CASE files[dest][k].half = 1 /\ k # n
        <5>1. k + 1 \in 1 .. n
              /\ files[dest][k + 1] = [line |-> files[dest][k].line, half |-> 2]
          BY <4>2, <4>4
        <5>2. k + 1 \in 1 .. m
          <6>1. n <= m
            BY <1>2, <1>3
          <6> QED
            BY <1>3, <5>1, <6>1
        <5>3. files'[dest][k + 1] = files[dest][k + 1]
          BY <1>2, <1>3, <5>1
        <5> QED
          BY <4>1, <4>4, <5>1, <5>2, <5>3
      <4>5. CASE files[dest][k].half # 1
        <5>1. k - 1 \in 1 .. n
              /\ files[dest][k - 1] = [line |-> files[dest][k].line, half |-> 1]
          BY <4>2, <4>5
        <5>2. k - 1 \in 1 .. m
          <6>1. n <= m
            BY <1>2, <1>3
          <6> QED
            BY <1>3, <5>1, <6>1
        <5>3. files'[dest][k - 1] = files[dest][k - 1]
          BY <1>2, <1>3, <5>1
        <5> QED
          BY <4>1, <4>5, <5>1, <5>2, <5>3
      <4> QED
        BY <4>3, <4>4, <4>5
    <3>2. CASE k = n + 1 /\ MidLine
      <4>1. files[dest][n] = [line |-> b, half |-> 1] /\ n \in 1 .. n
        <5>1. n \in 1 .. n /\ files[dest][n] \in Cell
          BY <1>3, <1>5, <3>2
        <5> QED
          BY <1>5, <1>8, <3>2, <5>1 DEF Cell
      <4>2. files'[dest][n] = [line |-> l, half |-> 1]
        BY <1>2, <1>3, <3>2, <4>1
      <4> QED
        BY <1>2, <1>3, <3>2, <4>1, <4>2
    <3>3. CASE k = n + 1 /\ ~MidLine
      BY <1>2, <1>3, <3>3
    <3>4. CASE k = n + 2
      BY <1>2, <1>3, <3>4
    <3> QED
      BY <1>2, <1>3, <3>1, <3>2, <3>3, <3>4
  <2> QED
    BY <1>2, <1>4, <2>1, <2>2 DEF CellsPaired, m
<1>12. CellsInOrder'
  <2>1. ASSUME NEW j \in 1 .. m, NEW k \in 1 .. m, j < k
        PROVE  \/ files'[dest][j].line < files'[dest][k].line
               \/ /\ files'[dest][j].line = files'[dest][k].line
                  /\ files'[dest][j].half = 1 /\ files'[dest][k].half = 2
    <3>1. CASE k \in 1 .. n
      <4>1. j \in 1 .. n
        BY <1>3, <2>1, <3>1
      <4>2. files'[dest][j] = files[dest][j] /\ files'[dest][k] = files[dest][k]
        BY <1>2, <1>3, <3>1, <4>1
      <4> QED
        BY <1>3, <2>1, <3>1, <4>1, <4>2 DEF LogInv, CellsInOrder
    <3>2. CASE k \notin 1 .. n /\ j \in 1 .. n
      <4>1. /\ files'[dest][j] = files[dest][j] /\ files[dest][j].line <= b
            /\ files[dest][j] \in Cell
        BY <1>2, <1>3, <1>5, <1>9, <3>2
      <4>2. files[dest][j].line \in Nat /\ files'[dest][k].line = l
        <5>1. k \in n + 1 .. m
          BY <1>3, <3>2
        <5> QED
          BY <1>1, <1>2, <4>1, <5>1, LogConstants
      <4>3. CASE ~MidLine
        BY SMTT(30), <1>2, <1>3, <4>1, <4>2, <4>3
      <4>4. CASE MidLine
        <5>1. k = n + 1 /\ files'[dest][k].half = 2 /\ l = b
          BY <1>2, <1>3, <3>2, <4>4
        <5>2. n \in 1 .. n /\ files[dest][n].line = b /\ files[dest][n].half = 1
          BY <1>3, <1>5, <1>8, <4>4
        <5>3. CASE j = n
          BY <4>1, <4>2, <5>1, <5>2, <5>3
        <5>4. CASE j < n
          <6>1. files[dest][j].line < files[dest][n].line \/ files[dest][n].half = 2
            BY <1>3, <3>2, <5>2, <5>4 DEF LogInv, CellsInOrder
          <6> QED
            BY <4>1, <4>2, <5>1, <5>2, <6>1
        <5> QED
          BY <1>3, <3>2, <5>3, <5>4
      <4> QED
        BY <4>3, <4>4
    <3>3. CASE k \notin 1 .. n /\ j \notin 1 .. n
      <4>1. j = n + 1 /\ k = n + 2 /\ m = n + 2
        BY <1>2, <1>3, <2>1, <3>3
      <4> QED
        BY <1>2, <1>3, <4>1
    <3> QED
      BY <3>1, <3>2, <3>3
  <2>2. ASSUME NEW f \in Inodes, f # dest, NEW j \in DOMAIN files'[f],
               NEW k \in DOMAIN files'[f], j < k
        PROVE  \/ files'[f][j].line < files'[f][k].line
               \/ /\ files'[f][j].line = files'[f][k].line
                  /\ files'[f][j].half = 1 /\ files'[f][k].half = 2
    <3>1. files'[f] = files[f] /\ j \in DOMAIN files[f] /\ k \in DOMAIN files[f]
      BY <1>2, <2>2
    <3>2. \/ files[f][j].line < files[f][k].line
          \/ /\ files[f][j].line = files[f][k].line
             /\ files[f][j].half = 1 /\ files[f][k].half = 2
      BY <2>2, <3>1 DEF LogInv, CellsInOrder
    <3> QED
      BY <3>1, <3>2
  <2>3. ASSUME NEW f \in Inodes, NEW j \in DOMAIN files'[f],
               NEW k \in DOMAIN files'[f], j < k
        PROVE  \/ files'[f][j].line < files'[f][k].line
               \/ /\ files'[f][j].line = files'[f][k].line
                  /\ files'[f][j].half = 1 /\ files'[f][k].half = 2
    <3>1. CASE f = dest
      <4>1. j \in 1 .. m /\ k \in 1 .. m
        BY <1>4, <2>3, <3>1 DEF m
      <4> QED
        BY <2>1, <2>3, <3>1, <4>1
    <3>2. CASE f # dest
      BY <2>2, <2>3, <3>2
    <3> QED
      BY <3>1, <3>2
  <2> QED
    BY <2>3 DEF CellsInOrder
<1>13. FilesInOrder'
  <2> SUFFICES ASSUME NEW f \in Inodes, NEW g \in Inodes, f < g,
                      NEW j \in DOMAIN files'[f], NEW k \in DOMAIN files'[g]
               PROVE  files'[f][j].line < files'[g][k].line
    BY DEF FilesInOrder
  <2>1. f \in Nat /\ g \in Nat
    BY <1>1, FileShapes
  <2>2. CASE f # dest /\ g # dest
    BY <1>2, <2>2 DEF LogInv, FilesInOrder
  <2>3. CASE f = dest
    <3>1. g > dest /\ files'[g] = files[g]
      BY <1>2, <1>3, <2>1, <2>3
    <3>2. files[g] = <<>>
      BY <1>1, <3>1 DEF LogShapes
    <3> QED
      BY <3>1, <3>2
  <2>4. CASE f # dest /\ g = dest
    <3>1. files'[f] = files[f] /\ j \in DOMAIN files[f] /\ f < dest
      BY <1>2, <2>4
    <3>2. files[f][j].line <= b /\ files[f][j].line \in Nat
      <4>1. files[f][j] \in Cell
        BY <1>1, <3>1, FileShapes
      <4>2. files[f][j].line <= b
        BY <1>1, <3>1 DEF LogShapes, b
      <4> QED
        BY <1>1, <4>1, <4>2, LogConstants
    <3>3. CASE k \in 1 .. n
      BY <1>2, <1>3, <2>4, <3>1, <3>3 DEF LogInv, FilesInOrder
    <3>4. CASE k \notin 1 .. n
      <4>1. files'[dest][k].line = l
        BY <1>2, <1>3, <1>4, <2>4, <3>4
      <4>2. CASE ~MidLine
        BY <1>2, <1>3, <2>4, <3>1, <3>2, <4>1, <4>2
      <4>3. CASE MidLine
        <5>1. n \in DOMAIN files[dest] /\ files[dest][n].line = b /\ l = b
          BY <1>2, <1>3, <1>5, <1>8, <4>3
        <5>2. files[f][j].line < files[dest][n].line
          BY <1>3, <3>1, <5>1 DEF LogInv, FilesInOrder
        <5> QED
          BY <2>4, <3>1, <4>1, <5>1, <5>2
      <4> QED
        BY <4>2, <4>3
    <3> QED
      BY <3>3, <3>4
  <2> QED
    BY <2>2, <2>3, <2>4
<1> QED
  BY <1>10, <1>11, <1>12, <1>13 DEF LogInv

(* logrotate moves no cell; a file is left with its lines complete.        *)
LEMMA RotateKeepsLog ==
    ASSUME LogInv, RenameLog \/ CreateLog \/ ReopenLog
    PROVE  LogInv' /\ UNCHANGED <<lines, files, whole>> /\ Upcoming' >= Upcoming
<1>1. LogShapes /\ UNCHANGED <<lines, files, whole>> /\ MaxFiles \in Nat /\ dest \in Nat
  BY LogConstants DEF LogInv, RenameLog, CreateLog, ReopenLog
<1>2. CASE RenameLog \/ CreateLog
  <2>1. dest' = dest /\ MidLine' = MidLine
    BY <1>1, <1>2 DEF RenameLog, CreateLog, MidLine
  <2>2. /\ path' \in {NoFile, dest, dest + 1} /\ path' \in Inodes \cup {NoFile}
        /\ path' = NoFile => dest + 1 \in Inodes
    BY <1>1, <1>2 DEF RenameLog, CreateLog, LogShapes, Inodes, NoFile
  <2>3. LogShapes'
    BY <1>1, <2>1, <2>2 DEF LogShapes
  <2>4. Upcoming' >= Upcoming
    BY <1>1, <1>2 DEF RenameLog, CreateLog, Upcoming, NoFile
  <2> QED
    BY <1>1, <2>1, <2>3, <2>4 DEF LogInv, CellsPaired, CellsInOrder, FilesInOrder
<1>3. CASE ReopenLog
  <2>1. path = dest + 1 /\ dest' = dest + 1 /\ path' = path /\ ~MidLine
        /\ dest + 1 \in Inodes
    BY <1>3 DEF ReopenLog, LogInv, LogShapes
  <2>2. files[dest + 1] = <<>>
    BY <1>1, <2>1 DEF LogShapes
  <2>3. ~MidLine'
    BY <1>1, <2>1, <2>2 DEF MidLine
  <2>4. \A f \in Inodes : f > dest + 1 => f > dest
    BY <1>1 DEF Inodes
  <2>5. LogShapes'
    BY <1>1, <2>1, <2>3, <2>4 DEF LogShapes, NoFile
  <2>6. CellsPaired'
    <3>1. \A k \in DOMAIN files[dest] : ~(k = Len(files[dest]) /\ files[dest][k].half = 1)
      BY <1>1, <2>1, EmptySeq, FileShapes, LogConstants DEF MidLine
    <3> QED
      BY <1>1, <3>1 DEF LogInv, CellsPaired
  <2>7. Upcoming' >= Upcoming
    BY <1>1, <2>1 DEF Upcoming, NoFile
  <2> QED
    BY <1>1, <2>5, <2>6, <2>7 DEF LogInv, CellsInOrder, FilesInOrder
<1> QED
  BY <1>2, <1>3

(* What the logger and logrotate leave as it was, and where a new cell is. *)
LogGrows ==
    /\ \A f \in Inodes :
          /\ Len(files[f]) <= Len(files'[f])
          /\ \A k \in DOMAIN files[f] : k \in DOMAIN files'[f] /\ files'[f][k] = files[f][k]
          /\ \A k \in DOMAIN files'[f] \ DOMAIN files[f] :
                \/ Len(lines) < files'[f][k].line
                \/ /\ MidLine /\ f = dest /\ k = Len(files[dest]) + 1
                   /\ files'[f][k] = [line |-> Len(lines), half |-> 2]
    /\ Len(lines) <= Len(lines')
    /\ \A i \in 1 .. Len(lines) : lines'[i] = lines[i] /\ (i \in whole' <=> i \in whole)
    /\ Upcoming <= Upcoming'
    /\ MidLine' => Len(lines) < Len(lines') \/ (MidLine /\ Len(lines') = Len(lines))

LEMMA LoggerGrows ==
    ASSUME LogInv, LoggerNext
    PROVE  LogInv' /\ LogGrows
<1>1. LogShapes
  BY DEF LogInv
<1>2. CASE (\E t \in Texts : WriteLine(t) \/ WriteHalf(t)) \/ WriteRest
  <2> DEFINE n == Len(files[dest])
             m == Len(files'[dest])
             b == Len(lines)
             l == Len(lines')
  <2>1. /\ path' = path /\ dest' = dest
        /\ l \in {b, b + 1}
        /\ \A i \in 1 .. b : lines'[i] = lines[i]
        /\ files' \in [Inodes -> Seq(Cell)]
        /\ \A f \in Inodes \ {dest} : files'[f] = files[f]
        /\ m \in {n + 1, n + 2}
        /\ \A k \in DOMAIN files[dest] : files'[dest][k] = files[dest][k]
        /\ \A k \in n + 1 .. m : files'[dest][k].line = l
        /\ IF MidLine
           THEN /\ l = b /\ whole' = whole /\ m = n + 1
                /\ files'[dest][n + 1] = [line |-> l, half |-> 2]
           ELSE /\ l = b + 1
                /\ IF m = n + 1 THEN whole' = whole ELSE whole' = whole \cup {l}
    BY <1>2, WriteShapes
  <2>2. LogInv'
    BY <1>2, WriteKeepsLog
  <2>3. /\ n \in Nat /\ b \in Nat /\ dest \in Inodes /\ dest \in Nat
        /\ DOMAIN files[dest] = 1 .. n /\ DOMAIN files'[dest] = 1 .. m /\ m \in Nat
        /\ \A f \in Inodes : Len(files[f]) \in Nat
    BY <1>1, <2>1, LogConstants, FileShapes, LenProperties
  <2> HIDE DEF n, m, b, l
  <2>4. \A k \in 1 .. n : k \in 1 .. m
    BY <2>1, <2>3
  <2>5. \A k \in (1 .. m) \ (1 .. n) :
           \/ b < files'[dest][k].line
           \/ MidLine /\ k = n + 1 /\ files'[dest][k] = [line |-> b, half |-> 2]
    <3>1. \A k \in (1 .. m) \ (1 .. n) : k \in n + 1 .. m
      BY <2>1, <2>3
    <3>2. MidLine => \A k \in n + 1 .. m : k = n + 1
      BY <2>1, <2>3
    <3>3. ~MidLine => b < l
      BY <2>1, <2>3
    <3> QED
      BY <2>1, <3>1, <3>2, <3>3
  <2>6. n <= m /\ b <= l /\ Upcoming' = Upcoming
    BY <2>1, <2>3 DEF Upcoming
  <2>7. \A f \in Inodes :
          /\ Len(files[f]) <= Len(files'[f])
          /\ \A k \in DOMAIN files[f] : k \in DOMAIN files'[f] /\ files'[f][k] = files[f][k]
          /\ \A k \in DOMAIN files'[f] \ DOMAIN files[f] :
                \/ Len(lines) < files'[f][k].line
                \/ /\ MidLine /\ f = dest /\ k = Len(files[dest]) + 1
                   /\ files'[f][k] = [line |-> Len(lines), half |-> 2]
    <3> SUFFICES ASSUME NEW f \in Inodes
                 PROVE  /\ Len(files[f]) <= Len(files'[f])
                        /\ \A k \in DOMAIN files[f] :
                              k \in DOMAIN files'[f] /\ files'[f][k] = files[f][k]
                        /\ \A k \in DOMAIN files'[f] \ DOMAIN files[f] :
                              \/ Len(lines) < files'[f][k].line
                              \/ /\ MidLine /\ f = dest /\ k = Len(files[dest]) + 1
                                 /\ files'[f][k] = [line |-> Len(lines), half |-> 2]
      OBVIOUS
    <3>1. CASE f # dest
      <4>1. files'[f] = files[f] /\ Len(files[f]) \in Nat
        BY <2>1, <2>3, <3>1
      <4> QED
        BY <4>1
    <3>2. CASE f = dest
      <4>1. \A k \in DOMAIN files[dest] :
               k \in DOMAIN files'[dest] /\ files'[dest][k] = files[dest][k]
        BY <2>1, <2>3, <2>4
      <4>2. \A k \in DOMAIN files'[dest] \ DOMAIN files[dest] :
               \/ b < files'[dest][k].line
               \/ /\ MidLine /\ k = n + 1
                  /\ files'[dest][k] = [line |-> b, half |-> 2]
        BY <2>3, <2>5
      <4> QED
        BY <2>6, <3>2, <4>1, <4>2 DEF n, m, b
    <3> QED
      BY <3>1, <3>2
  <2>8. \A i \in 1 .. b : lines'[i] = lines[i] /\ (i \in whole' <=> i \in whole)
    <3>1. ~MidLine => l \notin 1 .. b
      BY <2>1, <2>3
    <3> QED
      BY <2>1, <3>1
  <2>9. Upcoming <= Upcoming'
    <3>1. Upcoming \in Nat
      BY <1>1, <2>3 DEF Upcoming, LogShapes, NoFile
    <3> QED
      BY <2>6, <3>1
  <2>10. MidLine' => b < l \/ (MidLine /\ l = b)
    BY <2>1, <2>3
  <2> QED
    BY <2>2, <2>6, <2>7, <2>8, <2>9, <2>10 DEF LogGrows, b, l
<1>3. CASE RenameLog \/ CreateLog \/ ReopenLog
  <2>1. LogInv' /\ UNCHANGED <<lines, files, whole>> /\ Upcoming' >= Upcoming
    BY <1>3, RotateKeepsLog
  <2>2. MidLine' => MidLine
    <3>1. CASE RenameLog \/ CreateLog
      BY <2>1, <3>1 DEF RenameLog, CreateLog, MidLine
    <3>2. CASE ReopenLog
      <4>1. dest' = dest + 1 /\ dest + 1 \in Inodes /\ dest \in Nat
        BY <1>1, <3>2, LogConstants DEF ReopenLog, LogShapes
      <4>2. files'[dest'] = <<>>
        BY <1>1, <2>1, <4>1 DEF LogShapes
      <4> QED
        BY <4>2 DEF MidLine
    <3> QED
      BY <1>3, <3>1, <3>2
  <2>3. \A f \in Inodes : Len(files[f]) \in Nat
    BY <1>1, FileShapes
  <2>4. Len(lines) \in Nat /\ Upcoming <= Upcoming'
    BY <1>1, <2>1, LogConstants
  <2> QED
    BY <2>1, <2>2, <2>3, <2>4 DEF LogGrows
<1> QED
  BY <1>2, <1>3 DEF LoggerNext

-----------------------------------------------------------------------------
(* The monitor while the log grows *)

LEMMA UpcomingShape == LogShapes => Upcoming \in Nat
<1> SUFFICES ASSUME LogShapes
             PROVE  Upcoming \in Nat
  OBVIOUS
<1>1. dest \in Nat /\ \A f \in Inodes : f \in Nat
  BY LogConstants, FileShapes
<1> QED
  BY <1>1 DEF Upcoming, LogShapes, NoFile

LEMMA ReadToShapes ==
    ASSUME LogInv, MonitorShapes
    PROVE  /\ ReadTo \in Nat /\ pos \in Nat /\ pos <= ReadTo
           /\ posOf \in Nat /\ Upcoming \in Nat
           /\ IF posOf = NoFile
              THEN pos = 0 /\ ReadTo = 0 /\ ~Polling
              ELSE posOf \in Inodes /\ ReadTo <= Len(files[posOf])
           /\ Polling => /\ Len(poll.buf) \in Nat /\ poll.off \in Nat
                         /\ poll.off = ReadTo + Len(poll.buf)
                         /\ DOMAIN poll.buf = 1 .. Len(poll.buf)
           /\ ~Polling => ReadTo = pos
<1>1. LogShapes
  BY DEF LogInv
<1>2. Inodes \subseteq Nat \ {0} /\ dest \in Nat /\ NoFile = 0
  BY <1>1, LogConstants, FileShapes DEF NoFile
<1>3. pos \in Nat /\ posOf \in Nat /\ Upcoming \in Nat
  BY <1>1, <1>2 DEF MonitorShapes, LogShapes, Upcoming
<1>4. poll.buf \in Seq(Cell) /\ poll.off \in Nat
  BY DEF MonitorShapes
<1>5. Len(poll.buf) \in Nat /\ DOMAIN poll.buf = 1 .. Len(poll.buf)
  BY <1>4, LenProperties
<1>6. Len(<<>>) = 0
  OBVIOUS
<1>7. CASE Polling
  <2>1. posOf # NoFile /\ posOf \in Inodes /\ pos + Len(poll.buf) <= poll.off
        /\ poll.off <= Len(files[posOf])
    BY <1>7 DEF MonitorShapes, Polling
  <2>2. Len(files[posOf]) \in Nat
    BY <1>1, <2>1, FileShapes
  <2> QED
    BY <1>3, <1>4, <1>5, <1>7, <2>1, <2>2 DEF ReadTo
<1>8. CASE ~Polling
  <2>1. ReadTo = pos /\ pos <= Len(Open(posOf)) /\ posOf \in Inodes \cup {NoFile}
    BY <1>8 DEF MonitorShapes, ReadTo
  <2> QED
    BY <1>3, <1>6, <1>8, <2>1 DEF Open
<1> QED
  BY <1>7, <1>8

LEMMA EventShapes ==
    ASSUME LogInv, MonitorShapes
    PROVE  /\ DOMAIN logins = 1 .. Len(logins) /\ Len(logins) \in Nat
           /\ DOMAIN poll.events = 1 .. Len(poll.events) /\ Len(poll.events) \in Nat
           /\ \A k \in DOMAIN logins : logins[k] \in Event /\ logins[k].line \in Nat \ {0}
           /\ \A k \in DOMAIN poll.events :
                 poll.events[k] \in Event /\ poll.events[k].line \in Nat \ {0}
<1>1. logins \in Seq(Event) /\ poll.events \in Seq(Event)
  BY DEF MonitorShapes
<1>2. \A e \in Event : e.line \in Nat \ {0}
  BY LogConstants DEF LogInv, Event
<1> QED
  BY <1>1, <1>2, LenProperties, ElementOfSeq

LEMMA BegunStays ==
    ASSUME LogInv, LogGrows, LogInv', NEW i \in Nat \ {0}, Begun(i)
    PROVE  /\ i <= Len(lines')
           /\ i = Len(lines') /\ MidLine' => Matched(Visible(lines'[i], {1}))
<1>1. Len(lines) \in Nat /\ Len(lines') \in Nat
  BY LenProperties DEF LogInv, LogShapes
<1>2. i \in 1 .. Len(lines) /\ Len(lines) <= Len(lines')
  BY <1>1 DEF Begun, LogGrows
<1>3. lines'[i] = lines[i]
  BY <1>2 DEF LogGrows
<1> QED
  BY <1>1, <1>2, <1>3 DEF Begun, LogGrows, FirstHalfMatched

(* A new cell is of a new line, or the rest of the last; the first half of *)
(* that one is still to be read, or has just been.                         *)
LEMMA BeforeStays ==
    ASSUME LogInv, MonitorShapes, LogGrows, LogInv', posOf' = posOf,
           NEW i \in Nat \ {0}, Begun(i),
           NEW at \in Nat, posOf \in Inodes => at <= Len(files[posOf]), Before(i, at)
    PROVE  \A f \in Inodes : \A k \in DOMAIN files'[f] :
               (f = posOf' /\ k > at) \/ (f > posOf' /\ f >= Upcoming') =>
                   \/ i < files'[f][k].line
                   \/ /\ f = posOf' /\ k = at + 1
                      /\ files'[f][k] = [line |-> i, half |-> 2]
                      /\ Matched(Visible(lines'[i], {1}))
<1>1. LogShapes /\ Len(lines) \in Nat /\ i \in 1 .. Len(lines)
  <2>1. LogShapes
    BY DEF LogInv
  <2>2. Len(lines) \in Nat /\ i <= Len(lines)
    BY <2>1, LogConstants DEF Begun
  <2> QED
    BY <2>1, <2>2
<1>2. lines'[i] = lines[i] /\ Upcoming <= Upcoming' /\ Upcoming \in Nat /\ Upcoming' \in Nat
  <2>1. Upcoming' \in Nat
    <3>1. (LogShapes => Upcoming \in Nat)'
      BY UpcomingShape, PTL
    <3> QED
      BY <3>1 DEF LogInv
  <2> QED
    BY <1>1, <2>1, ReadToShapes DEF LogGrows
<1> SUFFICES ASSUME NEW f \in Inodes, NEW k \in DOMAIN files'[f],
                    (f = posOf /\ k > at) \/ (f > posOf /\ f >= Upcoming')
             PROVE  \/ i < files'[f][k].line
                    \/ /\ f = posOf /\ k = at + 1
                       /\ files'[f][k] = [line |-> i, half |-> 2]
                       /\ Matched(Visible(lines'[i], {1}))
  OBVIOUS
<1>3. (f = posOf /\ k > at) \/ (f > posOf /\ f >= Upcoming)
  <2>1. f \in Nat
    BY <1>1, FileShapes
  <2> QED
    BY <1>2, <2>1
<1>4. CASE k \in DOMAIN files[f]
  <2>1. files'[f][k] = files[f][k]
    BY <1>4 DEF LogGrows
  <2>2. \/ i < files[f][k].line
        \/ /\ f = posOf /\ k = at + 1 /\ files[f][k] = [line |-> i, half |-> 2]
           /\ Matched(Visible(lines[i], {1}))
    BY <1>3, <1>4 DEF Before, FirstHalfMatched
  <2> QED
    BY <1>2, <2>1, <2>2
<1>5. CASE k \notin DOMAIN files[f] /\ Len(lines) < files'[f][k].line
  <2>1. files'[f][k].line \in Nat
    <3>1. files'[f] \in Seq(Cell)
      BY DEF LogInv, LogShapes
    <3>2. files'[f][k] \in Cell
      BY <3>1, LenProperties, ElementOfSeq
    <3> QED
      BY <1>1, <3>2, LogConstants
  <2> QED
    BY <1>1, <1>5, <2>1
<1>6. CASE /\ MidLine /\ f = dest /\ k = Len(files[dest]) + 1
           /\ files'[f][k] = [line |-> Len(lines), half |-> 2]
  <2> DEFINE n == Len(files[dest])
  <2>1. n \in DOMAIN files[dest] /\ n \in Nat /\ dest \in Inodes
        /\ files[dest][n].half = 1 /\ files[dest][n].line = Len(lines)
    BY <1>1, <1>6, FileShapes, LogConstants DEF MidLine, LogShapes
  <2>2. files[dest][n] # [line |-> i, half |-> 2]
    BY <2>1
  <2>3. CASE f = posOf /\ at = n
    <3>1. k = at + 1 /\ files'[f][k] = [line |-> Len(lines), half |-> 2]
      BY <1>6, <2>3
    <3>2. CASE i = Len(lines)
      <4>1. Matched(Visible(lines'[i], {1}))
        BY <1>2, <1>6, <3>2 DEF Begun, FirstHalfMatched
      <4> QED
        BY <2>3, <3>1, <3>2, <4>1
    <3>3. CASE i < Len(lines)
      BY <3>1, <3>3
    <3> QED
      BY <1>1, <3>2, <3>3
  <2>4. CASE ~(f = posOf /\ at = n)
    <3>1. (dest = posOf /\ n > at) \/ (dest > posOf /\ dest >= Upcoming)
      BY <1>3, <1>6, <2>1, <2>4
    <3>2. i < Len(lines)
      BY <2>1, <2>2, <3>1 DEF Before
    <3> QED
      BY <1>6, <3>2
  <2> QED
    BY <2>3, <2>4
<1> QED
  BY <1>4, <1>5, <1>6 DEF LogGrows

(* The cells the monitor has read stay, and so does what is owed for them. *)
LEMMA LoggerKeeps ==
    ASSUME LogInv, MonitorShapes, LoggerNext, UNCHANGED <<monitorVars, phase, logins>>
    PROVE  /\ LogInv' /\ MonitorShapes'
           /\ OrderInv => OrderInv'
           /\ RecordInv => RecordInv'
<1>1. LogInv' /\ LogGrows /\ LogShapes
  BY LoggerGrows DEF LogInv
<1>2. UNCHANGED <<pos, poll, since, posOf, outgrown, phase, logins>>
      /\ ReadTo' = ReadTo /\ Polling' = Polling
  BY DEF monitorVars, ReadTo, Polling
<1>3. /\ ReadTo \in Nat /\ pos \in Nat /\ pos <= ReadTo
      /\ posOf \in Nat /\ Upcoming \in Nat
      /\ IF posOf = NoFile
         THEN pos = 0 /\ ReadTo = 0 /\ ~Polling
         ELSE posOf \in Inodes /\ ReadTo <= Len(files[posOf])
      /\ Polling => /\ Len(poll.buf) \in Nat /\ poll.off \in Nat
                    /\ poll.off = ReadTo + Len(poll.buf)
                    /\ DOMAIN poll.buf = 1 .. Len(poll.buf)
  BY ReadToShapes
<1>4. posOf \in Inodes =>
        /\ Len(files[posOf]) \in Nat /\ DOMAIN files[posOf] = 1 .. Len(files[posOf])
        /\ Len(files'[posOf]) \in Nat /\ Len(files[posOf]) <= Len(files'[posOf])
        /\ DOMAIN files'[posOf] = 1 .. Len(files'[posOf])
        /\ \A k \in DOMAIN files[posOf] : files'[posOf][k] = files[posOf][k]
  <2>1. posOf \in Inodes => files'[posOf] \in Seq(Cell)
    BY <1>1 DEF LogInv, LogShapes
  <2> QED
    BY <1>1, <2>1, FileShapes, LenProperties DEF LogGrows
<1>5. MonitorShapes'
  <2>1. Upcoming' \in Nat /\ Upcoming <= Upcoming'
    <3>1. (LogShapes => Upcoming \in Nat)'
      BY UpcomingShape, PTL
    <3> QED
      BY <1>1, <3>1 DEF LogInv, LogGrows
  <2>2. posOf <= Upcoming'
    <3>1. posOf <= Upcoming
      BY DEF MonitorShapes
    <3> QED
      BY <1>3, <2>1, <3>1
  <2>3. since \in 0 .. Len(lines')
    <3>1. since \in 0 .. Len(lines) /\ Len(lines) \in Nat /\ Len(lines') \in Nat
      BY <1>1, LenProperties DEF MonitorShapes, LogInv, LogShapes
    <3> QED
      BY <1>1, <3>1 DEF LogGrows
  <2>4. pos <= Len(Open(posOf)')
    <3>1. posOf = NoFile => Open(posOf)' = <<>> /\ Len(<<>>) = 0
      BY <1>2 DEF Open
    <3>2. posOf # NoFile => Open(posOf)' = files'[posOf]
      BY <1>2 DEF Open
    <3> QED
      BY <1>3, <1>4, <3>1, <3>2
  <2>5. Polling =>
          /\ poll.off <= Len(files'[posOf])
          /\ \A k \in DOMAIN poll.buf : poll.buf[k] = files'[posOf][ReadTo + k]
    <3> SUFFICES ASSUME Polling
                 PROVE  /\ poll.off <= Len(files'[posOf])
                        /\ \A k \in DOMAIN poll.buf : poll.buf[k] = files'[posOf][ReadTo + k]
      OBVIOUS
    <3>1. posOf \in Inodes /\ poll.off <= Len(files[posOf])
      BY <1>3 DEF MonitorShapes
    <3>2. \A k \in DOMAIN poll.buf :
            poll.buf[k] = files[posOf][ReadTo + k] /\ ReadTo + k \in DOMAIN files[posOf]
      <4>1. \A k \in DOMAIN poll.buf : poll.buf[k] = files[posOf][ReadTo + k]
        BY DEF MonitorShapes
      <4>2. \A k \in DOMAIN poll.buf : ReadTo + k \in 1 .. Len(files[posOf])
        BY <1>3, <1>4, <3>1
      <4> QED
        BY <1>4, <3>1, <4>1, <4>2
    <3> QED
      BY <1>3, <1>4, <3>1, <3>2
  <2> QED
    BY <1>2, <2>2, <2>3, <2>4, <2>5 DEF MonitorShapes
<1>6. ASSUME OrderInv
      PROVE  OrderInv'
  <2>1. /\ \A k \in DOMAIN logins : logins[k].line \in Nat \ {0}
        /\ \A k \in DOMAIN poll.events : poll.events[k].line \in Nat \ {0}
    BY EventShapes
  <2>2. ASSUME NEW i \in Nat \ {0}, Begun(i)
        PROVE  Begun(i)'
    BY <1>1, <2>2, BegunStays DEF Begun, FirstHalfMatched
  <2>3. /\ \A k \in DOMAIN logins : Begun(logins[k].line)
        /\ \A k \in DOMAIN poll.events : Begun(poll.events[k].line)
    BY <1>6 DEF OrderInv
  <2>4. /\ \A k \in DOMAIN logins' : Begun(logins[k].line)'
        /\ \A k \in DOMAIN poll.events' : Begun(poll.events[k].line)'
    BY <1>2, <2>1, <2>2, <2>3 DEF Begun, FirstHalfMatched
  <2>5. ASSUME NEW i \in Nat \ {0}, Begun(i), Before(i, pos)
        PROVE  Before(i, pos)'
    <3>1. posOf \in Inodes => pos <= Len(files[posOf])
      BY <1>3, <1>4 DEF NoFile
    <3> QED
      BY <1>1, <1>2, <1>3, <2>5, <3>1, BeforeStays DEF Before, FirstHalfMatched
  <2>6. ASSUME NEW i \in Nat \ {0}, Begun(i), Before(i, ReadTo)
        PROVE  Before(i, ReadTo)'
    <3>1. posOf \in Inodes => ReadTo <= Len(files[posOf])
      BY <1>3, <1>4 DEF NoFile
    <3> QED
      BY <1>1, <1>2, <1>3, <2>6, <3>1, BeforeStays DEF Before, FirstHalfMatched
  <2>7. phase' # "stopped" =>
           /\ \A k \in DOMAIN logins' :
                 Before(logins[k].line, pos)' /\ Before(logins[k].line, ReadTo)'
           /\ \A k \in DOMAIN poll.events' : Before(poll.events[k].line, ReadTo)'
    BY <1>2, <1>6, <2>1, <2>3, <2>5, <2>6 DEF OrderInv, Before, FirstHalfMatched
  <2>8. LoginsInOrder'
    BY <1>2, <1>6 DEF OrderInv, LoginsInOrder
  <2> QED
    BY <1>2, <1>6, <2>4, <2>7, <2>8 DEF OrderInv
<1>7. ASSUME RecordInv
      PROVE  RecordInv'
  <2>1. \A i \in 1 .. Len(lines) :
          /\ lines'[i] = lines[i] /\ (i \in whole' <=> i \in whole)
          /\ (/\ i > since' /\ i \in whole' /\ Matched(Visible(lines'[i], {1, 2}))
              /\ Wanted(Saying(i, Visible(lines'[i], {1, 2})))) => Owed(i)
    BY <1>1, <1>2 DEF LogGrows, Owed, Whole
  <2> SUFFICES ASSUME ~outgrown, posOf # NoFile
               PROVE  RecordInv'
    BY <1>2 DEF RecordInv
  <2>2. /\ Between(pos) /\ Between(ReadTo)
        /\ \A k \in 1 .. ReadTo :
              LET i == files[posOf][k].line IN Owed(i) => Recorded(i) \/ Reported(i)
        /\ Polling => \A k \in 1 .. pos :
              LET i == files[posOf][k].line IN Owed(i) => Recorded(i)
    BY <1>7 DEF RecordInv
  <2>3. posOf \in Inodes /\ ReadTo <= Len(files[posOf]) /\ pos <= ReadTo
        /\ DOMAIN files[posOf] = 1 .. Len(files[posOf])
        /\ DOMAIN files'[posOf] = 1 .. Len(files'[posOf])
    BY <1>3, <1>4
  <2>4. \A k \in DOMAIN files[posOf] :
          /\ files'[posOf][k] = files[posOf][k]
          /\ files[posOf][k].line \in 1 .. Len(lines)
    <3>1. \A k \in DOMAIN files[posOf] : files[posOf][k] \in Cell
      BY <1>1, <2>3, FileShapes
    <3>2. \A k \in DOMAIN files[posOf] :
            files[posOf][k].line \in Nat \ {0} /\ files[posOf][k].line <= Len(lines)
      BY <1>1, <2>3, <3>1, LogConstants DEF LogShapes
    <3>3. Len(lines) \in Nat
      BY <1>1, LogConstants
    <3> QED
      BY <1>4, <2>3, <3>2, <3>3
  <2>5. \A at \in 0 .. ReadTo : at \in DOMAIN files'[posOf] => at \in DOMAIN files[posOf]
    BY <1>3, <1>4, <2>3
  <2>6. ASSUME NEW at \in 0 .. ReadTo, Between(at), at \in DOMAIN files'[posOf],
               files'[posOf][at].half = 1
        PROVE  files'[posOf][at].line \notin whole'
    BY <2>1, <2>4, <2>5, <2>6 DEF Between
  <2>7. Between(pos)' /\ Between(ReadTo)'
    <3>1. pos \in 0 .. ReadTo /\ ReadTo \in 0 .. ReadTo
      BY <1>3
    <3> QED
      BY <1>2, <2>2, <2>6, <3>1 DEF Between
  <2>8. \A k \in 1 .. ReadTo : k \in DOMAIN files[posOf]
    BY <1>3, <1>4, <2>3
  <2>9. ASSUME NEW k \in 1 .. ReadTo
        PROVE  LET i == files'[posOf][k].line
               IN  /\ i > since' /\ i \in whole' /\ Matched(Visible(lines'[i], {1, 2}))
                   /\ Wanted(Saying(i, Visible(lines'[i], {1, 2})))
               => Owed(i) /\ i = files[posOf][k].line /\ lines'[i] = lines[i]
    <3> DEFINE i == files[posOf][k].line
    <3>1. files'[posOf][k] = files[posOf][k] /\ i \in 1 .. Len(lines)
      BY <2>4, <2>8
    <3>2. files'[posOf][k].line = i
      BY <3>1
    <3> HIDE DEF i
    <3>3. /\ lines'[i] = lines[i]
          /\ (/\ i > since' /\ i \in whole' /\ Matched(Visible(lines'[i], {1, 2}))
              /\ Wanted(Saying(i, Visible(lines'[i], {1, 2})))) => Owed(i)
      BY <2>1, <3>1
    <3> QED
      BY <3>2, <3>3 DEF i
  <2>10. \A k \in 1 .. pos : k \in 1 .. ReadTo
    BY <1>3
  <2>11. \A k \in 1 .. ReadTo' :
            LET i == files'[posOf'][k].line
            IN  /\ i > since' /\ i \in whole' /\ Matched(Visible(lines'[i], {1, 2}))
                /\ Wanted(Saying(i, Visible(lines'[i], {1, 2})))
                => \/ \E j \in DOMAIN logins' : logins'[j].line = i
                   \/ \E j \in DOMAIN poll'.events :
                         poll'.events[j] = Saying(i, Visible(lines'[i], {1, 2}))
    BY <1>2, <2>2, <2>9 DEF Recorded, Reported, Whole
  <2>12. Polling' => \A k \in 1 .. pos' :
            LET i == files'[posOf'][k].line
            IN  /\ i > since' /\ i \in whole' /\ Matched(Visible(lines'[i], {1, 2}))
                /\ Wanted(Saying(i, Visible(lines'[i], {1, 2})))
                => \E j \in DOMAIN logins' : logins'[j].line = i
    BY <1>2, <2>2, <2>9, <2>10 DEF Recorded
  <2> QED
    BY <2>7, <2>11, <2>12 DEF RecordInv, Owed, Recorded, Reported, Whole
<1> QED
  BY <1>1, <1>5, <1>6, <1>7

-----------------------------------------------------------------------------
(* The monitor while the log stays *)

LEMMA LogStays ==
    ASSUME LogInv, UNCHANGED logVars
    PROVE  /\ LogInv' /\ UNCHANGED <<lines, files, path, dest, whole>>
           /\ Upcoming' = Upcoming /\ MidLine' = MidLine
<1>1. UNCHANGED <<lines, files, path, dest, whole>>
  BY DEF logVars
<1>2. Upcoming' = Upcoming /\ MidLine' = MidLine
  BY <1>1 DEF Upcoming, MidLine
<1>3. LogShapes'
  BY <1>1, <1>2 DEF LogInv, LogShapes
<1>4. CellsPaired' /\ CellsInOrder' /\ FilesInOrder'
  BY <1>1 DEF LogInv, CellsPaired, CellsInOrder, FilesInOrder
<1> QED
  BY <1>1, <1>2, <1>3, <1>4 DEF LogInv

(* Who has been told nothing has nothing out of order.                     *)
LEMMA MonitorMade ==
    ASSUME LogInv, MonitorShapes, UNCHANGED <<logVars, logins>>, NewMonitor,
           phase' \notin {"auth", "logins"}
    PROVE  /\ LogInv' /\ MonitorShapes'
           /\ OrderInv => OrderInv'
           /\ RecordInv'
<1>1. /\ LogInv' /\ UNCHANGED <<lines, files, path, dest, whole>>
      /\ Upcoming' = Upcoming /\ MidLine' = MidLine
  BY LogStays
<1>2. /\ pos' = Len(Open(path)) /\ since' = Len(lines) /\ posOf' = path /\ outgrown' = FALSE
      /\ poll' = [file |-> NoFile, off |-> 0, buf |-> <<>>, events |-> <<>>]
  BY DEF NewMonitor, NoPoll
<1>3. ~Polling' /\ ReadTo' = pos'
  BY <1>2 DEF Polling, ReadTo
<1>4. /\ LogShapes /\ dest \in Nat /\ Len(lines) \in Nat
      /\ \A f \in Inodes : f \in Nat \ {0} /\ DOMAIN files[f] = 1 .. Len(files[f])
                           /\ Len(files[f]) \in Nat
  BY FileShapes, LogConstants DEF LogInv
<1>5. pos' \in Nat /\ (path # NoFile => pos' = Len(files[path]) /\ path \in Inodes)
      /\ (path = NoFile => pos' = 0)
  <2>1. Len(<<>>) = 0
    OBVIOUS
  <2> QED
    BY <1>2, <1>4, <2>1 DEF Open, LogShapes
<1>6. MonitorShapes'
  <2>1. path <= Upcoming /\ path \in Inodes \cup {NoFile}
    BY <1>4 DEF Upcoming, LogShapes, NoFile
  <2>2. pos' <= Len(Open(posOf)')
    <3>1. Open(posOf)' = Open(path)
      BY <1>1, <1>2 DEF Open
    <3> QED
      BY <1>2, <1>5, <3>1
  <2>3. poll' \in [file : Inodes \cup {NoFile}, off : Nat, buf : Seq(Cell), events : Seq(Event)]
    BY <1>2, EmptySeq
  <2>4. since' \in 0 .. Len(lines')
    BY <1>1, <1>2, <1>4
  <2>5. logins' \in Seq(Event)
    BY DEF MonitorShapes
  <2> QED
    BY <1>1, <1>2, <1>3, <1>5, <2>1, <2>2, <2>3, <2>4, <2>5 DEF MonitorShapes
<1>7. \A i : Before(i, pos)'
  <2> SUFFICES ASSUME NEW f \in Inodes, NEW k \in DOMAIN files[f],
                      (f = path /\ k > pos') \/ (f > path /\ f >= Upcoming)
               PROVE  FALSE
    BY <1>1, <1>2 DEF Before
  <2>1. CASE f = path
    BY <1>4, <1>5, <2>1 DEF NoFile
  <2>2. CASE f > path /\ f >= Upcoming
    <3>1. f > dest
      BY <1>4, <2>2 DEF Upcoming, LogShapes, NoFile
    <3> QED
      BY <1>4, <3>1 DEF LogShapes
  <2> QED
    BY <2>1, <2>2
<1>8. DOMAIN poll'.events = {}
  BY <1>2
<1>9. ASSUME OrderInv
      PROVE  OrderInv'
  <2>1. \A k \in DOMAIN logins : Begun(logins[k].line)
    BY <1>9 DEF OrderInv
  <2>2. \A k \in DOMAIN logins' : Begun(logins[k].line)'
    BY <1>1, <2>1 DEF Begun, FirstHalfMatched
  <2>3. LoginsInOrder'
    BY <1>9 DEF OrderInv, LoginsInOrder
  <2>4. \A k \in DOMAIN logins' :
           Before(logins[k].line, pos)' /\ Before(logins[k].line, ReadTo)'
    BY <1>3, <1>7 DEF Before, FirstHalfMatched
  <2> QED
    BY <1>8, <2>2, <2>3, <2>4 DEF OrderInv
<1>10. RecordInv'
  <2> SUFFICES ASSUME path # NoFile
               PROVE  RecordInv'
    BY <1>2 DEF RecordInv
  <2>1. path \in Inodes /\ pos' = Len(files[path])
    BY <1>5
  <2>2. Between(pos)'
    <3> SUFFICES ASSUME pos' \in DOMAIN files[path], files[path][pos'].half = 1
                 PROVE  files[path][pos'].line \notin whole
      BY <1>1, <1>2 DEF Between
    <3>1. pos' + 1 \notin DOMAIN files[path]
      BY <1>4, <2>1
    <3>2. path = dest
      BY <2>1, <3>1 DEF LogInv, CellsPaired
    <3>3. MidLine
      BY <1>4, <2>1, <3>2 DEF MidLine
    <3> QED
      BY <1>4, <2>1, <3>2, <3>3 DEF LogShapes
  <2>3. \A k \in DOMAIN files[path] :
          files[path][k].line <= Len(lines) /\ files[path][k].line \in Nat
    BY <1>4, <2>1, LogConstants, FileShapes DEF LogShapes
  <2>4. \A k \in 1 .. pos' : ~(files[path][k].line > since')
    BY <1>2, <1>4, <2>1, <2>3
  <2>5. \A k \in 1 .. pos' : LET i == files'[posOf'][k].line IN ~(i > since')
    BY <1>1, <1>2, <2>4
  <2> QED
    BY <1>3, <2>2, <2>5 DEF RecordInv, Owed, Between
<1> QED
  BY <1>1, <1>6, <1>9, <1>10

LEMMA MonitorGone ==
    ASSUME LogInv, MonitorShapes, Stop
    PROVE  /\ LogInv' /\ MonitorShapes'
           /\ OrderInv => OrderInv'
           /\ RecordInv'
<1>1. /\ LogInv' /\ UNCHANGED <<lines, files, path, dest, whole>>
      /\ Upcoming' = Upcoming /\ MidLine' = MidLine
  BY LogStays DEF Stop
<1>2. /\ pos' = 0 /\ since' = 0 /\ posOf' = NoFile /\ outgrown' = FALSE
      /\ poll' = [file |-> NoFile, off |-> 0, buf |-> <<>>, events |-> <<>>]
      /\ logins' = logins /\ phase' = "stopped"
  BY DEF Stop, NoPoll
<1>3. ~Polling'
  BY <1>2 DEF Polling
<1>4. MonitorShapes'
  <2>1. Upcoming \in Nat /\ Len(lines) \in Nat
    BY UpcomingShape, LogConstants DEF LogInv
  <2>2. 0 <= Upcoming' /\ 0 \in 0 .. Len(lines')
    BY <1>1, <2>1
  <2>3. pos' <= Len(Open(posOf)')
    <3>1. Open(posOf)' = <<>> /\ Len(<<>>) = 0
      BY <1>2 DEF Open
    <3> QED
      BY <1>2, <3>1
  <2>4. poll' \in [file : Inodes \cup {NoFile}, off : Nat, buf : Seq(Cell), events : Seq(Event)]
    BY <1>2, EmptySeq
  <2> QED
    BY <1>2, <1>3, <2>2, <2>3, <2>4 DEF MonitorShapes, NoFile
<1>5. ASSUME OrderInv
      PROVE  OrderInv'
  <2>1. \A k \in DOMAIN logins : Begun(logins[k].line)
    BY <1>5 DEF OrderInv
  <2>2. \A k \in DOMAIN logins' : Begun(logins[k].line)'
    BY <1>1, <1>2, <2>1 DEF Begun, FirstHalfMatched
  <2>3. LoginsInOrder'
    BY <1>2, <1>5 DEF OrderInv, LoginsInOrder
  <2>4. DOMAIN poll'.events = {}
    BY <1>2
  <2> QED
    BY <1>2, <2>2, <2>3, <2>4 DEF OrderInv
<1> QED
  BY <1>1, <1>2, <1>4, <1>5 DEF RecordInv

(* Whatever else the loop does between its polls.                          *)
LEMMA LoopKeeps ==
    ASSUME LogInv, MonitorShapes, UNCHANGED <<logVars, monitorVars, logins>>,
           phase = "stopped" => phase' = "stopped",
           Polling => phase' = "auth",
           ~Polling /\ phase' # "logins" => poll.events = <<>>
    PROVE  /\ LogInv' /\ MonitorShapes'
           /\ OrderInv => OrderInv'
           /\ RecordInv => RecordInv'
<1>1. /\ LogInv' /\ UNCHANGED <<lines, files, path, dest, whole>>
      /\ Upcoming' = Upcoming /\ MidLine' = MidLine
  BY LogStays
<1>2. UNCHANGED <<pos, poll, since, posOf, outgrown, logins>>
      /\ Polling' = Polling /\ ReadTo' = ReadTo
  BY DEF monitorVars, Polling, ReadTo
<1>3. MonitorShapes'
  BY <1>1, <1>2 DEF MonitorShapes, Open
<1>4. ASSUME OrderInv
      PROVE  OrderInv'
  <2>1. LoginsInOrder'
    <3>1. LoginsInOrder /\ logins' = logins
      BY <1>2, <1>4 DEF OrderInv
    <3> QED
      BY <3>1 DEF LoginsInOrder
  <2>2. phase' # "stopped" => phase # "stopped"
    OBVIOUS
  <2>3. /\ \A k \in DOMAIN logins' : Begun(logins[k].line)'
        /\ \A k \in DOMAIN poll.events' : Begun(poll.events[k].line)'
    BY <1>1, <1>2, <1>4 DEF OrderInv, Begun, FirstHalfMatched
  <2> QED
    <3>1. phase' # "stopped" =>
            /\ \A k \in DOMAIN logins' :
                  Before(logins[k].line, pos)' /\ Before(logins[k].line, ReadTo)'
            /\ \A k \in DOMAIN poll.events' : Before(poll.events[k].line, ReadTo)'
      BY SMTT(30), <1>1, <1>2, <1>4, <2>2 DEF OrderInv, Before, FirstHalfMatched
    <3> QED
      BY <1>2, <1>4, <2>1, <2>3, <3>1 DEF OrderInv
<1>5. RecordInv => RecordInv'
  BY <1>1, <1>2 DEF RecordInv, Between, Owed, Whole, Recorded, Reported
<1> QED
  BY <1>1, <1>3, <1>4, <1>5

-----------------------------------------------------------------------------
(* A poll *)

(* The file opened is the one read last, from where it was left, or a      *)
(* later one, which holds none of the lines told so far.                   *)
LEMMA OpenKeeps ==
    ASSUME LogInv, MonitorShapes, UNCHANGED <<logVars, phase, logins>>, PollOpen,
           phase = "auth", AuthEnabled
    PROVE  /\ LogInv' /\ MonitorShapes'
           /\ OrderInv => OrderInv'
           /\ RecordInv => RecordInv'
<1> DEFINE start == IF Len(files[path]) < pos THEN 0 ELSE pos
<1>1. /\ LogInv' /\ UNCHANGED <<lines, files, path, dest, whole>>
      /\ Upcoming' = Upcoming /\ MidLine' = MidLine
      /\ UNCHANGED <<phase, logins, since>>
  BY LogStays DEF PollOpen
<1>2. /\ ~Polling /\ path # NoFile
      /\ pos' = start /\ posOf' = path
      /\ poll' = [file |-> path, off |-> start, buf |-> <<>>, events |-> <<>>]
      /\ outgrown' = (outgrown \/ (start > 0 /\ posOf # path))
  BY DEF PollOpen, NoPoll
<1>3. LogShapes /\ path \in Inodes /\ path \in Nat /\ Upcoming = path
      /\ Len(files[path]) \in Nat /\ DOMAIN files[path] = 1 .. Len(files[path])
  BY <1>2, FileShapes DEF LogInv, LogShapes, Upcoming
<1>4. /\ ReadTo = pos /\ pos \in Nat /\ posOf \in Nat /\ posOf <= path
      /\ IF posOf = NoFile THEN pos = 0
         ELSE posOf \in Inodes /\ pos <= Len(files[posOf])
  BY <1>2, <1>3, ReadToShapes DEF MonitorShapes
<1>5. /\ start \in Nat /\ start <= Len(files[path])
      /\ posOf = path => start = pos
  BY <1>2, <1>3, <1>4
<1> HIDE DEF start
<1>6. Polling' /\ ReadTo' = start
  <2>1. Len(<<>>) = 0 /\ start - 0 = start
    BY <1>5
  <2> QED
    BY <1>2, <2>1 DEF Polling, ReadTo
<1>7. DOMAIN poll.events = {} /\ DOMAIN poll'.events = {}
  <2>1. poll.events = <<>>
    BY <1>2 DEF MonitorShapes
  <2> QED
    BY <1>2, <2>1
<1>8. MonitorShapes'
  <2>1. /\ poll' \in [file : Inodes \cup {NoFile}, off : Nat, buf : Seq(Cell),
                      events : Seq(Event)]
        /\ poll'.file = path /\ poll'.off = start /\ poll'.buf = <<>>
    BY <1>2, <1>3, <1>5, EmptySeq
  <2>2. Open(posOf)' = files[path] /\ posOf' <= Upcoming' /\ path <= path
    BY <1>1, <1>2, <1>3 DEF Open
  <2>3. outgrown' \in BOOLEAN /\ since' \in 0 .. Len(lines') /\ logins' \in Seq(Event)
    BY <1>1, <1>2 DEF MonitorShapes
  <2>4. pos' + Len(<<>>) <= start /\ DOMAIN poll'.buf = {}
    <3>1. Len(<<>>) = 0 /\ start + 0 <= start
      BY <1>5
    <3> QED
      BY <1>2, <2>1, <3>1
  <2> QED
    BY <1>1, <1>2, <1>3, <1>5, <1>6, <2>1, <2>2, <2>3, <2>4 DEF MonitorShapes
<1>9. ASSUME OrderInv
      PROVE  OrderInv'
  <2>1. \A k \in DOMAIN logins' : Begun(logins[k].line)'
    BY <1>1, <1>9 DEF OrderInv, Begun, FirstHalfMatched
  <2>2. LoginsInOrder'
    <3>1. LoginsInOrder /\ logins' = logins
      BY <1>1, <1>9 DEF OrderInv
    <3> QED
      BY <3>1 DEF LoginsInOrder
  <2>3. ASSUME NEW i, Before(i, pos)
        PROVE  Before(i, pos)'
    <3> SUFFICES ASSUME NEW f \in Inodes, NEW k \in DOMAIN files[f],
                        (f = path /\ k > start) \/ (f > path /\ f >= path)
                 PROVE  \/ i < files[f][k].line
                        \/ /\ f = path /\ k = start + 1
                           /\ files[f][k] = [line |-> i, half |-> 2]
                           /\ FirstHalfMatched(i)
      BY <1>1, <1>2, <1>3 DEF Before, FirstHalfMatched
    <3>1. f \in Nat
      BY <1>3, FileShapes
    <3>2. CASE posOf = path
      BY <1>3, <1>5, <2>3, <3>2 DEF Before
    <3>3. CASE posOf # path
      <4>1. f > posOf /\ f >= Upcoming
        BY <1>3, <1>4, <3>1, <3>3
      <4> QED
        BY <2>3, <4>1, <3>1, <1>4 DEF Before
    <3> QED
      BY <3>2, <3>3
  <2>4. \A k \in DOMAIN logins : Before(logins[k].line, pos)
    BY <1>9 DEF OrderInv
  <2>5. \A k \in DOMAIN logins' :
           Before(logins[k].line, pos)' /\ Before(logins[k].line, ReadTo)'
    BY <1>1, <1>2, <1>6, <2>3, <2>4 DEF Before, FirstHalfMatched
  <2> QED
    BY <1>7, <2>1, <2>2, <2>5 DEF OrderInv
<1>10. ASSUME RecordInv
       PROVE  RecordInv'
  <2> SUFFICES ASSUME ~outgrown'
               PROVE  RecordInv'
    BY DEF RecordInv
  <2>1. ~outgrown /\ (start = 0 \/ posOf = path)
    <3>1. outgrown \in BOOLEAN
      BY DEF MonitorShapes
    <3>2. ~(outgrown \/ (start > 0 /\ posOf # path))
      BY <1>2
    <3> QED
      BY <1>5, <3>1, <3>2
  <2>2. Between(pos)' /\ \A k \in 1 .. start :
          LET i == files[path][k].line IN Owed(i) => Recorded(i)
    <3>1. CASE start = 0
      BY <1>1, <1>2, <1>3, <3>1 DEF Between
    <3>2. CASE posOf = path
      <4>1. /\ Between(pos) /\ \A k \in 1 .. pos :
                 LET i == files[path][k].line IN Owed(i) => Recorded(i) \/ Reported(i)
        BY <1>2, <1>4, <1>10, <2>1, <3>2 DEF RecordInv
      <4> QED
        BY <1>1, <1>2, <1>5, <1>7, <3>2, <4>1 DEF Between, Reported
    <3> QED
      BY <2>1, <3>1, <3>2
  <2>3. (\A k \in 1 .. pos : LET i == files[posOf][k].line IN Owed(i) => Recorded(i))'
    BY <1>1, <1>2, <2>2 DEF Owed, Whole, Recorded
  <2>4. pos' = ReadTo'
    BY <1>2, <1>6
  <2> QED
    BY <2>2, <2>3, <2>4 DEF RecordInv, Between
<1> QED
  BY <1>1, <1>8, <1>9, <1>10

(* Filling the buffer reads nothing yet: it goes on holding what follows.  *)
LEMMA FillKeeps ==
    ASSUME LogInv, MonitorShapes, UNCHANGED <<logVars, phase, logins>>, PollFill,
           phase = "auth", AuthEnabled
    PROVE  /\ LogInv' /\ MonitorShapes'
           /\ OrderInv => OrderInv'
           /\ RecordInv => RecordInv'
<1> DEFINE file == files[posOf]
           more == SubSeq(file, poll.off + 1, Len(file))
           held == Len(poll.buf)
<1>1. /\ LogInv' /\ UNCHANGED <<lines, files, path, dest, whole>>
      /\ Upcoming' = Upcoming /\ MidLine' = MidLine
      /\ UNCHANGED <<phase, logins, pos, since, posOf, outgrown>>
  BY LogStays DEF PollFill
<1>2. /\ Polling /\ poll.file = posOf /\ posOf # NoFile
      /\ poll \in [file : Inodes \cup {NoFile}, off : Nat, buf : Seq(Cell), events : Seq(Event)]
      /\ poll.off < Len(file)
      /\ poll' = [poll EXCEPT !.buf = poll.buf \o more, !.off = Len(file)]
  BY DEF PollFill, MonitorShapes, Polling
<1>3. /\ posOf \in Inodes /\ file \in Seq(Cell) /\ Len(file) \in Nat
      /\ DOMAIN file = 1 .. Len(file) /\ \A k \in 1 .. Len(file) : file[k] \in Cell
  BY <1>2, ReadToShapes, FileShapes DEF LogInv
<1>4. /\ ReadTo \in Nat /\ pos \in Nat /\ pos <= ReadTo /\ held \in Nat /\ poll.off \in Nat
      /\ poll.off = ReadTo + held /\ DOMAIN poll.buf = 1 .. held
  BY <1>2, ReadToShapes
<1> HIDE DEF file, more, held
<1>5. /\ more \in Seq(Cell) /\ Len(more) = Len(file) - poll.off
      /\ \A k \in 1 .. Len(file) - poll.off : more[k] = file[poll.off + k]
  <2>1. poll.off + 1 \in Int /\ Len(file) \in Int
        /\ \A k \in poll.off + 1 .. Len(file) : file[k] \in Cell
    BY <1>3, <1>4
  <2>2. /\ more \in Seq(Cell)
        /\ Len(more) = IF poll.off + 1 <= Len(file)
                       THEN Len(file) - (poll.off + 1) + 1 ELSE 0
        /\ \A k \in 1 .. Len(file) - (poll.off + 1) + 1 :
              more[k] = file[poll.off + 1 + k - 1]
    BY <2>1, SubSeqProperties DEF more
  <2>3. Len(file) - (poll.off + 1) + 1 = Len(file) - poll.off
        /\ \A k \in 1 .. Len(file) - poll.off : poll.off + 1 + k - 1 = poll.off + k
    BY <1>3, <1>4
  <2>4. poll.off + 1 <= Len(file)
    BY <1>2, <1>3, <1>4
  <2>5. \A k \in 1 .. Len(file) - poll.off : more[k] = file[poll.off + k]
    BY <2>2, <2>3
  <2> QED
    BY <2>2, <2>3, <2>4, <2>5
<1>6. /\ poll'.buf = poll.buf \o more /\ poll'.off = Len(file)
      /\ poll'.file = poll.file /\ poll'.events = poll.events
      /\ poll' \in [file : Inodes \cup {NoFile}, off : Nat, buf : Seq(Cell), events : Seq(Event)]
  <2>1. poll.buf \o more \in Seq(Cell)
    BY <1>2, <1>5, ConcatProperties
  <2> QED
    BY <1>2, <1>3, <2>1
<1>7. /\ Len(poll'.buf) = Len(file) - ReadTo
      /\ DOMAIN poll'.buf = 1 .. Len(file) - ReadTo
      /\ \A k \in 1 .. Len(file) - ReadTo :
            poll'.buf[k] = IF k <= held THEN poll.buf[k] ELSE more[k - held]
  <2>1. /\ Len(poll'.buf) = held + Len(more)
        /\ \A k \in 1 .. held + Len(more) :
              poll'.buf[k] = IF k <= held THEN poll.buf[k] ELSE more[k - held]
    <3>1. poll.buf \in Seq(Cell) /\ Len(poll.buf) = held
      BY <1>2 DEF held
    <3>2. /\ Len(poll.buf \o more) = Len(poll.buf) + Len(more)
          /\ \A k \in 1 .. Len(poll.buf) + Len(more) :
                (poll.buf \o more)[k]
                    = IF k <= Len(poll.buf) THEN poll.buf[k] ELSE more[k - Len(poll.buf)]
      BY <1>5, <3>1, ConcatProperties
    <3> QED
      BY <1>6, <3>1, <3>2
  <2>2. held + Len(more) = Len(file) - ReadTo
    BY <1>3, <1>4, <1>5
  <2>3. DOMAIN poll'.buf = 1 .. Len(poll'.buf)
    BY <1>6, LenProperties
  <2> QED
    BY <2>1, <2>2, <2>3
<1>8. \A k \in 1 .. Len(file) - ReadTo : poll'.buf[k] = file[ReadTo + k]
  <2> SUFFICES ASSUME NEW k \in 1 .. Len(file) - ReadTo
               PROVE  poll'.buf[k] = file[ReadTo + k]
    OBVIOUS
  <2>1. CASE k <= held
    <3>1. k \in DOMAIN poll.buf
      BY <1>3, <1>4, <2>1
    <3> QED
      BY <1>2, <1>7, <2>1, <3>1 DEF MonitorShapes, file
  <2>2. CASE ~(k <= held)
    <3>1. k - held \in 1 .. Len(file) - poll.off /\ poll.off + (k - held) = ReadTo + k
      BY <1>2, <1>3, <1>4, <2>2
    <3> QED
      BY <1>5, <1>7, <2>2, <3>1
  <2> QED
    BY <2>1, <2>2
<1>9. Polling' /\ ReadTo' = ReadTo
  <2>1. Polling'
    BY <1>2, <1>6 DEF Polling
  <2>2. ReadTo' = Len(file) - (Len(file) - ReadTo)
    BY <1>6, <1>7, <2>1 DEF ReadTo
  <2> QED
    BY <1>3, <1>4, <2>1, <2>2
<1>10. MonitorShapes'
  <2>1. /\ Open(posOf)' = Open(posOf) /\ files'[posOf'] = file
    BY <1>1 DEF Open, file
  <2>2. pos' + Len(poll'.buf) <= poll'.off /\ poll'.off <= Len(file)
    BY <1>1, <1>3, <1>4, <1>6, <1>7
  <2>3. \A k \in DOMAIN poll'.buf : poll'.buf[k] = files'[posOf'][ReadTo' + k]
    BY <1>7, <1>8, <1>9, <2>1
  <2>4. poll'.file = posOf' /\ phase' = "auth"
    BY <1>1, <1>2, <1>6
  <2> QED
    BY <1>1, <1>6, <1>9, <2>1, <2>2, <2>3, <2>4 DEF MonitorShapes
<1>11. ASSUME OrderInv
       PROVE  OrderInv'
  <2>1. LoginsInOrder'
    <3>1. LoginsInOrder /\ logins' = logins
      BY <1>1, <1>11 DEF OrderInv
    <3> QED
      BY <3>1 DEF LoginsInOrder
  <2>2. /\ \A k \in DOMAIN logins' : Begun(logins[k].line)'
        /\ \A k \in DOMAIN poll.events' : Begun(poll.events[k].line)'
    BY <1>1, <1>6, <1>11 DEF OrderInv, Begun, FirstHalfMatched
  <2> QED
    BY <1>1, <1>6, <1>9, <1>11, <2>1, <2>2 DEF OrderInv, Before, FirstHalfMatched
<1>12. ASSUME RecordInv
       PROVE  RecordInv'
  BY <1>1, <1>2, <1>6, <1>9, <1>12
     DEF RecordInv, Between, Owed, Whole, Recorded, Reported
<1> QED
  BY <1>1, <1>10, <1>11, <1>12

(* read_line: the rest of a line whose first half was read before, a whole *)
(* line, or the first half of one whose rest is still to be written.       *)
Taking(halves) ==
    LET r == ReadTo
        l == poll.buf[1].line
    IN  /\ TakenWords = Visible(lines[l], halves)
        /\ CASE halves = {2} ->
                  /\ Taken = 1 /\ files[posOf][r + 1] = [line |-> l, half |-> 2]
                  /\ r \in DOMAIN files[posOf]
                  /\ files[posOf][r] = [line |-> l, half |-> 1]
             [] halves = {1, 2} ->
                  /\ Taken = 2 /\ files[posOf][r + 1] = [line |-> l, half |-> 1]
                  /\ files[posOf][r + 2] = [line |-> l, half |-> 2]
             [] halves = {1} ->
                  /\ Taken = 1 /\ files[posOf][r + 1] = [line |-> l, half |-> 1]
                  /\ posOf = dest /\ r + 1 = Len(files[posOf])
                  /\ MidLine /\ l = Len(lines)

LEMMA LeastIsChosen ==
    ASSUME NEW S \in SUBSET Nat, NEW m \in S, \A j \in S : m <= j
    PROVE  (CHOOSE k \in S : \A j \in S : k <= j) = m
<1> DEFINE c == CHOOSE k \in S : \A j \in S : k <= j
<1>1. c \in S /\ \A j \in S : c <= j
  OBVIOUS
<1> HIDE DEF c
<1>2. c = m
  BY <1>1
<1> QED
  BY <1>2 DEF c

LEMMA TakenShapes ==
    ASSUME LogInv, MonitorShapes, CanTake
    PROVE  /\ Polling /\ posOf \in Inodes /\ Len(poll.buf) \in Nat
           /\ poll.buf[1] \in Cell /\ poll.buf[1].line \in 1 .. Len(lines)
           /\ Taken \in {1, 2} /\ Taken <= Len(poll.buf)
           /\ ReadTo + Taken <= Len(files[posOf])
           /\ Taking({1}) \/ Taking({2}) \/ Taking({1, 2})
<1> DEFINE file == files[posOf]
           buf == poll.buf
           c == poll.buf[1]
           r == ReadTo
<1>1. LogShapes /\ Polling /\ buf # <<>> /\ (Ends(buf) # {} \/ Exhausted)
  BY DEF LogInv, CanTake
<1>2. /\ r \in Nat /\ posOf \in Inodes /\ Len(buf) \in Nat /\ poll.off = r + Len(buf)
      /\ DOMAIN buf = 1 .. Len(buf) /\ poll.off <= Len(file) /\ poll.file = posOf
      /\ \A k \in DOMAIN buf : buf[k] = file[r + k]
  BY <1>1, ReadToShapes DEF MonitorShapes, Polling
<1>3. /\ file \in Seq(Cell) /\ Len(file) \in Nat /\ DOMAIN file = 1 .. Len(file)
      /\ \A k \in DOMAIN file : file[k] \in Cell
  BY <1>1, <1>2, FileShapes
<1>4. buf \in Seq(Cell) /\ Len(buf) # 0
  BY <1>1, EmptySeq DEF MonitorShapes
<1> HIDE DEF file, buf, c, r
<1>5. 1 \in DOMAIN buf /\ r + 1 \in DOMAIN file /\ c = file[r + 1] /\ c \in Cell
  <2>1. 1 \in DOMAIN buf /\ r + 1 \in DOMAIN file
    BY <1>2, <1>3, <1>4
  <2> QED
    BY <1>2, <1>3, <2>1 DEF c, buf
<1>6. c.line \in 1 .. Len(lines) /\ c.half \in {1, 2}
      /\ \A h : c.half = h => c = [line |-> c.line, half |-> h]
  <2>1. c.line <= Len(lines)
    BY <1>1, <1>2, <1>5 DEF LogShapes, file
  <2> QED
    BY <1>1, <1>5, <2>1, LogConstants
<1>7. \A n \in DOMAIN buf : n \in Ends(buf) /\ (\A j \in Ends(buf) : n <= j) => Taken = n
  <2> SUFFICES ASSUME NEW n \in DOMAIN buf, n \in Ends(buf), \A j \in Ends(buf) : n <= j
               PROVE  Taken = n
    OBVIOUS
  <2>1. Ends(buf) \in SUBSET Nat
    BY <1>2 DEF Ends
  <2>2. LineEnd(buf) = n
    BY <2>1, LeastIsChosen DEF LineEnd
  <2> QED
    BY <2>2 DEF Taken, buf
<1>8. Taken = 1 => TakenWords = Visible(lines[c.line], {c.half})
  <2>1. {poll.buf[k].half : k \in 1 .. 1} = {c.half}
    BY DEF c
  <2> QED
    BY <2>1 DEF TakenWords, c
<1>9. CASE c.half = 2
  <2>1. Taken = 1
    <3>1. 1 \in Ends(buf) /\ \A j \in Ends(buf) : 1 <= j
      BY <1>2, <1>5, <1>9 DEF Ends, c, buf
    <3> QED
      BY <1>5, <1>7, <3>1
  <2>2. r \in DOMAIN file /\ file[r] = [line |-> c.line, half |-> 1]
    <3>1. file[r + 1].half # 1
      BY <1>5, <1>9
    <3>2. /\ (r + 1) - 1 \in DOMAIN file
          /\ file[(r + 1) - 1] = [line |-> file[r + 1].line, half |-> 1]
      BY <1>2, <1>5, <3>1 DEF LogInv, CellsPaired, file
    <3>3. (r + 1) - 1 = r
      BY <1>2
    <3> QED
      BY <1>5, <3>2, <3>3
  <2>3. Taking({2})
    <3>1. {2} # {1} /\ {2} # {1, 2}
      OBVIOUS
    <3> QED
      BY <1>5, <1>6, <1>8, <1>9, <2>1, <2>2, <3>1 DEF Taking, c, r, file
  <2>4. 1 <= Len(buf) /\ r + 1 <= Len(file)
    BY <1>2, <1>3, <1>5
  <2> QED
    BY <1>1, <1>2, <1>5, <1>6, <2>1, <2>3, <2>4 DEF c, r, file, buf
<1>10. CASE c.half = 1 /\ Len(buf) >= 2
  <2>1. 2 \in DOMAIN buf /\ r + 2 \in DOMAIN file /\ buf[2] = file[r + 2]
    <3>1. 2 \in DOMAIN buf /\ r + 2 \in DOMAIN file
      BY <1>2, <1>3, <1>10
    <3> QED
      BY <1>2, <3>1
  <2>2. file[r + 2] = [line |-> c.line, half |-> 2]
    <3>1. /\ file[r + 1].half = 1 /\ (r + 1) + 1 = r + 2 /\ r + 1 # Len(file)
      <4>1. file[r + 1].half = 1
        BY <1>5, <1>10
      <4>2. r \in Nat /\ Len(file) \in Nat /\ r + 2 \in 1 .. Len(file)
        BY <1>2, <1>3, <2>1
      <4>3. (r + 1) + 1 = r + 2 /\ r + 1 # Len(file)
        BY <4>2
      <4> QED
        BY <4>1, <4>3
    <3>2. file[(r + 1) + 1] = [line |-> file[r + 1].line, half |-> 2]
      BY <1>2, <1>5, <3>1 DEF LogInv, CellsPaired, file
    <3> QED
      BY <1>5, <3>1, <3>2
  <2>3. Taken = 2
    <3>1. 2 \in Ends(buf) /\ 1 \notin Ends(buf)
      BY <1>10, <2>1, <2>2 DEF Ends, c, buf
    <3>2. \A j \in Ends(buf) : 2 <= j
      BY <1>2, <3>1 DEF Ends
    <3> QED
      BY <1>7, <2>1, <3>1, <3>2
  <2>4. TakenWords = Visible(lines[c.line], {1, 2})
    <3>1. poll.buf[1].half = 1 /\ poll.buf[2].half = 2
      BY <1>10, <2>1, <2>2 DEF c, buf
    <3>2. {poll.buf[k].half : k \in 1 .. 2} = {1, 2}
      BY <3>1
    <3> QED
      BY <2>3, <3>2 DEF TakenWords, c
  <2>5. Taking({1, 2})
    <3>1. {1, 2} # {1} /\ {1, 2} # {2}
      OBVIOUS
    <3> QED
      BY <1>5, <1>6, <1>10, <2>2, <2>3, <2>4, <3>1 DEF Taking, c, r, file
  <2>6. 2 <= Len(buf) /\ r + 2 <= Len(file)
    BY <1>2, <1>3, <2>1
  <2> QED
    BY <1>1, <1>2, <1>5, <1>6, <2>3, <2>5, <2>6 DEF c, r, file, buf
<1>11. CASE c.half = 1 /\ ~(Len(buf) >= 2)
  <2>1. Len(buf) = 1
    BY <1>2, <1>4, <1>11
  <2>2. Ends(buf) = {}
    BY <1>2, <1>11, <2>1 DEF Ends, c, buf
  <2>3. Taken = 1 /\ r + 1 = Len(file)
    <3>1. poll.off >= Len(file)
      BY <1>1, <1>2, <2>2 DEF Exhausted, file
    <3>2. r + 1 = Len(file)
      <4>1. r \in Nat /\ Len(file) \in Nat /\ poll.off = r + 1 /\ poll.off <= Len(file)
        BY <1>2, <1>3, <2>1
      <4> QED
        BY <3>1, <4>1
    <3> QED
      BY <2>1, <2>2, <3>2 DEF Taken, buf
  <2>4. posOf = dest
    <3>1. (r + 1) + 1 \notin DOMAIN file
      BY <1>2, <1>3, <2>3
    <3> QED
      BY <1>2, <1>5, <1>11, <3>1 DEF LogInv, CellsPaired, file
  <2>5. MidLine /\ c.line = Len(lines)
    <3>1. file # <<>>
      BY <1>3, <1>5, EmptySeq
    <3>2. MidLine
      BY <1>5, <1>11, <2>3, <2>4, <3>1 DEF MidLine, file
    <3> QED
      BY <1>1, <1>5, <2>3, <2>4, <3>2 DEF LogShapes, file
  <2>6. Taking({1})
    <3>1. {1} # {2} /\ {1} # {1, 2}
      OBVIOUS
    <3> QED
      BY <1>5, <1>6, <1>8, <1>11, <2>3, <2>4, <2>5, <3>1 DEF Taking, c, r, file
  <2>7. 1 <= Len(buf) /\ r + 1 <= Len(file)
    BY <1>2, <1>3, <1>5
  <2> QED
    BY <1>1, <1>2, <1>5, <1>6, <2>3, <2>6, <2>7 DEF c, r, file, buf
<1> QED
  BY <1>6, <1>9, <1>10, <1>11

LEMMA SecondHalfEnds ==
    ASSUME LogInv, NEW f \in Inodes, NEW k \in DOMAIN files[f], files[f][k].half = 2, MidLine
    PROVE  files[f][k].line # Len(lines)
<1> DEFINE n == Len(files[dest])
<1>1. /\ LogShapes /\ f \in Nat /\ dest \in Nat /\ dest \in Inodes /\ n \in Nat
      /\ n \in DOMAIN files[dest] /\ files[dest][n].half = 1
      /\ files[dest][n].line = Len(lines) /\ DOMAIN files[f] = 1 .. Len(files[f])
      /\ Len(lines) \in Nat /\ DOMAIN files[dest] = 1 .. n
  BY FileShapes, LogConstants DEF LogInv, LogShapes, MidLine
<1>2. files[f][k].line \in Nat /\ Len(files[f]) \in Nat
  BY <1>1, FileShapes, LogConstants
<1> HIDE DEF n
<1>3. CASE f = dest
  <2>1. k # n /\ k \in 1 .. n
    BY <1>1, <1>3
  <2>2. k < n
    BY <1>1, <2>1
  <2>3. files[dest][k].line < files[dest][n].line
    BY <1>1, <1>3, <2>1, <2>2 DEF LogInv, CellsInOrder
  <2> QED
    BY <1>1, <1>2, <1>3, <2>3
<1>4. CASE f < dest
  <2>1. files[f][k].line < files[dest][n].line
    BY <1>1, <1>4 DEF LogInv, FilesInOrder
  <2> QED
    BY <1>1, <1>2, <2>1
<1>5. CASE f > dest
  <2>1. files[f] = <<>>
    BY <1>1, <1>5 DEF LogShapes
  <2> QED
    BY <1>1, <2>1
<1> QED
  BY <1>1, <1>3, <1>4, <1>5

(* A line read whole, or in two parts, is told at most once: what matches  *)
(* in its first half does not match in its second.                         *)
SaidOnce == \A t \in Texts : ~(Matched(Visible(t, {1})) /\ Matched(Visible(t, {2})))

(* The line taken comes after all that was told, and before all that is    *)
(* still to be read.                                                       *)
LEMMA TakenInOrder ==
    ASSUME LogInv, MonitorShapes, CanTake
    PROVE  LET l == poll.buf[1].line
           IN  /\ Matched(TakenWords) => Begun(l)
               /\ \A f \in Inodes : \A k \in DOMAIN files[f] :
                     (f = posOf /\ k > ReadTo + Taken) \/ f > posOf => l < files[f][k].line
               /\ SaidOnce /\ Matched(TakenWords) =>
                     \A i \in Nat : Before(i, ReadTo) => i < l
<1> DEFINE l == poll.buf[1].line
           r == ReadTo
           n == Taken
<1>1. /\ LogShapes /\ posOf \in Inodes /\ posOf \in Nat /\ n \in {1, 2} /\ r \in Nat
      /\ l \in 1 .. Len(lines) /\ Len(lines) \in Nat /\ r + n <= Len(files[posOf])
      /\ Len(files[posOf]) \in Nat /\ DOMAIN files[posOf] = 1 .. Len(files[posOf])
      /\ Taking({1}) \/ Taking({2}) \/ Taking({1, 2})
  <2>1. LogShapes
    BY DEF LogInv
  <2> QED
    BY <2>1, TakenShapes, ReadToShapes, FileShapes, LogConstants
<1>2. {1} # {2} /\ {1} # {1, 2} /\ {2} # {1, 2}
  OBVIOUS
<1>3. Taking({1}) => /\ n = 1 /\ files[posOf][r + 1] = [line |-> l, half |-> 1]
                     /\ r + 1 = Len(files[posOf]) /\ TakenWords = Visible(lines[l], {1})
                     /\ MidLine /\ l = Len(lines)
  BY <1>2 DEF Taking
<1>4. Taking({2}) => /\ n = 1 /\ files[posOf][r + 1] = [line |-> l, half |-> 2]
                     /\ TakenWords = Visible(lines[l], {2})
  BY <1>2 DEF Taking
<1>5. Taking({1, 2}) => /\ n = 2 /\ files[posOf][r + 1] = [line |-> l, half |-> 1]
                        /\ files[posOf][r + 2] = [line |-> l, half |-> 2]
  BY <1>2 DEF Taking
<1>6. r + 1 \in DOMAIN files[posOf] /\ r + n \in DOMAIN files[posOf]
      /\ files[posOf][r + 1].line = l
  BY <1>1, <1>3, <1>4, <1>5
<1> HIDE DEF l, r, n
<1>7. files[posOf][r + n].half = 2 \/ Taking({1})
  BY <1>1, <1>4, <1>5
<1>8. files[posOf][r + n].line = l
  BY <1>1, <1>3, <1>4, <1>5
<1>9. ASSUME Matched(TakenWords)
      PROVE  Begun(l)
  <2>1. CASE Taking({1})
    BY <1>1, <1>3, <1>9, <2>1 DEF Begun, FirstHalfMatched
  <2>2. CASE files[posOf][r + n].half = 2
    <3>1. MidLine => l # Len(lines)
      BY <1>1, <1>6, <1>8, <2>2, SecondHalfEnds
    <3> QED
      BY <1>1, <3>1 DEF Begun
  <2> QED
    BY <1>7, <2>1, <2>2
<1>10. ASSUME NEW f \in Inodes, NEW k \in DOMAIN files[f],
              (f = posOf /\ k > r + n) \/ f > posOf
       PROVE  l < files[f][k].line
  <2>1. CASE f = posOf /\ k > r + n
    <3>1. files[posOf][r + n].half = 2
      BY <1>1, <1>3, <1>7, <2>1
    <3>2. \/ files[posOf][r + n].line < files[posOf][k].line
          \/ files[posOf][r + n].half = 1
      BY <1>1, <1>6, <2>1 DEF LogInv, CellsInOrder
    <3> QED
      BY <1>8, <2>1, <3>1, <3>2
  <2>2. CASE f > posOf
    <3>1. files[posOf][r + 1].line < files[f][k].line
      BY <1>1, <1>6, <2>2 DEF LogInv, FilesInOrder
    <3> QED
      BY <1>6, <3>1
  <2> QED
    BY <1>10, <2>1, <2>2
<1>11. ASSUME SaidOnce, Matched(TakenWords), NEW i \in Nat, Before(i, r)
       PROVE  i < l
  <2>1. r + 1 > r
    BY <1>1
  <2>2. \/ i < l
        \/ files[posOf][r + 1] = [line |-> i, half |-> 2] /\ FirstHalfMatched(i)
    BY <1>1, <1>6, <1>11, <2>1 DEF Before
  <2>3. ASSUME files[posOf][r + 1] = [line |-> i, half |-> 2], FirstHalfMatched(i)
        PROVE  FALSE
    <3>1. files[posOf][r + 1].half = 2 /\ i = l
      BY <1>6, <2>3
    <3>2. Taking({2})
      BY <1>1, <1>3, <1>5, <3>1
    <3>3. lines[l] \in Texts
      BY <1>1, ElementOfSeq, LenProperties DEF LogShapes
    <3> QED
      BY <1>4, <1>11, <2>3, <3>1, <3>2, <3>3 DEF SaidOnce, FirstHalfMatched
  <2> QED
    BY <2>2, <2>3
<1> QED
  BY <1>9, <1>10, <1>11 DEF l, r, n

(* What read_line returns is consumed, and told if it matches.             *)
LEMMA LineShapes ==
    ASSUME LogInv, MonitorShapes, UNCHANGED <<logVars, phase, logins>>, PollLine,
           phase = "auth", AuthEnabled
    PROVE  /\ MonitorShapes' /\ Polling' /\ ReadTo' = ReadTo + Taken
           /\ UNCHANGED <<pos, since, posOf, outgrown>>
           /\ IF Matched(TakenWords)
              THEN /\ Len(poll'.events) = Len(poll.events) + 1
                   /\ \A k \in 1 .. Len(poll.events) : poll'.events[k] = poll.events[k]
                   /\ poll'.events[Len(poll.events) + 1]
                        = Saying(poll.buf[1].line, TakenWords)
              ELSE poll'.events = poll.events
<1> DEFINE file == files[posOf]
           held == Len(poll.buf)
           n == Taken
           l == poll.buf[1].line
           rest == SubSeq(poll.buf, n + 1, held)
           told == IF Matched(TakenWords)
                   THEN Append(poll.events, Saying(l, TakenWords)) ELSE poll.events
<1>1. /\ LogInv' /\ UNCHANGED <<lines, files, path, dest, whole>>
      /\ Upcoming' = Upcoming /\ MidLine' = MidLine
      /\ UNCHANGED <<phase, logins, pos, since, posOf, outgrown>>
  BY LogStays DEF PollLine
<1>2. /\ Polling /\ poll.file = posOf /\ posOf # NoFile
      /\ poll \in [file : Inodes \cup {NoFile}, off : Nat, buf : Seq(Cell), events : Seq(Event)]
      /\ poll.off <= Len(file) /\ pos + held <= poll.off
      /\ poll' = [poll EXCEPT !.buf = rest, !.events = told]
      /\ \A k \in DOMAIN poll.buf : poll.buf[k] = file[ReadTo + k]
  BY DEF PollLine, CanTake, MonitorShapes, Polling
<1>3. /\ posOf \in Inodes /\ Len(file) \in Nat /\ l \in Lines
      /\ n \in {1, 2} /\ n <= held /\ ReadTo + n <= Len(file)
  <2>1. CanTake /\ LogShapes
    BY DEF PollLine, LogInv
  <2>2. l \in Lines
    BY <2>1, TakenShapes, LogConstants
  <2> QED
    BY <2>1, <2>2, TakenShapes, FileShapes
<1>4. /\ ReadTo \in Nat /\ pos \in Nat /\ pos <= ReadTo /\ held \in Nat /\ poll.off \in Nat
      /\ poll.off = ReadTo + held /\ DOMAIN poll.buf = 1 .. held
      /\ \A k \in 1 .. held : poll.buf[k] \in Cell
  <2>1. poll.buf \in Seq(Cell)
    BY <1>2
  <2>2. \A k \in 1 .. held : poll.buf[k] \in Cell
    BY <2>1, ElementOfSeq
  <2> QED
    BY <1>2, <2>2, ReadToShapes
<1>5. Saying(l, TakenWords) \in Event
      /\ poll.events \in Seq(Event) /\ Len(poll.events) \in Nat
  <2>1. IsSuccess(TakenWords) \in BOOLEAN /\ IsCron(TakenWords) \in BOOLEAN
    BY DEF IsSuccess, IsCron
  <2> QED
    BY <1>2, <1>3, <2>1, LenProperties DEF Saying, Event
<1> HIDE DEF file, held, n, l, rest, told
<1>6. /\ rest \in Seq(Cell) /\ Len(rest) = held - n
      /\ \A k \in 1 .. held - n : rest[k] = poll.buf[n + k]
  <2>1. n + 1 \in Int /\ held \in Int /\ \A k \in n + 1 .. held : poll.buf[k] \in Cell
    BY <1>3, <1>4
  <2>2. /\ rest \in Seq(Cell)
        /\ Len(rest) = IF n + 1 <= held THEN held - (n + 1) + 1 ELSE 0
        /\ \A k \in 1 .. held - (n + 1) + 1 : rest[k] = poll.buf[n + 1 + k - 1]
    BY <2>1, SubSeqProperties DEF rest
  <2>3. held - (n + 1) + 1 = held - n /\ (n + 1 <= held \/ held - n = 0)
        /\ \A k \in 1 .. held - n : n + 1 + k - 1 = n + k
    BY <1>3, <1>4
  <2>4. \A k \in 1 .. held - n : rest[k] = poll.buf[n + k]
    BY <2>2, <2>3
  <2> QED
    BY <2>2, <2>3, <2>4
<1>7. /\ told \in Seq(Event)
      /\ IF Matched(TakenWords)
         THEN /\ Len(told) = Len(poll.events) + 1
              /\ \A k \in 1 .. Len(poll.events) : told[k] = poll.events[k]
              /\ told[Len(poll.events) + 1] = Saying(l, TakenWords)
         ELSE told = poll.events
  <2>1. CASE Matched(TakenWords)
    <3>1. told = Append(poll.events, Saying(l, TakenWords))
      BY <2>1 DEF told
    <3> QED
      BY <1>5, <2>1, <3>1, AppendProperties
  <2>2. CASE ~Matched(TakenWords)
    BY <1>5, <2>2 DEF told
  <2> QED
    BY <2>1, <2>2
<1>8. /\ poll'.buf = rest /\ poll'.off = poll.off
      /\ poll'.file = poll.file /\ poll'.events = told
      /\ poll' \in [file : Inodes \cup {NoFile}, off : Nat, buf : Seq(Cell), events : Seq(Event)]
  BY <1>2, <1>6, <1>7
<1>9. Polling' /\ ReadTo' = ReadTo + n
  <2>1. Polling'
    BY <1>2, <1>8 DEF Polling
  <2>2. ReadTo' = poll.off - (held - n)
    BY <1>6, <1>8, <2>1 DEF ReadTo
  <2> QED
    BY <1>3, <1>4, <2>1, <2>2
<1>10. MonitorShapes'
  <2>1. Open(posOf)' = Open(posOf) /\ files'[posOf'] = file
    BY <1>1 DEF Open, file
  <2>2. pos' + Len(poll'.buf) <= poll'.off /\ poll'.off <= Len(file)
    <3>1. pos + (held - n) <= poll.off
      BY <1>3, <1>4
    <3> QED
      BY <1>1, <1>2, <1>6, <1>8, <3>1
  <2>3. \A k \in DOMAIN poll'.buf : poll'.buf[k] = files'[posOf'][ReadTo' + k]
    <3>1. DOMAIN poll'.buf = 1 .. held - n
      BY <1>6, <1>8, LenProperties
    <3>2. ASSUME NEW k \in 1 .. held - n
          PROVE  rest[k] = file[ReadTo + n + k]
      <4>1. n + k \in 1 .. held /\ ReadTo + (n + k) = ReadTo + n + k
        BY <1>3, <1>4
      <4> QED
        BY <1>2, <1>4, <1>6, <4>1
    <3> QED
      BY <1>8, <1>9, <2>1, <3>1, <3>2
  <2>4. poll'.file = posOf' /\ phase' = "auth"
    BY <1>1, <1>2, <1>8
  <2> QED
    BY <1>1, <1>8, <1>9, <2>1, <2>2, <2>3, <2>4 DEF MonitorShapes
<1> QED
  BY <1>1, <1>7, <1>8, <1>9, <1>10 DEF n, l

LEMMA LineKeeps ==
    ASSUME LogInv, MonitorShapes, UNCHANGED <<logVars, phase, logins>>, PollLine,
           phase = "auth", AuthEnabled
    PROVE  /\ LogInv' /\ MonitorShapes'
           /\ SaidOnce /\ OrderInv => OrderInv'
           /\ RecordInv => RecordInv'
<1> DEFINE l == poll.buf[1].line
           r == ReadTo
           n == Taken
           told == Len(poll.events)
<1>1. /\ LogInv' /\ UNCHANGED <<lines, files, path, dest, whole>>
      /\ Upcoming' = Upcoming /\ MidLine' = MidLine /\ CanTake
      /\ UNCHANGED <<phase, logins>>
  BY LogStays DEF PollLine
<1>2. /\ MonitorShapes' /\ Polling' /\ ReadTo' = r + n
      /\ UNCHANGED <<pos, since, posOf, outgrown>>
      /\ IF Matched(TakenWords)
         THEN /\ Len(poll'.events) = told + 1
              /\ \A k \in 1 .. told : poll'.events[k] = poll.events[k]
              /\ poll'.events[told + 1] = Saying(l, TakenWords)
         ELSE poll'.events = poll.events
  BY LineShapes
<1>3. /\ Polling /\ posOf \in Inodes /\ l \in Nat /\ l \in 1 .. Len(lines)
      /\ n \in {1, 2} /\ r \in Nat /\ r + n <= Len(files[posOf])
      /\ pos \in Nat /\ pos <= r
      /\ Len(files[posOf]) \in Nat /\ DOMAIN files[posOf] = 1 .. Len(files[posOf])
      /\ Taking({1}) \/ Taking({2}) \/ Taking({1, 2})
  <2>1. LogShapes
    BY DEF LogInv
  <2> QED
    BY <1>1, <2>1, TakenShapes, ReadToShapes, FileShapes, LogConstants
<1>4. /\ told \in Nat /\ DOMAIN poll.events = 1 .. told
      /\ DOMAIN poll'.events = IF Matched(TakenWords) THEN 1 .. told + 1 ELSE 1 .. told
      /\ \A k \in DOMAIN poll.events : poll.events[k].line \in Nat
      /\ \A k \in DOMAIN logins : logins[k].line \in Nat
  <2>1. poll'.events \in Seq(Event)
    BY <1>2 DEF MonitorShapes
  <2> QED
    BY <1>2, <2>1, EventShapes, LenProperties
<1>5. Saying(l, TakenWords).line = l
  BY DEF Saying
<1> HIDE DEF l, r, n, told
<1>6. /\ \A k \in DOMAIN poll.events :
            k \in DOMAIN poll'.events /\ poll'.events[k] = poll.events[k]
      /\ \A k \in DOMAIN poll'.events :
            \/ k \in DOMAIN poll.events
            \/ Matched(TakenWords) /\ k = told + 1 /\ poll'.events[k].line = l
  BY <1>2, <1>4, <1>5
<1>7. ASSUME SaidOnce, OrderInv
      PROVE  OrderInv'
  <2>1. /\ Matched(TakenWords) => Begun(l)
        /\ \A f \in Inodes : \A k \in DOMAIN files[f] :
              (f = posOf /\ k > r + n) \/ f > posOf => l < files[f][k].line
        /\ Matched(TakenWords) => \A i \in Nat : Before(i, r) => i < l
    BY <1>1, <1>7, TakenInOrder DEF l, r, n
  <2>2. /\ \A k \in DOMAIN logins : Begun(logins[k].line)
        /\ \A k \in DOMAIN poll.events : Begun(poll.events[k].line)
        /\ \A k \in DOMAIN logins :
              Before(logins[k].line, pos) /\ Before(logins[k].line, r)
        /\ \A k \in DOMAIN poll.events : Before(poll.events[k].line, r)
        /\ LoginsInOrder
        /\ \A j, k \in DOMAIN poll.events :
              j < k => poll.events[j].line < poll.events[k].line
        /\ \A j \in DOMAIN logins, k \in DOMAIN poll.events :
              logins[j].line < poll.events[k].line
    BY <1>7 DEF OrderInv, r
  <2>3. LoginsInOrder'
    <3>1. LoginsInOrder /\ logins' = logins
      BY <1>1, <2>2
    <3> QED
      BY <3>1 DEF LoginsInOrder
  <2>4. \A k \in DOMAIN logins' : Begun(logins[k].line)'
    BY <1>1, <2>2 DEF Begun, FirstHalfMatched
  <2>5. \A k \in DOMAIN poll.events' : Begun(poll.events[k].line)'
    <3>1. \A k \in DOMAIN poll'.events : Begun(poll'.events[k].line)
      BY <1>6, <2>1, <2>2
    <3> QED
      BY <1>1, <3>1 DEF Begun, FirstHalfMatched
  <2>6. ASSUME NEW i, Before(i, r)
        PROVE  Before(i, r + n)
    <3> SUFFICES ASSUME NEW f \in Inodes, NEW k \in DOMAIN files[f],
                        (f = posOf /\ k > r + n) \/ (f > posOf /\ f >= Upcoming)
                 PROVE  i < files[f][k].line
      BY DEF Before
    <3>1. CASE f = posOf /\ k > r + n
      <4>1. k > r /\ k # r + 1
        BY <1>3, <3>1
      <4> QED
        BY <2>6, <3>1, <4>1 DEF Before
    <3>2. CASE f > posOf /\ f >= Upcoming
      <4>1. f # posOf
        BY <1>3, <3>2 DEF Inodes
      <4> QED
        BY <2>6, <3>2, <4>1 DEF Before
    <3> QED
      BY <3>1, <3>2
  <2>7. Before(l, r + n)
    BY <2>1 DEF Before
  <2>8. \A k \in DOMAIN logins' :
           Before(logins[k].line, pos)' /\ Before(logins[k].line, ReadTo)'
    <3>1. \A k \in DOMAIN logins :
             Before(logins[k].line, pos) /\ Before(logins[k].line, r + n)
      BY <2>2, <2>6
    <3> QED
      BY <1>1, <1>2, <3>1 DEF Before, FirstHalfMatched
  <2>9. \A k \in DOMAIN poll.events' : Before(poll.events[k].line, ReadTo)'
    <3>1. \A k \in DOMAIN poll'.events : Before(poll'.events[k].line, r + n)
      BY <1>6, <2>2, <2>6, <2>7
    <3> QED
      BY <1>1, <1>2, <3>1 DEF Before, FirstHalfMatched
  <2>10. Matched(TakenWords) =>
           /\ \A k \in DOMAIN poll.events : poll.events[k].line < l
           /\ \A k \in DOMAIN logins : logins[k].line < l
    BY <1>4, <2>1, <2>2
  <2>11. \A j, k \in DOMAIN poll'.events :
            j < k => poll'.events[j].line < poll'.events[k].line
    <3> SUFFICES ASSUME NEW j \in DOMAIN poll'.events, NEW k \in DOMAIN poll'.events, j < k
                 PROVE  poll'.events[j].line < poll'.events[k].line
      OBVIOUS
    <3>1. j \in DOMAIN poll.events
      BY <1>4, <1>6
    <3>2. CASE k \in DOMAIN poll.events
      BY <1>6, <2>2, <3>1, <3>2
    <3>3. CASE k \notin DOMAIN poll.events
      BY <1>6, <2>10, <3>1, <3>3
    <3> QED
      BY <3>2, <3>3
  <2>12. \A j \in DOMAIN logins', k \in DOMAIN poll'.events :
            logins'[j].line < poll'.events[k].line
    BY <1>1, <1>6, <2>2, <2>10
  <2> QED
    BY <2>3, <2>4, <2>5, <2>8, <2>9, <2>11, <2>12 DEF OrderInv
<1>8. ASSUME RecordInv
      PROVE  RecordInv'
  <2> SUFFICES ASSUME ~outgrown
               PROVE  RecordInv'
    BY <1>2 DEF RecordInv
  <2>1. /\ Between(pos) /\ Between(r)
        /\ \A k \in 1 .. r :
              LET i == files[posOf][k].line IN Owed(i) => Recorded(i) \/ Reported(i)
        /\ \A k \in 1 .. pos : LET i == files[posOf][k].line IN Owed(i) => Recorded(i)
    <3>1. posOf # NoFile
      BY <1>3 DEF NoFile, Inodes
    <3> QED
      BY <1>3, <1>8, <3>1 DEF RecordInv, r
  <2>2. {1} # {2} /\ {1} # {1, 2} /\ {2} # {1, 2}
    OBVIOUS
  <2>3. Taking({1}) => /\ n = 1 /\ files[posOf][r + 1] = [line |-> l, half |-> 1]
                       /\ MidLine /\ l = Len(lines)
    BY <2>2 DEF Taking, n, r, l
  <2>4. Taking({2}) => /\ n = 1 /\ files[posOf][r + 1] = [line |-> l, half |-> 2]
                       /\ r \in DOMAIN files[posOf]
                       /\ files[posOf][r] = [line |-> l, half |-> 1]
    BY <2>2 DEF Taking, n, r, l
  <2>5. Taking({1, 2}) => /\ n = 2 /\ files[posOf][r + 1] = [line |-> l, half |-> 1]
                          /\ files[posOf][r + 2] = [line |-> l, half |-> 2]
                          /\ TakenWords = Whole(l)
    BY <2>2 DEF Taking, n, r, l, Whole
  <2>6. Taking({1}) => l \notin whole
    BY <2>3 DEF LogInv, LogShapes
  <2>7. Taking({2}) => l \notin whole
    BY <2>1, <2>4 DEF Between
  <2>8. Between(r + n)
    BY <1>3, <2>3, <2>4, <2>5, <2>6 DEF Between
  <2>9. Owed(l) => \E k \in DOMAIN poll'.events : poll'.events[k] = Saying(l, Whole(l))
    <3> SUFFICES ASSUME Owed(l)
                 PROVE  \E k \in DOMAIN poll'.events : poll'.events[k] = Saying(l, Whole(l))
      OBVIOUS
    <3>1. TakenWords = Whole(l) /\ Matched(TakenWords)
      BY <1>3, <2>5, <2>6, <2>7 DEF Owed
    <3>2. told + 1 \in DOMAIN poll'.events
      BY <1>4, <3>1
    <3> QED
      BY <1>2, <3>1, <3>2
  <2>10. \A k \in 1 .. r + n : k \in 1 .. r \/ files[posOf][k].line = l
    <3> SUFFICES ASSUME NEW k \in 1 .. r + n, k \notin 1 .. r
                 PROVE  files[posOf][k].line = l
      OBVIOUS
    <3>1. k = r + 1 \/ (n = 2 /\ k = r + 2)
      BY <1>3
    <3> QED
      BY <1>3, <2>3, <2>4, <2>5, <3>1
  <2>11. \A k \in 1 .. r + n :
           LET i == files[posOf][k].line
           IN  Owed(i) => \/ Recorded(i)
                          \/ \E j \in DOMAIN poll'.events :
                                poll'.events[j] = Saying(i, Whole(i))
    <3> SUFFICES ASSUME NEW k \in 1 .. r + n, Owed(files[posOf][k].line)
                 PROVE  LET i == files[posOf][k].line
                        IN  \/ Recorded(i)
                            \/ \E j \in DOMAIN poll'.events :
                                  poll'.events[j] = Saying(i, Whole(i))
      OBVIOUS
    <3>1. CASE k \in 1 .. r
      BY <1>6, <2>1, <3>1 DEF Reported
    <3>2. CASE files[posOf][k].line = l
      BY <2>9, <3>2
    <3> QED
      BY <2>10, <3>1, <3>2
  <2>12. Between(pos)' /\ Between(ReadTo)'
    BY <1>1, <1>2, <2>1, <2>8 DEF Between
  <2>13. (\A k \in 1 .. ReadTo :
            LET i == files[posOf][k].line IN Owed(i) => Recorded(i) \/ Reported(i))'
    BY <1>1, <1>2, <2>11 DEF Owed, Whole, Recorded, Reported
  <2>14. (\A k \in 1 .. pos : LET i == files[posOf][k].line IN Owed(i) => Recorded(i))'
    BY <1>1, <1>2, <2>1 DEF Owed, Whole, Recorded
  <2> QED
    BY <2>12, <2>13, <2>14 DEF RecordInv
<1> QED
  BY <1>1, <1>2, <1>7, <1>8

(* What a failed poll found is dropped, and read again by the next.        *)
LEMMA FailsKeeps ==
    ASSUME LogInv, MonitorShapes, UNCHANGED <<logVars, logins>>, PollFails,
           phase = "auth", phase' = "sleep"
    PROVE  /\ LogInv' /\ MonitorShapes'
           /\ OrderInv => OrderInv'
           /\ RecordInv => RecordInv'
<1>1. /\ LogInv' /\ UNCHANGED <<lines, files, path, dest, whole>>
      /\ Upcoming' = Upcoming /\ MidLine' = MidLine
      /\ UNCHANGED <<logins, pos, since, posOf, outgrown>>
  BY LogStays DEF PollFails
<1>2. /\ Polling /\ poll' = [file |-> NoFile, off |-> 0, buf |-> <<>>, events |-> <<>>]
  BY DEF PollFails, CanTake, NoPoll
<1>3. ~Polling' /\ ReadTo' = pos /\ DOMAIN poll'.events = {}
  BY <1>1, <1>2 DEF Polling, ReadTo
<1>4. MonitorShapes'
  <2>1. /\ poll' \in [file : Inodes \cup {NoFile}, off : Nat, buf : Seq(Cell),
                      events : Seq(Event)]
        /\ poll'.off = 0 /\ poll'.buf = <<>> /\ poll'.events = <<>>
    BY <1>2, EmptySeq
  <2>2. Open(posOf)' = Open(posOf)
    BY <1>1 DEF Open
  <2> QED
    BY <1>1, <1>3, <2>1, <2>2 DEF MonitorShapes
<1>5. ASSUME OrderInv
      PROVE  OrderInv'
  <2>1. LoginsInOrder'
    <3>1. LoginsInOrder /\ logins' = logins
      BY <1>1, <1>5 DEF OrderInv
    <3> QED
      BY <3>1 DEF LoginsInOrder
  <2>2. \A k \in DOMAIN logins' : Begun(logins[k].line)'
    BY <1>1, <1>5 DEF OrderInv, Begun, FirstHalfMatched
  <2>3. \A k \in DOMAIN logins : Before(logins[k].line, pos)
    BY <1>5 DEF OrderInv
  <2>4. \A k \in DOMAIN logins' :
           Before(logins[k].line, pos)' /\ Before(logins[k].line, ReadTo)'
    BY <1>1, <1>3, <2>3 DEF Before, FirstHalfMatched
  <2> QED
    BY <1>3, <2>1, <2>2, <2>4 DEF OrderInv
<1>6. ASSUME RecordInv
      PROVE  RecordInv'
  <2> SUFFICES ASSUME ~outgrown, posOf # NoFile
               PROVE  RecordInv'
    BY <1>1 DEF RecordInv
  <2>1. Between(pos) /\ \A k \in 1 .. pos :
          LET i == files[posOf][k].line IN Owed(i) => Recorded(i)
    BY <1>2, <1>6 DEF RecordInv
  <2>2. Between(pos)' /\ pos' = ReadTo'
    BY <1>1, <1>3, <2>1 DEF Between
  <2>3. (\A k \in 1 .. pos : LET i == files[posOf][k].line IN Owed(i) => Recorded(i))'
    BY <1>1, <2>1 DEF Owed, Whole, Recorded
  <2> QED
    BY <1>3, <2>2, <2>3 DEF RecordInv, Between
<1> QED
  BY <1>1, <1>4, <1>5, <1>6

(* The poll ends where all it was to read has been read.                   *)
LEMMA EndsKeeps ==
    ASSUME LogInv, MonitorShapes, UNCHANGED <<logVars, logins>>, PollEnds,
           phase = "auth", phase' = "logins"
    PROVE  /\ LogInv' /\ MonitorShapes'
           /\ OrderInv => OrderInv'
           /\ RecordInv => RecordInv'
<1>1. /\ LogInv' /\ UNCHANGED <<lines, files, path, dest, whole>>
      /\ Upcoming' = Upcoming /\ MidLine' = MidLine
      /\ UNCHANGED <<logins, since, posOf, outgrown>>
  BY LogStays DEF PollEnds
<1>2. /\ Polling /\ poll.buf = <<>> /\ pos' = poll.off
      /\ poll' = [file |-> NoFile, off |-> 0, buf |-> <<>>, events |-> poll.events]
  BY DEF PollEnds, NoPoll
<1>3. /\ posOf \in Inodes /\ poll.off \in Nat /\ poll.off = ReadTo
      /\ poll.off <= Len(files[posOf])
  <2>1. Len(<<>>) = 0
    OBVIOUS
  <2>2. posOf \in Inodes /\ poll.off \in Nat /\ ReadTo \in Nat
        /\ poll.off = ReadTo + Len(poll.buf) /\ ReadTo <= Len(files[posOf])
    BY <1>2, ReadToShapes DEF MonitorShapes, Polling
  <2>3. poll.off = ReadTo + 0
    BY <1>2, <2>1, <2>2
  <2> QED
    BY <2>2, <2>3
<1>4. ~Polling' /\ ReadTo' = ReadTo /\ pos' = ReadTo /\ poll'.events = poll.events
  BY <1>1, <1>2, <1>3 DEF Polling, ReadTo
<1>5. MonitorShapes'
  <2>1. /\ poll' \in [file : Inodes \cup {NoFile}, off : Nat, buf : Seq(Cell),
                      events : Seq(Event)]
        /\ poll'.off = 0 /\ poll'.buf = <<>>
    BY <1>2, EmptySeq DEF MonitorShapes
  <2>2. Open(posOf)' = files[posOf]
    BY <1>1, <1>3 DEF Open, NoFile, Inodes
  <2> QED
    BY <1>1, <1>2, <1>3, <1>4, <2>1, <2>2 DEF MonitorShapes
<1>6. ASSUME OrderInv
      PROVE  OrderInv'
  <2>1. LoginsInOrder'
    <3>1. LoginsInOrder /\ logins' = logins
      BY <1>1, <1>6 DEF OrderInv
    <3> QED
      BY <3>1 DEF LoginsInOrder
  <2>2. /\ \A k \in DOMAIN logins' : Begun(logins[k].line)'
        /\ \A k \in DOMAIN poll.events' : Begun(poll.events[k].line)'
    BY <1>1, <1>4, <1>6 DEF OrderInv, Begun, FirstHalfMatched
  <2>3. /\ \A k \in DOMAIN logins : Before(logins[k].line, ReadTo)
        /\ \A k \in DOMAIN poll.events : Before(poll.events[k].line, ReadTo)
    BY <1>6 DEF OrderInv
  <2>4. \A k \in DOMAIN logins' :
           Before(logins[k].line, pos)' /\ Before(logins[k].line, ReadTo)'
    BY <1>1, <1>4, <2>3 DEF Before, FirstHalfMatched
  <2>5. \A k \in DOMAIN poll.events' : Before(poll.events[k].line, ReadTo)'
    BY <1>1, <1>4, <2>3 DEF Before, FirstHalfMatched
  <2> QED
    BY <1>1, <1>4, <1>6, <2>1, <2>2, <2>4, <2>5 DEF OrderInv
<1>7. ASSUME RecordInv
      PROVE  RecordInv'
  <2> SUFFICES ASSUME ~outgrown, posOf # NoFile
               PROVE  RecordInv'
    BY <1>1 DEF RecordInv
  <2>1. Between(ReadTo) /\ \A k \in 1 .. ReadTo :
          LET i == files[posOf][k].line IN Owed(i) => Recorded(i) \/ Reported(i)
    BY <1>7 DEF RecordInv
  <2>2. Between(ReadTo)' /\ pos' = ReadTo'
    BY <1>1, <1>4, <2>1 DEF Between
  <2>3. (\A k \in 1 .. ReadTo :
           LET i == files[posOf][k].line IN Owed(i) => Recorded(i) \/ Reported(i))'
    BY <1>1, <1>4, <2>1 DEF Owed, Whole, Recorded, Reported
  <2> QED
    BY <1>4, <2>2, <2>3 DEF RecordInv, Between
<1> QED
  BY <1>1, <1>5, <1>6, <1>7

(* The first event becomes a row, unless the configuration says no; then   *)
(* it was not owed.                                                        *)
LEMMA ReportLoginKeeps ==
    ASSUME LogInv, MonitorShapes, ReportLogin
    PROVE  /\ LogInv' /\ MonitorShapes'
           /\ OrderInv => OrderInv'
           /\ RecordInv => RecordInv'
<1> DEFINE e == Head(poll.events)
           n == Len(logins)
           m == Len(poll.events)
<1>1. /\ LogInv' /\ UNCHANGED <<lines, files, path, dest, whole>>
      /\ Upcoming' = Upcoming /\ MidLine' = MidLine
      /\ UNCHANGED <<pos, since, posOf, outgrown>>
  BY LogStays DEF ReportLogin, Tick
<1>2. /\ phase = "logins" /\ phase' = "logins" /\ poll.events # <<>>
      /\ logins' = IF Wanted(e) THEN Append(logins, e) ELSE logins
      /\ poll' = [poll EXCEPT !.events = Tail(poll.events)]
      /\ poll \in [file : Inodes \cup {NoFile}, off : Nat, buf : Seq(Cell), events : Seq(Event)]
      /\ logins \in Seq(Event) /\ poll.events \in Seq(Event)
  BY DEF ReportLogin, Tick, MonitorShapes
<1>3. ~Polling /\ poll.off = 0 /\ poll.buf = <<>>
  BY <1>2 DEF MonitorShapes
<1>4. /\ DOMAIN logins = 1 .. n /\ n \in Nat
      /\ DOMAIN poll.events = 1 .. m /\ m \in Nat
      /\ \A k \in DOMAIN logins : logins[k] \in Event /\ logins[k].line \in Nat \ {0}
      /\ \A k \in DOMAIN poll.events :
            poll.events[k] \in Event /\ poll.events[k].line \in Nat \ {0}
  BY EventShapes
<1>5. /\ e = poll.events[1] /\ e \in Event /\ m # 0 /\ 1 \in DOMAIN poll.events
      /\ Tail(poll.events) \in Seq(Event) /\ Len(Tail(poll.events)) = m - 1
      /\ \A k \in 1 .. m - 1 : Tail(poll.events)[k] = poll.events[k + 1]
  <2>1. m # 0
    BY <1>2, EmptySeq
  <2>2. 1 \in DOMAIN poll.events
    BY <1>4, <2>1
  <2> QED
    BY <1>2, <2>1, <2>2, HeadTailProperties
<1>6. /\ Append(logins, e) \in Seq(Event) /\ Len(Append(logins, e)) = n + 1
      /\ \A k \in 1 .. n : Append(logins, e)[k] = logins[k]
      /\ Append(logins, e)[n + 1] = e
  BY <1>2, <1>5, AppendProperties
<1> HIDE DEF e, n, m
<1>7. /\ poll'.events = Tail(poll.events) /\ poll'.file = poll.file
      /\ poll'.off = poll.off /\ poll'.buf = poll.buf
      /\ poll' \in [file : Inodes \cup {NoFile}, off : Nat, buf : Seq(Cell), events : Seq(Event)]
  BY <1>2, <1>5
<1>8. logins' \in Seq(Event)
  BY <1>2, <1>6
<1>9. /\ DOMAIN logins' = 1 .. Len(logins')
      /\ Len(logins') = IF Wanted(e) THEN n + 1 ELSE n
      /\ \A k \in DOMAIN logins : k \in DOMAIN logins' /\ logins'[k] = logins[k]
      /\ \A k \in DOMAIN logins' :
            k \in DOMAIN logins \/ (Wanted(e) /\ k = n + 1 /\ logins'[k] = e)
  <2>1. DOMAIN logins' = 1 .. Len(logins') /\ n = Len(logins)
    BY <1>8, LenProperties DEF n
  <2>2. CASE Wanted(e)
    BY <1>2, <1>4, <1>6, <2>1, <2>2
  <2>3. CASE ~Wanted(e)
    BY <1>2, <1>4, <2>1, <2>3
  <2> QED
    BY <2>2, <2>3
<1>10. \A k \in DOMAIN poll'.events :
          k + 1 \in DOMAIN poll.events /\ poll'.events[k] = poll.events[k + 1] /\ k \in 1 .. m - 1
  <2>1. DOMAIN poll'.events = 1 .. m - 1
    BY <1>5, <1>7, LenProperties
  <2> QED
    BY <1>4, <1>5, <1>7, <2>1
<1>11. ~Polling' /\ ReadTo' = ReadTo /\ ReadTo = pos
  BY <1>1, <1>3, <1>7 DEF Polling, ReadTo
<1>12. MonitorShapes'
  <2>1. Open(posOf)' = Open(posOf)
    BY <1>1 DEF Open
  <2> QED
    BY <1>1, <1>2, <1>3, <1>7, <1>8, <1>11, <2>1 DEF MonitorShapes
<1>13. ASSUME OrderInv
       PROVE  OrderInv'
  <2>1. /\ \A k \in DOMAIN logins : Begun(logins[k].line)
        /\ \A k \in DOMAIN poll.events : Begun(poll.events[k].line)
        /\ \A k \in DOMAIN logins : Before(logins[k].line, pos)
        /\ \A k \in DOMAIN poll.events : Before(poll.events[k].line, pos)
        /\ LoginsInOrder
        /\ \A j, k \in DOMAIN poll.events :
              j < k => poll.events[j].line < poll.events[k].line
        /\ \A j \in DOMAIN logins, k \in DOMAIN poll.events :
              logins[j].line < poll.events[k].line
    BY <1>2, <1>11, <1>13 DEF OrderInv
  <2>2. LoginsInOrder'
    <3>1. \A j, k \in DOMAIN logins : j < k => logins[j].line < logins[k].line
      BY <2>1 DEF LoginsInOrder
    <3>2. ASSUME NEW j \in DOMAIN logins', NEW k \in DOMAIN logins', j < k
          PROVE  logins'[j].line < logins'[k].line
      <4>1. CASE k \in DOMAIN logins
        <5>1. j \in DOMAIN logins
          BY <1>4, <1>9, <3>2, <4>1
        <5> QED
          BY <1>9, <3>1, <3>2, <4>1, <5>1
      <4>2. CASE k = n + 1 /\ logins'[k] = e
        <5>1. j \in DOMAIN logins
          BY <1>4, <1>9, <3>2, <4>2
        <5> QED
          BY <1>5, <1>9, <2>1, <4>2, <5>1
      <4> QED
        BY <1>9, <4>1, <4>2
    <3> QED
      BY <3>2 DEF LoginsInOrder
  <2>3. /\ \A k \in DOMAIN logins' : Begun(logins'[k].line) /\ Before(logins'[k].line, pos)
        /\ \A k \in DOMAIN poll'.events :
              Begun(poll'.events[k].line) /\ Before(poll'.events[k].line, pos)
    BY <1>5, <1>9, <1>10, <2>1
  <2>4. /\ \A k \in DOMAIN logins' : Begun(logins[k].line)'
        /\ \A k \in DOMAIN poll.events' : Begun(poll.events[k].line)'
    BY <1>1, <2>3 DEF Begun, FirstHalfMatched
  <2>5. /\ \A k \in DOMAIN logins' :
              Before(logins[k].line, pos)' /\ Before(logins[k].line, ReadTo)'
        /\ \A k \in DOMAIN poll.events' : Before(poll.events[k].line, ReadTo)'
    BY <1>1, <1>11, <2>3 DEF Before, FirstHalfMatched
  <2>6. \A j, k \in DOMAIN poll'.events :
           j < k => poll'.events[j].line < poll'.events[k].line
    <3> SUFFICES ASSUME NEW j \in DOMAIN poll'.events, NEW k \in DOMAIN poll'.events, j < k
                 PROVE  poll'.events[j].line < poll'.events[k].line
      OBVIOUS
    <3>1. j + 1 < k + 1
      BY <1>10
    <3> QED
      BY <1>10, <2>1, <3>1
  <2>7. \A j \in DOMAIN logins', k \in DOMAIN poll'.events :
           logins'[j].line < poll'.events[k].line
    <3> SUFFICES ASSUME NEW j \in DOMAIN logins', NEW k \in DOMAIN poll'.events
                 PROVE  logins'[j].line < poll'.events[k].line
      OBVIOUS
    <3>1. k + 1 \in DOMAIN poll.events /\ poll'.events[k] = poll.events[k + 1] /\ 1 < k + 1
      BY <1>10
    <3>2. CASE j \in DOMAIN logins
      BY <1>9, <2>1, <3>1, <3>2
    <3>3. CASE logins'[j] = e
      BY <1>5, <2>1, <3>1, <3>3
    <3> QED
      BY <1>9, <3>2, <3>3
  <2> QED
    BY <2>2, <2>4, <2>5, <2>6, <2>7 DEF OrderInv
<1>14. ASSUME RecordInv
       PROVE  RecordInv'
  <2> SUFFICES ASSUME ~outgrown, posOf # NoFile
               PROVE  RecordInv'
    BY <1>1 DEF RecordInv
  <2>1. Between(pos) /\ \A k \in 1 .. pos :
          LET i == files[posOf][k].line IN Owed(i) => Recorded(i) \/ Reported(i)
    BY <1>11, <1>14 DEF RecordInv
  <2>2. ASSUME NEW i, Owed(i), Recorded(i) \/ Reported(i)
        PROVE  \/ \E k \in DOMAIN logins' : logins'[k].line = i
               \/ \E k \in DOMAIN poll'.events : poll'.events[k] = Saying(i, Whole(i))
    <3>1. CASE Recorded(i)
      BY <1>9, <3>1 DEF Recorded
    <3>2. CASE Reported(i)
      <4>1. PICK k \in DOMAIN poll.events : poll.events[k] = Saying(i, Whole(i))
        BY <3>2 DEF Reported
      <4>2. CASE k = 1
        <5>1. e = Saying(i, Whole(i)) /\ e.line = i
          BY <1>5, <4>1, <4>2 DEF Saying
        <5>2. Wanted(e)
          BY <2>2, <5>1 DEF Owed
        <5>3. n + 1 \in DOMAIN logins' /\ n + 1 \notin DOMAIN logins
          BY <1>4, <1>9, <5>2
        <5> QED
          BY <1>9, <5>1, <5>3
      <4>3. CASE k # 1
        <5>1. k - 1 \in 1 .. m - 1 /\ (k - 1) + 1 = k
          BY <1>4, <4>3
        <5>2. k - 1 \in DOMAIN poll'.events
          BY <1>5, <1>7, <5>1, LenProperties
        <5> QED
          BY <1>10, <4>1, <5>1, <5>2
      <4> QED
        BY <4>2, <4>3
    <3> QED
      BY <2>2, <3>1, <3>2
  <2>3. (\A k \in 1 .. pos :
           LET i == files[posOf][k].line IN Owed(i) => Recorded(i) \/ Reported(i))'
    BY <1>1, <2>1, <2>2 DEF Owed, Whole, Recorded, Reported
  <2>4. Between(pos)' /\ pos' = ReadTo'
    BY <1>1, <1>11, <2>1 DEF Between
  <2> QED
    BY <1>11, <2>3, <2>4 DEF RecordInv, Between
<1> QED
  BY <1>1, <1>12, <1>13, <1>14

-----------------------------------------------------------------------------
(* Every step *)

LEMMA InitLogins == Init => LogInv /\ MonitorShapes /\ OrderInv /\ RecordInv
<1> SUFFICES ASSUME Init
             PROVE  LogInv /\ MonitorShapes /\ OrderInv /\ RecordInv
  OBVIOUS
<1>1. /\ lines = <<>> /\ files = [i \in Inodes |-> <<>>] /\ path = 1 /\ dest = 1 /\ whole = {}
      /\ pos = 0 /\ since = 0 /\ posOf = NoFile /\ outgrown = FALSE /\ logins = <<>>
      /\ poll = [file |-> NoFile, off |-> 0, buf |-> <<>>, events |-> <<>>]
      /\ phase = "stopped"
  BY DEF Init, LogInit, NoPoll
<1>2. /\ MaxLines \in Nat /\ MaxFiles \in Nat \ {0} /\ 1 \in Inodes /\ Inodes \subseteq Nat
      /\ Len(<<>>) = 0 /\ DOMAIN <<>> = {}
  BY LogBoundsAssumption DEF Inodes
<1>3. \A f \in Inodes : files[f] = <<>> /\ DOMAIN files[f] = {}
  BY <1>1, <1>2
<1>4. ~MidLine
  BY <1>1, <1>2, <1>3 DEF MidLine
<1>5. LogInv
  <2>1. files \in [Inodes -> Seq(Cell)] /\ lines \in Seq(Texts)
    BY <1>1, EmptySeq
  <2>2. LogShapes
    BY <1>1, <1>2, <1>3, <1>4, <2>1 DEF LogShapes, NoFile
  <2> QED
    BY <1>3, <2>2 DEF LogInv, CellsPaired, CellsInOrder, FilesInOrder
<1>6. MonitorShapes
  <2>1. poll \in [file : Inodes \cup {NoFile}, off : Nat, buf : Seq(Cell), events : Seq(Event)]
        /\ logins \in Seq(Event)
    BY <1>1, EmptySeq
  <2>2. Open(posOf) = <<>> /\ Upcoming = 1 /\ ~Polling
    BY <1>1 DEF Open, Upcoming, NoFile, Polling
  <2>3. since \in 0 .. Len(lines) /\ pos \in Nat /\ pos <= Len(Open(posOf))
    BY <1>1, <1>2, <2>2
  <2>4. posOf \in Inodes \cup {NoFile} /\ posOf <= Upcoming
    BY <1>1, <2>2 DEF NoFile
  <2>5. outgrown \in BOOLEAN /\ poll.off = 0 /\ poll.buf = <<>> /\ poll.events = <<>>
    BY <1>1
  <2> QED
    BY <2>1, <2>2, <2>3, <2>4, <2>5 DEF MonitorShapes
<1>7. DOMAIN logins = {} /\ DOMAIN poll.events = {}
  BY <1>1, <1>2
<1>8. OrderInv
  BY <1>7 DEF OrderInv, LoginsInOrder
<1> QED
  BY <1>1, <1>5, <1>6, <1>8 DEF RecordInv

LEMMA LoginStepKeeps ==
    LogInv /\ MonitorShapes /\ [Next]_vars =>
        /\ LogInv' /\ MonitorShapes'
        /\ SaidOnce /\ OrderInv => OrderInv'
        /\ RecordInv => RecordInv'
<1> SUFFICES ASSUME LogInv, MonitorShapes, [Next]_vars
             PROVE  /\ LogInv' /\ MonitorShapes'
                    /\ SaidOnce /\ OrderInv => OrderInv'
                    /\ RecordInv => RecordInv'
  OBVIOUS
<1>1. /\ Polling => phase = "auth" /\ AuthEnabled
      /\ ~Polling /\ phase # "logins" => poll.events = <<>>
  BY DEF MonitorShapes
<1>2. CASE Logger
  BY <1>2, LoggerKeeps DEF Logger
<1>3. CASE Kernel \/ FimEventArrives \/ UNCHANGED vars
  <2>1. UNCHANGED <<logVars, monitorVars, logins, phase>>
    BY <1>3 DEF Kernel, FimEventArrives, vars, loginVars, tickVars
  <2> QED
    BY <1>1, <2>1, LoopKeeps
<1>4. CASE Start
  <2>1. UNCHANGED <<logVars, logins>> /\ NewMonitor /\ phase' = "sleep"
    BY <1>4 DEF Start
  <2> QED
    BY <2>1, MonitorMade
<1>5. CASE Stop
  BY <1>5, MonitorGone
<1>6. CASE WakeUp \/ Drain \/ RceScan
  <2>1. UNCHANGED <<logVars, monitorVars, logins>>
    BY <1>6 DEF WakeUp, Drain, HandleFimEvent, DrainEnds, RceScan, ScanStep, ScanEnds,
                ReportSpawn, SpawnsReported, Tick
  <2>2. phase \in {"sleep", "drain", "rce", "spawns"}
        /\ phase' \in {"drain", "rce", "spawns", "auth"}
    BY <1>6 DEF WakeUp, Drain, HandleFimEvent, DrainEnds, RceScan, ScanStep, ScanEnds,
                ReportSpawn, SpawnsReported, Tick
  <2> QED
    BY <1>1, <2>1, <2>2, LoopKeeps
<1>7. CASE NoLog \/ LoginsReported
  <2>1. /\ UNCHANGED <<logVars, monitorVars, logins>> /\ phase' = "sleep"
        /\ ~Polling /\ poll.events = <<>> /\ phase # "stopped"
    BY <1>1, <1>7 DEF NoLog, LoginsReported, Tick
  <2> QED
    BY <2>1, LoopKeeps
<1>8. CASE PollStep
  <2>1. UNCHANGED <<logVars, phase, logins>> /\ phase = "auth" /\ AuthEnabled
        /\ (PollOpen \/ PollFill \/ PollLine)
    BY <1>8 DEF PollStep, Tick
  <2> QED
    BY <2>1, OpenKeeps, FillKeeps, LineKeeps
<1>9. CASE PollGivenUp
  <2>1. UNCHANGED <<logVars, logins>> /\ phase = "auth" /\ phase' = "sleep" /\ PollFails
    BY <1>9 DEF PollGivenUp, Tick
  <2> QED
    BY <2>1, FailsKeeps
<1>10. CASE PollReturns
  <2>1. UNCHANGED <<logVars, logins>> /\ phase = "auth" /\ phase' = "logins" /\ PollEnds
    BY <1>10 DEF PollReturns, Tick
  <2> QED
    BY <2>1, EndsKeeps
<1>11. CASE ReportLogin
  BY <1>11, ReportLoginKeeps
<1> QED
  BY <1>2, <1>3, <1>4, <1>5, <1>6, <1>7, <1>8, <1>9, <1>10, <1>11
     DEF Next, MainLoop, AuthPoll

(* Whatever the logger, logrotate, half-written or unreadable lines and    *)
(* restarts do between and during the polls of poll_new_events, a login    *)
(* line below the position that the daemon owes a row for has one.         *)
THEOREM LoginsAlwaysOnRecord == Spec => []LoginsOnRecord
<1> DEFINE Inv == LogInv /\ MonitorShapes /\ RecordInv
<1>1. Init => Inv
  BY InitLogins
<1>2. Inv /\ [Next]_vars => Inv'
  BY LoginStepKeeps
<1>3. Inv => LoginsOnRecord
  <2> SUFFICES ASSUME Inv, phase = "sleep", ~outgrown, NEW k \in 1 .. pos,
                      Owed(files[posOf][k].line)
               PROVE  Recorded(files[posOf][k].line)
    BY DEF LoginsOnRecord
  <2>1. ~Polling
    BY DEF MonitorShapes
  <2>2. ReadTo = pos /\ posOf # NoFile
    <3>1. posOf = NoFile => pos = 0
      BY ReadToShapes
    <3> QED
      BY <2>1, <3>1 DEF ReadTo
  <2>3. Recorded(files[posOf][k].line) \/ Reported(files[posOf][k].line)
    BY <2>2 DEF RecordInv
  <2>4. poll.events = <<>>
    BY <2>1 DEF MonitorShapes
  <2> QED
    BY <2>3, <2>4 DEF Reported
<1> QED
  BY <1>1, <1>2, <1>3, PTL DEF Spec

(* The AUTH_LOGIN_* rows of one line are at most one, and in the order of  *)
(* the log, over restarts, rotations, failed polls and lines read in two   *)
(* halves, provided no line says one thing in its first half and another   *)
(* in its second: parse_auth_line would make an event of each.             *)
THEOREM LoginsAlwaysInOrder ==
    ASSUME SaidOnce
    PROVE  Spec => []LoginsInOrder
<1> DEFINE Inv == LogInv /\ MonitorShapes /\ OrderInv
<1>1. Init => Inv
  BY InitLogins
<1>2. Inv /\ [Next]_vars => Inv'
  BY LoginStepKeeps
<1>3. Inv => LoginsInOrder
  BY DEF OrderInv
<1> QED
  BY <1>1, <1>2, <1>3, PTL DEF Spec

-----------------------------------------------------------------------------
(* The types *)

Scan == [at : 1 .. MaxPid + 1, todo : SUBSET Pids, active : SUBSET Pids, alerts : Seq(Lives)]
TickShapes ==
    /\ Live \subseteq Pids /\ procs \in [Live -> Process]
    /\ lives \in 0 .. MaxLives
    /\ alerted \subseteq Pids /\ noticed \subseteq Pids
    /\ scan \in Scan
    /\ phase \in {"stopped", "sleep", "drain", "rce", "spawns", "auth", "logins"}
    /\ fim \in 0 .. FimCap
    /\ budget \in [{"log", "procs", "fim", "stop"} -> Nat]
    /\ spawns \in Seq(Lives)

LEMMA NoScanTypes == NoScan \in Scan
<1>1. 1 \in 1 .. MaxPid + 1 /\ <<>> \in Seq(Lives)
  BY EmptySeq
<1> QED
  BY <1>1 DEF NoScan, Scan

LEMMA InitTypes == Init => TickShapes
<1> SUFFICES ASSUME Init
             PROVE  TickShapes
  OBVIOUS
<1>1. PICK i \in Images :
        procs = [p \in Pids \cap {1} |->
                    [life |-> 1, parent |-> InitPid, image |-> i, masked |-> FALSE]]
  BY DEF Init
<1>2. Live = Pids \cap {1}
  BY <1>1 DEF Live
<1>3. 1 \in Lives
  BY DEF Lives
<1>4. procs \in [Live -> Process]
  BY <1>1, <1>2, <1>3 DEF Process
<1>5. lives \in 0 .. MaxLives
  <2>1. lives = Cardinality(Live)
    BY DEF Init, Live
  <2>2. CASE Live = {}
    BY <2>1, <2>2, FS_EmptySet
  <2>3. CASE Live # {}
    <3>1. Live = {1}
      BY <1>2, <2>3
    <3>2. Cardinality({1}) = 1
      BY FS_Singleton, Zenon
    <3> QED
      BY <2>1, <3>1, <3>2
  <2> QED
    BY <2>2, <2>3
<1>6. spawns \in Seq(Lives)
  BY EmptySeq DEF Init
<1>7. fim \in 0 .. FimCap /\ budget \in [{"log", "procs", "fim", "stop"} -> Nat]
  BY TickAssumption DEF Init
<1> QED
  BY <1>2, <1>4, <1>5, <1>6, <1>7, NoScanTypes DEF TickShapes, Init

LEMMA KernelTypes ==
    ASSUME TickShapes, KernelNext
    PROVE  Live' \subseteq Pids /\ procs' \in [Live' -> Process] /\ lives' \in 0 .. MaxLives
<1>1. /\ Live \subseteq Pids /\ procs \in [Live -> Process] /\ lives \in 0 .. MaxLives
      /\ MaxLives \in Nat
  BY DEF TickShapes
<1>2. ASSUME NEW parent \in Pids, NEW p \in Pids, Fork(parent, p)
      PROVE  Live' \subseteq Pids /\ procs' \in [Live' -> Process] /\ lives' \in 0 .. MaxLives
  <2> DEFINE child == [life |-> lives', parent |-> parent, image |-> procs[parent].image,
                       masked |-> p \notin noticed]
  <2>1. /\ lives' = lives + 1 /\ lives' \in Lives /\ lives' \in 0 .. MaxLives
        /\ procs' = [q \in Live \cup {p} |-> IF q = p THEN child ELSE procs[q]]
    BY <1>1, <1>2 DEF Fork, With, Lives
  <2>2. child \in Process
    <3>1. procs[parent].image \in Images
      BY <1>1, <1>2 DEF Fork, Process
    <3> QED
      BY <2>1, <3>1 DEF Process
  <2>3. Live' = Live \cup {p}
    BY <2>1 DEF Live
  <2> HIDE DEF child
  <2> QED
    BY <1>1, <2>1, <2>2, <2>3
<1>3. ASSUME NEW p \in Pids, NEW i \in Images, Exec(p, i)
      PROVE  Live' \subseteq Pids /\ procs' \in [Live' -> Process] /\ lives' \in 0 .. MaxLives
  <2>1. lives' = lives /\ procs' = [procs EXCEPT ![p] = [procs[p] EXCEPT !.image = i]]
        /\ p \in Live
    BY <1>3 DEF Exec
  <2>2. [procs[p] EXCEPT !.image = i] \in Process
    BY <1>1, <2>1 DEF Process
  <2>3. procs' \in [Live -> Process]
    BY <1>1, <2>1, <2>2
  <2>4. Live' = Live
    BY <2>3 DEF Live
  <2> QED
    BY <1>1, <2>1, <2>3, <2>4
<1>4. ASSUME NEW p \in Pids, ExitProcess(p)
      PROVE  Live' \subseteq Pids /\ procs' \in [Live' -> Process] /\ lives' \in 0 .. MaxLives
  <2>1. lives' = lives
        /\ procs' = [q \in Live \ {p} |->
                       IF procs[q].parent = p
                       THEN [procs[q] EXCEPT !.parent = InitPid] ELSE procs[q]]
    BY <1>4 DEF ExitProcess
  <2>2. \A q \in Live : [procs[q] EXCEPT !.parent = InitPid] \in Process /\ procs[q] \in Process
    BY <1>1 DEF Process
  <2>3. Live' = Live \ {p}
    BY <2>1 DEF Live
  <2> QED
    BY <1>1, <2>1, <2>2, <2>3
<1> QED
  BY <1>2, <1>3, <1>4 DEF KernelNext

LEMMA ScanTypes ==
    ASSUME TickShapes, (\E p \in Pids : ListPids(p) \/ Visit(p)) \/ Retain
    PROVE  scan' \in Scan /\ alerted' \subseteq Pids /\ noticed' \subseteq Pids
<1>1. /\ Live \subseteq Pids /\ procs \in [Live -> Process]
      /\ alerted \subseteq Pids /\ noticed \subseteq Pids /\ scan \in Scan
      /\ scan.alerts \in Seq(Lives) /\ scan.todo \subseteq Pids /\ scan.active \subseteq Pids
  BY DEF TickShapes, Scan
<1>2. ASSUME NEW p \in Pids, ListPids(p)
      PROVE  scan' \in Scan /\ alerted' \subseteq Pids /\ noticed' \subseteq Pids
  <2>1. {q \in Unlisted : q <= p} \in SUBSET Pids
    BY <1>1 DEF Unlisted
  <2>2. p + 1 \in 1 .. MaxPid + 1
    <3>1. p \in Nat /\ p <= MaxPid /\ MaxPid \in Nat
      BY DEF Pids
    <3> QED
      BY <3>1
  <2> QED
    BY <1>1, <1>2, <2>1, <2>2 DEF ListPids, Scan
<1>3. ASSUME NEW p \in Pids, Visit(p)
      PROVE  scan' \in Scan /\ alerted' \subseteq Pids /\ noticed' \subseteq Pids
  <2>1. LookedAt(p) \in Scan
    BY <1>1 DEF LookedAt, Scan
  <2>2. CASE Suspicious(p) /\ p \notin alerted
    <3>1. procs[p].life \in Lives
      BY <1>1, <2>2 DEF Suspicious, Process
    <3>2. LookedAt(p).alerts \in Seq(Lives)
      BY <2>1 DEF Scan
    <3>3. Append(LookedAt(p).alerts, procs[p].life) \in Seq(Lives)
      BY <3>1, <3>2, AppendProperties
    <3>4. scan' = [LookedAt(p) EXCEPT !.alerts = Append(LookedAt(p).alerts, procs[p].life)]
          /\ alerted' = alerted \cup {p} /\ noticed' = noticed \ {p}
      BY <1>3, <2>2 DEF Visit, Alert
    <3>5. scan' \in Scan
      BY <2>1, <3>3, <3>4 DEF Scan
    <3> QED
      BY <1>1, <3>4, <3>5
  <2>3. CASE ~(Suspicious(p) /\ p \notin alerted)
    BY <1>1, <1>3, <2>1, <2>3 DEF Visit
  <2> QED
    BY <2>2, <2>3
<1>4. CASE Retain
  <2>1. scan' = [NoScan EXCEPT !.alerts = scan.alerts] /\ alerted' = alerted \cap scan.active
        /\ noticed' = noticed \cup (Pids \ scan.active)
    BY <1>4 DEF Retain
  <2>2. scan' \in Scan
    BY <1>1, <2>1, NoScanTypes DEF Scan
  <2> QED
    BY <1>1, <2>1, <2>2
<1> QED
  BY <1>2, <1>3, <1>4

LEMMA StepTypes == TickShapes /\ [Next]_vars => TickShapes'
<1> SUFFICES ASSUME TickShapes, [Next]_vars
             PROVE  TickShapes'
  OBVIOUS
<1> USE DEF TickShapes
<1>1. FimCap \in Nat /\ fim \in Nat /\ RceEnabled \in BOOLEAN
  BY TickAssumption
<1>2. ASSUME NEW kind \in {"log", "procs", "fim", "stop"}, Spend(kind)
      PROVE  budget' \in [{"log", "procs", "fim", "stop"} -> Nat]
  <2>1. budget[kind] - 1 \in Nat
    BY <1>2 DEF Spend
  <2> QED
    BY <1>2, <2>1 DEF Spend
<1>3. CASE Logger
  BY <1>2, <1>3 DEF Logger, rceVars, tableVars, detectorVars, Live
<1>4. CASE Kernel
  <2>1. Live' \subseteq Pids /\ procs' \in [Live' -> Process] /\ lives' \in 0 .. MaxLives
    BY <1>4, KernelTypes DEF Kernel
  <2> QED
    BY <1>2, <1>4, <2>1 DEF Kernel, detectorVars
<1>5. CASE FimEventArrives
  BY <1>1, <1>2, <1>5 DEF FimEventArrives, rceVars, tableVars, detectorVars, Live
<1>6. CASE Start
  BY <1>6, NoScanTypes DEF Start, NewDetector, tableVars, Live
<1>7. CASE Stop
  <2>1. <<>> \in Seq(Lives) /\ 0 \in 0 .. FimCap
    BY <1>1, EmptySeq
  <2> QED
    BY <1>2, <1>7, <2>1, NoScanTypes DEF Stop, NewDetector, tableVars, Live
<1>8. CASE HandleFimEvent
  <2>1. fim' \in 0 .. FimCap
    BY <1>1, <1>8 DEF HandleFimEvent
  <2> QED
    BY <1>8, <2>1 DEF HandleFimEvent, Tick, detectorVars, tableVars, Live
<1>9. CASE WakeUp \/ DrainEnds \/ SpawnsReported \/ AuthPoll
  <2>1. UNCHANGED <<detectorVars, tableVars, fim, budget, spawns>>
    BY <1>9 DEF WakeUp, DrainEnds, SpawnsReported, AuthPoll, NoLog, PollStep, PollGivenUp,
                PollReturns, ReportLogin, LoginsReported, Tick
  <2>2. phase' \in {"drain", "rce", "auth", "sleep", "logins"}
    BY <1>9 DEF WakeUp, DrainEnds, SpawnsReported, AuthPoll, NoLog, PollStep, PollGivenUp,
                PollReturns, ReportLogin, LoginsReported, Tick
  <2> QED
    BY <2>1, <2>2 DEF detectorVars, tableVars, Live
<1>10. CASE ScanStep \/ ScanEnds
  <2>1. /\ UNCHANGED <<tableVars, fim, budget, spawns>> /\ phase' \in {"rce", "spawns"}
        /\ (\E p \in Pids : ListPids(p) \/ Visit(p)) \/ Retain
    BY <1>10 DEF ScanStep, ScanEnds, Tick
  <2>2. scan' \in Scan /\ alerted' \subseteq Pids /\ noticed' \subseteq Pids
    BY <2>1, ScanTypes
  <2> QED
    BY <2>1, <2>2 DEF tableVars, Live
<1>11. CASE ReportSpawn
  <2>1. /\ UNCHANGED <<tableVars, fim, budget, alerted, noticed>> /\ phase' = "spawns"
        /\ scan.alerts # <<>> /\ scan.alerts \in Seq(Lives)
        /\ spawns' = Append(spawns, Head(scan.alerts))
        /\ scan' = [scan EXCEPT !.alerts = Tail(scan.alerts)]
    BY <1>11 DEF ReportSpawn, Tick, Scan
  <2>2. Head(scan.alerts) \in Lives /\ Tail(scan.alerts) \in Seq(Lives)
    BY <2>1, HeadTailProperties
  <2>3. spawns' \in Seq(Lives)
    BY <2>1, <2>2, AppendProperties
  <2>4. scan' \in Scan
    BY <2>1, <2>2 DEF Scan
  <2> QED
    BY <2>1, <2>3, <2>4 DEF tableVars, Live
<1>12. CASE UNCHANGED vars
  BY <1>12 DEF vars, rceVars, tickVars, detectorVars, tableVars, Live
<1> QED
  BY <1>3, <1>4, <1>5, <1>6, <1>7, <1>8, <1>9, <1>10, <1>11, <1>12
     DEF Next, MainLoop, Drain, RceScan

(* Every variable stays in its type, the position within twice the lines   *)
(* there can be, the scan within the pids there are.                       *)
THEOREM TickTypes == Spec => []TypeOK
<1> DEFINE Inv == LogInv /\ MonitorShapes /\ TickShapes
<1>1. Init => Inv
  BY InitLogins, InitTypes
<1>2. Inv /\ [Next]_vars => Inv'
  BY LoginStepKeeps, StepTypes
<1>3. Inv => TypeOK
  <2> SUFFICES ASSUME Inv
               PROVE  TypeOK
    OBVIOUS
  <2>1. LogShapes /\ Len(lines) \in Nat /\ MaxLines \in Nat /\ Len(lines) <= MaxLines
    BY LogConstants DEF LogInv, LogShapes
  <2>2. ASSUME NEW f \in Inodes, NEW n \in Nat, n <= Len(files[f])
        PROVE  n \in 0 .. 2 * MaxLines
    <3>1. Len(files[f]) \in Nat /\ Len(files[f]) <= 2 * Len(lines)
      BY <2>1, FileShapes DEF LogShapes
    <3> QED
      BY <2>1, <2>2, <3>1
  <2>3. pos \in 0 .. 2 * MaxLines
    <3>1. CASE posOf = NoFile
      <4>1. pos = 0 /\ 0 \in 0 .. 2 * MaxLines
        BY <2>1, <3>1, ReadToShapes
      <4> QED
        BY <4>1
    <3>2. CASE posOf # NoFile
      <4>1. posOf \in Inodes /\ pos \in Nat /\ pos <= Len(files[posOf])
        BY <3>2 DEF MonitorShapes, Open
      <4> QED
        BY <2>2, <4>1
    <3> QED
      BY <3>1, <3>2
  <2>4. poll.off \in 0 .. 2 * MaxLines
    <3>1. CASE Polling
      <4>1. posOf \in Inodes /\ poll.off \in Nat /\ poll.off <= Len(files[posOf])
        BY <3>1 DEF MonitorShapes, Polling
      <4> QED
        BY <2>2, <4>1
    <3>2. CASE ~Polling
      BY <2>1, <3>2 DEF MonitorShapes
    <3> QED
      BY <3>1, <3>2
  <2>5. since \in 0 .. MaxLines /\ whole \subseteq Lines
    BY <2>1 DEF MonitorShapes, LogShapes, Lines
  <2>6. LoginTypeOK
    BY <2>1, <2>3, <2>4, <2>5 DEF LoginTypeOK, LogShapes, MonitorShapes
  <2>7. RceTypeOK
    BY DEF RceTypeOK, TickShapes, Scan
  <2>8. \A k \in DOMAIN logins : logins[k].line \in Lines
    BY EventShapes DEF Event
  <2> QED
    BY <2>6, <2>7, <2>8 DEF TypeOK, TickShapes
<1> QED
  BY <1>1, <1>2, <1>3, PTL DEF Spec
=============================================================================
