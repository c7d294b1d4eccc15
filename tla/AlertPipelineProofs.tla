------------------------ MODULE AlertPipelineProofs ------------------------
(***************************************************************************)
(* What AlertPipeline does with an alert on its way, for any notifiers,    *)
(* capacities, times and answers of the services.                          *)
(* Then how many alerts a breaker lets through in its window.              *)
(***************************************************************************)
EXTENDS AlertPipeline, TLAPS, FiniteSetTheorems, SequenceTheorems, WellFoundedInduction

USE NotifiersAssumption, TimesAssumption, LimitsAssumption

Holding ==
    [pc : {"recv", "post"}, alert : Alerts \cup {0}, msg : Msgs, attempts : Nat,
     sleep : Nat]

Typed ==
    /\ issued \in 0 .. MaxAlerts
    /\ sending \in 0 .. N
    /\ sending # 0 => issued > 0
    /\ queue \in [Notifiers -> Seq(Alerts)]
    /\ worker \in [Notifiers -> Holding]
    /\ active \in [Notifiers -> BOOLEAN]
    /\ suppressed \in [Notifiers -> Nat]
    /\ delivered \in [Notifiers -> Seq(Alerts)]
    /\ fate \in [Notifiers -> [Alerts -> Fates]]
    /\ reported \in [Notifiers -> Nat]

(* The alerts its task has taken from the queue of n.                      *)
Taken(n) == Given(n) - Len(queue[n])

QueueInOrder(n) == \A i \in 1 .. Len(queue[n]) : queue[n][i] = Taken(n) + i

(* The task has the last alert it took in hand, or none.                   *)
InHandIsLast(n) ==
    /\ worker[n].alert # 0 <=> worker[n].pc = "post" /\ worker[n].msg # "notice"
    /\ worker[n].alert # 0 => /\ worker[n].alert = Taken(n)
                              /\ fate[n][Taken(n)] \in {"none", "delivered"}

(* What was taken and is no longer in hand has its fate; what was not      *)
(* taken has none.                                                         *)
FatesFollow(n) ==
    \A a \in Alerts :
        /\ a < Taken(n) \/ (a = Taken(n) /\ worker[n].alert = 0) => fate[n][a] # "none"
        /\ a > Taken(n) => fate[n][a] = "none"

(* Nothing arrived that was not taken, and no earlier alert after a later. *)
ArrivedInOrder(n) ==
    \A j \in 1 .. Len(delivered[n]) :
        /\ delivered[n][j] <= Taken(n)
        /\ \A i \in 1 .. Len(delivered[n]) : i < j => delivered[n][i] <= delivered[n][j]

Dropped(n) == {a \in Alerts : fate[n][a] = "suppressed"}
Counted(n) ==
    /\ active[n] <=> suppressed[n] > 0
    /\ reported[n] + suppressed[n] = Cardinality(Dropped(n))

Safe(n) ==
    QueueInOrder(n) /\ InHandIsLast(n) /\ FatesFollow(n) /\ ArrivedInOrder(n) /\ Counted(n)
IInv == Typed /\ \A n \in Notifiers : Safe(n)

-----------------------------------------------------------------------------
LEMMA TakenIsNat ==
    ASSUME Typed, NEW n \in Notifiers, QueueInOrder(n)
    PROVE  /\ Taken(n) \in Nat /\ Given(n) \in Nat /\ Len(queue[n]) \in Nat
           /\ Taken(n) <= MaxAlerts
<1>1. Len(queue[n]) \in Nat /\ Given(n) \in 0 .. MaxAlerts
  BY LenProperties DEF Typed, Given
<1>2. CASE Len(queue[n]) = 0
  BY <1>1, <1>2 DEF Taken
<1>3. CASE Len(queue[n]) # 0
  <2>1. queue[n][1] \in Alerts /\ queue[n][1] = Taken(n) + 1
    BY <1>1, <1>3, ElementOfSeq DEF Typed, QueueInOrder
  <2> QED
    BY SMTT(30), <1>1, <2>1 DEF Taken, Alerts
<1> QED
  BY <1>2, <1>3

LEMMA InitSafe ==
    ASSUME Init
    PROVE  IInv
<1>1. Typed
  BY EmptySeq DEF Init, Typed, Holding, Receiving, Msgs, Fates
<1>2. ASSUME NEW n \in Notifiers
      PROVE  Safe(n)
  <2>1. Taken(n) = 0 /\ Len(queue[n]) = 0 /\ Len(delivered[n]) = 0
    <3>1. queue[n] = <<>> /\ delivered[n] = <<>>
      BY DEF Init
    <3>2. Len(queue[n]) = 0 /\ Len(delivered[n]) = 0
      BY <3>1
    <3>3. Given(n) = 0
      BY DEF Init, Given
    <3> QED
      BY <3>2, <3>3 DEF Taken
  <2>2. Dropped(n) = {}
    BY DEF Init, Dropped
  <2>3. Counted(n)
    BY <2>2, FS_EmptySet DEF Init, Counted
  <2>4. worker[n].alert = 0 /\ worker[n].pc = "recv" /\ \A a \in Alerts : fate[n][a] = "none"
    BY DEF Init, Receiving
  <2>5. QueueInOrder(n) /\ ArrivedInOrder(n)
    BY <2>1 DEF QueueInOrder, ArrivedInOrder
  <2>6. InHandIsLast(n) /\ FatesFollow(n)
    BY <2>1, <2>4 DEF InHandIsLast, FatesFollow, Alerts
  <2> QED
    BY <2>3, <2>5, <2>6 DEF Safe
<1> QED
  BY <1>1, <1>2 DEF IInv

(* Whatever a step does elsewhere, a notifier of which it changes nothing  *)
(* but the clocks stays safe.                                              *)
LEMMA Untouched ==
    ASSUME Typed, NEW n \in Notifiers, Safe(n), Given(n)' = Given(n),
           queue'[n] = queue[n], delivered'[n] = delivered[n], fate'[n] = fate[n],
           active'[n] = active[n], suppressed'[n] = suppressed[n],
           reported'[n] = reported[n],
           /\ worker'[n].pc = worker[n].pc /\ worker'[n].msg = worker[n].msg
           /\ worker'[n].alert = worker[n].alert
    PROVE  Safe(n)'
<1>1. Taken(n)' = Taken(n)
  BY DEF Taken
<1>2. Dropped(n)' = Dropped(n)
  BY DEF Dropped
<1> QED
  BY <1>1, <1>2
     DEF Safe, QueueInOrder, InHandIsLast, FatesFollow, ArrivedInOrder, Counted

-----------------------------------------------------------------------------
(* The dispatcher *)

LEMMA HandOverSafe ==
    ASSUME IInv, NEW k \in Keys, HandOver(k)
    PROVE  IInv'
<1>1. sending' = 1 /\ issued' = issued + 1 /\ sending = 0
  BY DEF HandOver, After
<1>2. UNCHANGED <<queue, worker, active, suppressed, delivered, fate, reported>>
  BY DEF HandOver, breakerVars, historyVars
<1>3. Typed'
  BY <1>1, <1>2 DEF IInv, Typed, HandOver
<1>4. ASSUME NEW n \in Notifiers
      PROVE  Safe(n)'
  <2>1. Given(n)' = Given(n)
    BY <1>1 DEF Given, Notifiers, IInv, Typed
  <2> QED
    BY <1>2, <2>1, Untouched DEF IInv
<1> QED
  BY <1>3, <1>4 DEF IInv

LEMMA EnqueueSafe ==
    ASSUME IInv, Enqueue
    PROVE  IInv'
<1>0. sending \in Notifiers /\ issued \in Alerts
  BY DEF Enqueue, IInv, Typed, Notifiers, Alerts
<1>1. PICK n \in Notifiers :
        /\ sending = n /\ sending' = After(n) /\ issued' = issued
        /\ queue' = [queue EXCEPT ![n] = Append(queue[n], issued)]
        /\ UNCHANGED <<worker, active, suppressed, delivered, fate, reported>>
  BY <1>0 DEF Enqueue, breakerVars, historyVars
<1>2. sending' \in 0 .. N
  BY <1>1 DEF After, Notifiers
<1>3. Append(queue[n], issued) \in Seq(Alerts)
  BY <1>0, AppendProperties DEF IInv, Typed
<1>4. Typed'
  <2>1. queue' \in [Notifiers -> Seq(Alerts)]
    BY <1>1, <1>3 DEF IInv, Typed
  <2>2. issued > 0
    BY <1>0 DEF Alerts
  <2> QED
    BY <1>1, <1>2, <2>1, <2>2 DEF IInv, Typed
<1>5. ASSUME NEW o \in Notifiers \ {n}
      PROVE  Safe(o)'
  <2>1. Given(o)' = Given(o)
    BY <1>1 DEF Given, After, Notifiers
  <2>2. queue'[o] = queue[o]
    BY <1>1 DEF IInv, Typed
  <2> QED
    BY <1>1, <2>1, <2>2, Untouched DEF IInv
<1>6. Safe(n)'
  <2>1. Given(n) = issued - 1 /\ Given(n)' = issued
    BY <1>0, <1>1 DEF Given, After, Notifiers
  <2>2. /\ Len(queue[n]) \in Nat /\ Len(queue'[n]) = Len(queue[n]) + 1
        /\ \A i \in 1 .. Len(queue[n]) : queue'[n][i] = queue[n][i]
        /\ queue'[n][Len(queue[n]) + 1] = issued
    BY <1>0, <1>1, AppendProperties, LenProperties DEF IInv, Typed
  <2>3. Taken(n)' = Taken(n)
    BY <1>0, <2>1, <2>2 DEF Taken, Alerts
  <2>4. \A i \in 1 .. Len(queue'[n]) : queue'[n][i] = Taken(n) + i
    <3>1. Taken(n) + Len(queue[n]) + 1 = issued /\ Taken(n) \in Int
      BY <1>0, <2>1, <2>2 DEF Taken, Alerts
    <3>2. \A i \in 1 .. Len(queue[n]) : queue'[n][i] = Taken(n) + i
      BY <2>2 DEF IInv, Safe, QueueInOrder
    <3>3. ASSUME NEW i \in 1 .. Len(queue'[n]), i = Len(queue[n]) + 1
          PROVE  queue'[n][i] = Taken(n) + i
      BY <2>2, <3>1, <3>3
    <3>4. ASSUME NEW i \in 1 .. Len(queue'[n]), i # Len(queue[n]) + 1
          PROVE  i \in 1 .. Len(queue[n])
      BY <2>2, <3>4
    <3> QED
      BY <3>2, <3>3, <3>4
  <2>5. QueueInOrder(n)'
    BY <2>3, <2>4 DEF QueueInOrder
  <2> QED
    BY <1>1, <2>3, <2>5
       DEF IInv, Safe, InHandIsLast, FatesFollow, ArrivedInOrder, Counted, Dropped
<1> QED
  BY <1>4, <1>5, <1>6 DEF IInv

-----------------------------------------------------------------------------
(* The notifiers' tasks *)

(* A task of n leaves the other notifiers alone.                           *)
LEMMA OthersSafe ==
    ASSUME IInv, NEW n \in Notifiers, UNCHANGED <<issued, sending>>,
           \A o \in Notifiers \ {n} :
              /\ queue'[o] = queue[o] /\ delivered'[o] = delivered[o]
              /\ fate'[o] = fate[o] /\ active'[o] = active[o]
              /\ suppressed'[o] = suppressed[o] /\ reported'[o] = reported[o]
              /\ worker'[o] = worker[o],
           Safe(n)'
    PROVE  \A o \in Notifiers : Safe(o)'
<1>1. ASSUME NEW o \in Notifiers \ {n}
      PROVE  Safe(o)'
  <2>1. Given(o)' = Given(o)
    BY DEF Given
  <2> QED
    BY <2>1, Untouched DEF IInv
<1> QED
  BY <1>1

(* The head of the queue is the alert after the last one taken.            *)
LEMMA TakeNext ==
    ASSUME IInv, NEW n \in Notifiers, Take(n)
    PROVE  /\ Head(queue[n]) = Taken(n) + 1 /\ Taken(n) + 1 \in Alerts
           /\ Taken(n) \in Nat /\ Taken(n)' = Taken(n) + 1
           /\ worker[n].alert = 0 /\ fate[n][Taken(n) + 1] = "none"
           /\ QueueInOrder(n)'
           /\ queue' \in [Notifiers -> Seq(Alerts)]
           /\ \A o \in Notifiers \ {n} : queue'[o] = queue[o]
           /\ UNCHANGED <<issued, sending, delivered>>
<1>1. /\ queue[n] \in Seq(Alerts) /\ queue[n] # <<>>
      /\ queue' = [queue EXCEPT ![n] = Tail(queue[n])]
      /\ UNCHANGED <<issued, sending, delivered>>
      /\ worker[n].pc = "recv"
  BY DEF IInv, Typed, Take
<1>2. /\ Len(queue[n]) \in Nat \ {0} /\ Head(queue[n]) = queue[n][1]
      /\ Tail(queue[n]) \in Seq(Alerts) /\ Len(Tail(queue[n])) = Len(queue[n]) - 1
      /\ \A i \in 1 .. Len(Tail(queue[n])) : Tail(queue[n])[i] = queue[n][i + 1]
  BY <1>1, HeadTailProperties, LenProperties, EmptySeq
<1>3. queue[n][1] = Taken(n) + 1 /\ queue[n][1] \in Alerts /\ Taken(n) \in Nat
  BY <1>1, <1>2, TakenIsNat, ElementOfSeq DEF IInv, Safe, QueueInOrder
<1>4. queue'[n] = Tail(queue[n]) /\ queue' \in [Notifiers -> Seq(Alerts)]
      /\ \A o \in Notifiers \ {n} : queue'[o] = queue[o]
  BY <1>1, <1>2 DEF IInv, Typed
<1>5. Taken(n)' = Taken(n) + 1
  <2>1. Given(n)' = Given(n) /\ Given(n) \in Nat
    BY <1>1, TakenIsNat DEF Given, IInv, Safe
  <2> QED
    BY SMTT(30), <1>2, <1>4, <2>1 DEF Taken
<1>6. QueueInOrder(n)'
  <2> SUFFICES ASSUME NEW i \in 1 .. Len(queue'[n])
               PROVE  queue'[n][i] = Taken(n)' + i
    BY DEF QueueInOrder
  <2>1. i + 1 \in 1 .. Len(queue[n]) /\ queue'[n][i] = queue[n][i + 1]
    BY <1>2, <1>4
  <2>2. queue[n][i + 1] = Taken(n) + (i + 1)
    BY <2>1 DEF IInv, Safe, QueueInOrder
  <2> QED
    BY <1>3, <1>5, <2>1, <2>2
<1>7. worker[n].alert = 0
  BY <1>1 DEF IInv, Safe, InHandIsLast
<1>8. fate[n][Taken(n) + 1] = "none"
  BY <1>3 DEF IInv, Safe, FatesFollow
<1> QED
  BY <1>1, <1>2, <1>3, <1>4, <1>5, <1>6, <1>7, <1>8

LEMMA TakeArrived ==
    ASSUME IInv, NEW n \in Notifiers, Take(n)
    PROVE  ArrivedInOrder(n)'
<1>1. delivered' = delivered /\ Taken(n) \in Nat /\ Taken(n)' = Taken(n) + 1
  BY TakeNext
<1>2. \A i \in 1 .. Len(delivered[n]) : delivered[n][i] \in Nat
  BY SMTT(30), ElementOfSeq DEF IInv, Typed, Alerts
<1>3. ArrivedInOrder(n)
  BY DEF IInv, Safe
<1> QED
  BY <1>1, <1>2, <1>3 DEF ArrivedInOrder

(* Taken to be posted, at once or after the message of the recovery.       *)
LEMMA PassRecoverSafe ==
    ASSUME IInv, NEW n \in Notifiers, Pass(n) \/ Recover(n)
    PROVE  IInv'
<1> DEFINE next == Taken(n) + 1
<1>1. Take(n) /\ fate' = fate
  BY DEF Pass, Recover
<1>2. PICK m \in {"alert", "recovery"} : worker' = [worker EXCEPT ![n] = Posting(next, m)]
  BY <1>1, TakeNext DEF Pass, Recover
<1>3. Posting(next, m) \in Holding
  BY <1>1, TakeNext DEF Posting, Holding, Msgs
<1>4. /\ worker' \in [Notifiers -> Holding]
      /\ worker'[n].pc = "post" /\ worker'[n].msg = m /\ worker'[n].alert = next
      /\ \A o \in Notifiers \ {n} : worker'[o] = worker[o]
  BY <1>2, <1>3 DEF IInv, Typed, Posting
<1>5. /\ active' \in [Notifiers -> BOOLEAN] /\ suppressed' \in [Notifiers -> Nat]
      /\ reported' \in [Notifiers -> Nat]
      /\ active'[n] <=> suppressed'[n] > 0
      /\ reported'[n] + suppressed'[n] = reported[n] + suppressed[n]
      /\ \A o \in Notifiers \ {n} : /\ active'[o] = active[o]
                                    /\ suppressed'[o] = suppressed[o]
                                    /\ reported'[o] = reported[o]
  <2>1. CASE Pass(n)
    BY <2>1 DEF Pass, IInv, Typed, Safe, Counted
  <2>2. CASE Recover(n)
    <3>1. /\ active' = [active EXCEPT ![n] = FALSE]
          /\ suppressed' = [suppressed EXCEPT ![n] = 0]
          /\ reported' = [reported EXCEPT ![n] = reported[n] + suppressed[n]]
      BY <2>2 DEF Recover
    <3>2. reported[n] \in Nat /\ suppressed[n] \in Nat
      BY DEF IInv, Typed
    <3>3. active'[n] = FALSE /\ suppressed'[n] = 0
          /\ reported'[n] = reported[n] + suppressed[n]
      BY <3>1 DEF IInv, Typed
    <3>4. /\ active' \in [Notifiers -> BOOLEAN] /\ suppressed' \in [Notifiers -> Nat]
          /\ reported' \in [Notifiers -> Nat]
      BY <3>1, <3>2 DEF IInv, Typed
    <3>5. \A o \in Notifiers \ {n} : /\ active'[o] = active[o]
                                     /\ suppressed'[o] = suppressed[o]
                                     /\ reported'[o] = reported[o]
      BY <3>1 DEF IInv, Typed
    <3> QED
      BY <3>2, <3>3, <3>4, <3>5
  <2> QED
    BY <2>1, <2>2
<1>6. Typed'
  BY <1>1, <1>4, <1>5, TakeNext DEF IInv, Typed
<1>7. Safe(n)'
  <2>1. InHandIsLast(n)'
    BY <1>1, <1>4, TakeNext DEF InHandIsLast, Alerts
  <2>2. FatesFollow(n)'
    <3>1. /\ Taken(n)' = next /\ Taken(n) \in Nat /\ worker[n].alert = 0
          /\ worker'[n].alert # 0 /\ fate'[n] = fate[n]
      BY <1>1, <1>4, TakeNext DEF Alerts
    <3> SUFFICES ASSUME NEW a \in Alerts
                 PROVE  /\ a < next => fate[n][a] # "none"
                        /\ a > next => fate[n][a] = "none"
      BY <3>1 DEF FatesFollow
    <3>2. a \in Nat
      BY DEF Alerts
    <3> QED
      BY <3>1, <3>2 DEF IInv, Safe, FatesFollow
  <2>3. ArrivedInOrder(n)'
    BY <1>1, TakeArrived
  <2>4. Counted(n)'
    BY <1>1, <1>5 DEF IInv, Safe, Counted, Dropped
  <2> QED
    BY <1>1, <2>1, <2>2, <2>3, <2>4, TakeNext DEF Safe
<1> QED
  BY <1>1, <1>4, <1>5, <1>6, <1>7, TakeNext, OthersSafe DEF IInv

(* Suppressed: its fate comes while it is taken.                           *)
LEMMA SuppressSafe ==
    ASSUME IInv, NEW n \in Notifiers, Suppress(n)
    PROVE  IInv'
<1> DEFINE next == Taken(n) + 1
<1>1. Take(n)
  BY DEF Suppress
<1>2. /\ suppressed' = [suppressed EXCEPT ![n] = suppressed[n] + 1]
      /\ active' = [active EXCEPT ![n] = TRUE]
      /\ fate' = [fate EXCEPT ![n] = [fate[n] EXCEPT ![next] = "suppressed"]]
      /\ reported' = reported
  BY <1>1, TakeNext DEF Suppress
<1>3. PICK w \in {Receiving(Pause), Posting(0, "notice")} :
        worker' = [worker EXCEPT ![n] = w]
  BY DEF Suppress
<1>4. w \in Holding /\ w.alert = 0 /\ ~(w.pc = "post" /\ w.msg # "notice")
  BY DEF Receiving, Posting, Holding, Msgs
<1>5. /\ worker' \in [Notifiers -> Holding] /\ worker'[n] = w
      /\ \A o \in Notifiers \ {n} : worker'[o] = worker[o]
  BY <1>3, <1>4 DEF IInv, Typed
<1>6. /\ suppressed' \in [Notifiers -> Nat] /\ active' \in [Notifiers -> BOOLEAN]
      /\ suppressed'[n] = suppressed[n] + 1 /\ active'[n] = TRUE
      /\ \A o \in Notifiers \ {n} : active'[o] = active[o] /\ suppressed'[o] = suppressed[o]
  BY <1>2 DEF IInv, Typed
<1>7. /\ fate' \in [Notifiers -> [Alerts -> Fates]]
      /\ \A o \in Notifiers \ {n} : fate'[o] = fate[o]
      /\ fate'[n][next] = "suppressed"
      /\ \A a \in Alerts \ {next} : fate'[n][a] = fate[n][a]
  BY <1>1, <1>2, TakeNext DEF IInv, Typed, Fates
<1>8. Typed'
  BY <1>1, <1>2, <1>5, <1>6, <1>7, TakeNext DEF IInv, Typed
<1>9. Safe(n)'
  <2>1. InHandIsLast(n)'
    BY <1>4, <1>5 DEF InHandIsLast
  <2>2. FatesFollow(n)'
    <3>1. Taken(n)' = next /\ Taken(n) \in Nat /\ worker[n].alert = 0
      BY <1>1, TakeNext
    <3> SUFFICES ASSUME NEW a \in Alerts
                 PROVE  /\ a <= next => fate'[n][a] # "none"
                        /\ a > next => fate'[n][a] = "none"
      BY <3>1 DEF FatesFollow, Alerts
    <3>2. a \in Nat
      BY DEF Alerts
    <3>3. CASE a = next
      BY <1>7, <3>1, <3>3
    <3>4. CASE a # next
      BY <1>7, <3>1, <3>2, <3>4 DEF IInv, Safe, FatesFollow
    <3> QED
      BY <3>3, <3>4
  <2>3. ArrivedInOrder(n)'
    BY <1>1, TakeArrived
  <2>4. Counted(n)'
    <3>1. next \in Alerts /\ fate[n][next] = "none"
      BY <1>1, TakeNext
    <3>2. Dropped(n)' = Dropped(n) \cup {next} /\ next \notin Dropped(n)
      BY <1>7, <3>1 DEF Dropped
    <3>3. IsFiniteSet(Dropped(n))
      <4>1. IsFiniteSet(Alerts)
        BY FS_Interval DEF Alerts
      <4>2. Dropped(n) \in SUBSET Alerts
        BY DEF Dropped
      <4> QED
        BY <4>1, <4>2, FS_Subset
    <3>4. Cardinality(Dropped(n)') = Cardinality(Dropped(n)) + 1
      BY <3>2, <3>3, FS_AddElement
    <3>5. /\ suppressed[n] \in Nat /\ reported[n] \in Nat
          /\ reported[n] + suppressed[n] = Cardinality(Dropped(n))
      BY DEF IInv, Typed, Safe, Counted
    <3>6. /\ suppressed'[n] > 0
          /\ reported'[n] + suppressed'[n] = Cardinality(Dropped(n)')
      BY <1>2, <1>6, <3>4, <3>5
    <3> QED
      BY <1>6, <3>6 DEF Counted
  <2> QED
    BY <1>1, <2>1, <2>2, <2>3, <2>4, TakeNext DEF Safe
<1> QED
  BY ZenonT(30), <1>1, <1>2, <1>5, <1>6, <1>7, <1>8, <1>9, TakeNext, OthersSafe DEF IInv

(* The task goes on with w in hand after an attempt, or after giving up:   *)
(* what it had is still in hand, or has its fate.                          *)
LEMMA GoesOnSafe ==
    ASSUME IInv, NEW n \in Notifiers, NEW w \in Holding,
           UNCHANGED <<issued, sending, queue, active, suppressed, reported>>,
           worker' = [worker EXCEPT ![n] = w],
           w.alert # 0 <=> w.pc = "post" /\ w.msg # "notice",
           w.alert \in {0, worker[n].alert},
           \/ delivered' = delivered
           \/ /\ worker[n].alert # 0
              /\ delivered' = [delivered EXCEPT ![n] = Append(delivered[n], worker[n].alert)],
           \/ fate' = fate
           \/ /\ worker[n].alert # 0
              /\ \E x \in {"delivered", "failed"} :
                   /\ fate' = [fate EXCEPT ![n] = [fate[n] EXCEPT ![worker[n].alert] = x]]
                   /\ w.alert # 0 => x = "delivered",
           worker[n].alert # 0 /\ w.alert = 0 => fate'[n][worker[n].alert] # "none"
    PROVE  IInv'
<1> DEFINE hand == worker[n].alert
<1>1. /\ worker' \in [Notifiers -> Holding] /\ worker'[n] = w
      /\ \A o \in Notifiers \ {n} : worker'[o] = worker[o]
  BY DEF IInv, Typed
<1>2. /\ Taken(n) \in Nat /\ Taken(n)' = Taken(n)
      /\ hand # 0 => hand = Taken(n) /\ hand \in Alerts
                     /\ fate[n][hand] \in {"none", "delivered"}
  BY TakenIsNat DEF Taken, Given, IInv, Typed, Holding, Safe, InHandIsLast
<1>3. /\ delivered' \in [Notifiers -> Seq(Alerts)]
      /\ \A o \in Notifiers \ {n} : delivered'[o] = delivered[o]
  <2>1. CASE delivered' = delivered
    BY <2>1 DEF IInv, Typed
  <2>2. CASE delivered' # delivered
    <3>1. Append(delivered[n], hand) \in Seq(Alerts)
      BY <1>2, <2>2, AppendProperties DEF IInv, Typed
    <3> QED
      BY ZenonT(30), <2>2, <3>1 DEF IInv, Typed
  <2> QED
    BY <2>1, <2>2
<1>4. /\ fate' \in [Notifiers -> [Alerts -> Fates]]
      /\ \A o \in Notifiers \ {n} : fate'[o] = fate[o]
      /\ \A a \in Alerts : a # hand => fate'[n][a] = fate[n][a]
      /\ hand # 0 => /\ fate'[n][hand] \in {"none", "delivered", "failed"}
                     /\ w.alert # 0 => fate'[n][hand] \in {"none", "delivered"}
                     /\ fate[n][hand] # "none" => fate'[n][hand] # "none"
  <2>1. CASE fate' = fate
    BY <1>2, <2>1 DEF IInv, Typed
  <2>2. CASE fate' # fate
    <3>1. PICK x \in {"delivered", "failed"} :
            /\ fate' = [fate EXCEPT ![n] = [fate[n] EXCEPT ![hand] = x]]
            /\ w.alert # 0 => x = "delivered"
      BY <2>2
    <3>2. hand # 0 /\ hand \in Alerts
      BY <1>2, <2>2
    <3> QED
      BY <3>1, <3>2 DEF IInv, Typed, Fates
  <2> QED
    BY <2>1, <2>2
<1>5. Typed'
  BY <1>1, <1>3, <1>4 DEF IInv, Typed
<1>6. Safe(n)'
  <2>1. QueueInOrder(n)'
    BY <1>2 DEF IInv, Safe, QueueInOrder
  <2>2. InHandIsLast(n)'
    BY <1>1, <1>2, <1>4 DEF InHandIsLast
  <2>3. FatesFollow(n)'
    <3> SUFFICES ASSUME NEW a \in Alerts
                 PROVE  /\ a < Taken(n) \/ (a = Taken(n) /\ w.alert = 0)
                           => fate'[n][a] # "none"
                        /\ a > Taken(n) => fate'[n][a] = "none"
      BY <1>1, <1>2 DEF FatesFollow
    <3>1. a \in Nat /\ a # 0
      BY DEF Alerts
    <3>2. CASE a # hand
      <4>1. fate'[n][a] = fate[n][a]
        BY <1>4, <3>2
      <4>2. a = Taken(n) => hand = 0
        BY <1>2, <3>2
      <4> QED
        BY <1>2, <3>1, <4>1, <4>2 DEF IInv, Safe, FatesFollow
    <3>3. CASE a = hand
      BY <1>2, <3>1, <3>3
    <3> QED
      BY <3>2, <3>3
  <2>4. ArrivedInOrder(n)'
    <3>1. CASE delivered' = delivered
      BY <1>2, <3>1 DEF IInv, Safe, ArrivedInOrder
    <3>2. CASE delivered' # delivered
      <4>1. /\ delivered'[n] = Append(delivered[n], Taken(n)) /\ Taken(n) \in Alerts
        BY <1>2, <3>2 DEF IInv, Typed
      <4>2. /\ Len(delivered[n]) \in Nat /\ Len(delivered'[n]) = Len(delivered[n]) + 1
            /\ \A i \in 1 .. Len(delivered[n]) : delivered'[n][i] = delivered[n][i]
            /\ delivered'[n][Len(delivered[n]) + 1] = Taken(n)
        BY <4>1, AppendProperties, LenProperties DEF IInv, Typed
      <4>3. ArrivedInOrder(n)
        BY DEF IInv, Safe
      <4> DEFINE L == Len(delivered[n])
      <4>4. \A j \in 1 .. L :
              /\ delivered'[n][j] <= Taken(n)
              /\ \A i \in 1 .. L : i < j => delivered'[n][i] <= delivered'[n][j]
        BY <4>2, <4>3 DEF ArrivedInOrder
      <4>5. /\ L \in Nat /\ Len(delivered'[n]) = L + 1
            /\ delivered'[n][L + 1] = Taken(n) /\ Taken(n) \in Nat
        BY <1>2, <4>2
      <4> HIDE DEF L
      <4>6. \A j \in 1 .. L + 1 : j = L + 1 \/ j \in 1 .. L
        BY <4>5
      <4>7. \A j \in 1 .. L + 1 : delivered'[n][j] <= Taken(n)
        BY <4>4, <4>5, <4>6
      <4>8. \A j \in 1 .. L + 1, i \in 1 .. L + 1 :
              i < j => delivered'[n][i] <= delivered'[n][j]
        <5> SUFFICES ASSUME NEW j \in 1 .. L + 1, NEW i \in 1 .. L + 1, i < j
                     PROVE  delivered'[n][i] <= delivered'[n][j]
          OBVIOUS
        <5>1. i \in 1 .. L
          BY <4>5
        <5>2. CASE j = L + 1
          BY <4>4, <4>5, <5>1, <5>2
        <5>3. CASE j \in 1 .. L
          BY <4>4, <5>1, <5>3
        <5> QED
          BY <4>6, <5>2, <5>3
      <4> QED
        BY <1>2, <4>5, <4>7, <4>8 DEF ArrivedInOrder
    <3> QED
      BY <3>1, <3>2
  <2>5. Counted(n)'
    <3>1. Dropped(n)' = Dropped(n)
      BY <1>2, <1>4 DEF Dropped
    <3> QED
      BY <3>1 DEF IInv, Safe, Counted
  <2> QED
    BY <2>1, <2>2, <2>3, <2>4, <2>5 DEF Safe
<1> QED
  BY <1>1, <1>3, <1>4, <1>5, <1>6, OthersSafe DEF IInv

LEMMA AttemptSafe ==
    ASSUME IInv, NEW n \in Notifiers,
           \/ PostSucceeds(n) \/ PostRefused(n) \/ GiveUp(n)
           \/ \E arrives \in BOOLEAN : PostFails(n, arrives)
    PROVE  IInv'
<1> DEFINE hand == worker[n].alert
<1>1. /\ worker[n] \in Holding /\ worker[n].pc = "post"
      /\ UNCHANGED <<issued, sending, queue, active, suppressed, reported>>
  BY DEF PostSucceeds, PostRefused, GiveUp, PostFails, Attempting, IInv, Typed
<1>2. /\ hand # 0 <=> worker[n].msg # "notice"
      /\ hand # 0 => hand \in Alerts /\ fate[n][hand] \in {"none", "delivered"}
  BY <1>1, TakenIsNat DEF IInv, Safe, InHandIsLast, Holding
<1>3. fate \in [Notifiers -> [Alerts -> Fates]]
  BY DEF IInv, Typed
<1>4. CASE \E arrives \in BOOLEAN : PostFails(n, arrives)
  <2>1. PICK t \in Backoffs :
          worker' = [worker EXCEPT ![n] =
                       [worker[n] EXCEPT !.attempts = worker[n].attempts + 1, !.sleep = t]]
    BY <1>4 DEF PostFails
  <2> DEFINE w == [worker[n] EXCEPT !.attempts = worker[n].attempts + 1, !.sleep = t]
  <2>2. w \in Holding /\ w.pc = worker[n].pc /\ w.msg = worker[n].msg /\ w.alert = hand
    <3>1. t \in Nat /\ worker[n].attempts + 1 \in Nat
      BY <1>1 DEF Holding
    <3> QED
      BY <1>1, <3>1 DEF Holding
  <2>3. \/ UNCHANGED <<delivered, fate>>
        \/ /\ hand # 0
           /\ delivered' = [delivered EXCEPT ![n] = Append(delivered[n], hand)]
           /\ fate' = [fate EXCEPT ![n] = [fate[n] EXCEPT ![hand] = "delivered"]]
    BY <1>2, <1>4 DEF PostFails, Arrives
  <2> HIDE DEF w
  <2> QED
    BY <1>1, <1>2, <2>1, <2>2, <2>3, GoesOnSafe DEF w
<1>5. CASE PostSucceeds(n) \/ PostRefused(n) \/ GiveUp(n)
  <2>1. \/ worker[n].msg = "alert" /\ worker' = [worker EXCEPT ![n] = Receiving(MinInterval)]
        \/ worker[n].msg = "notice" /\ worker' = [worker EXCEPT ![n] = Receiving(Pause)]
        \/ /\ worker[n].msg = "recovery"
           /\ worker' = [worker EXCEPT ![n] = Posting(hand, "alert")]
    BY <1>1, <1>5 DEF PostSucceeds, PostRefused, GiveUp, Finished, Holding, Msgs
  <2>2. Arrives(n) \/ Abandoned(n)
    BY <1>5 DEF PostSucceeds, PostRefused, GiveUp
  <2>3. CASE worker[n].msg = "alert"
    <3>1. \/ /\ delivered' = [delivered EXCEPT ![n] = Append(delivered[n], hand)]
             /\ fate' = [fate EXCEPT ![n] = [fate[n] EXCEPT ![hand] = "delivered"]]
          \/ /\ delivered' = delivered
             /\ fate' = [fate EXCEPT ![n] = [fate[n] EXCEPT ![hand] = "failed"]]
          \/ delivered' = delivered /\ fate' = fate /\ fate[n][hand] # "none"
      BY <2>2, <2>3 DEF Arrives, Abandoned
    <3>2. hand # 0 /\ fate'[n][hand] # "none"
      BY <1>2, <1>3, <2>3, <3>1
    <3>3. Receiving(MinInterval) \in Holding /\ Receiving(MinInterval).alert = 0
          /\ Receiving(MinInterval).pc = "recv"
      BY DEF Receiving, Holding, Msgs
    <3>4. worker' = [worker EXCEPT ![n] = Receiving(MinInterval)]
      BY <2>1, <2>3
    <3> QED
      BY <1>1, <3>1, <3>2, <3>3, <3>4, GoesOnSafe
  <2>4. CASE worker[n].msg = "notice"
    <3>1. UNCHANGED <<delivered, fate>> /\ hand = 0
      BY <1>2, <2>2, <2>4 DEF Arrives, Abandoned
    <3>2. Receiving(Pause) \in Holding /\ Receiving(Pause).alert = 0
          /\ Receiving(Pause).pc = "recv"
      BY DEF Receiving, Holding, Msgs
    <3>3. worker' = [worker EXCEPT ![n] = Receiving(Pause)]
      BY <2>1, <2>4
    <3> QED
      BY <1>1, <3>1, <3>2, <3>3, GoesOnSafe
  <2>5. CASE worker[n].msg = "recovery"
    <3>1. UNCHANGED <<delivered, fate>> /\ hand # 0
      BY <1>2, <2>2, <2>5 DEF Arrives, Abandoned
    <3>2. Posting(hand, "alert") \in Holding /\ Posting(hand, "alert").alert = hand
          /\ Posting(hand, "alert").pc = "post" /\ Posting(hand, "alert").msg = "alert"
      BY <1>1 DEF Posting, Holding, Msgs
    <3>3. worker' = [worker EXCEPT ![n] = Posting(hand, "alert")]
      BY <2>1, <2>5
    <3> QED
      BY <1>1, <3>1, <3>2, <3>3, GoesOnSafe
  <2> QED
    BY <1>1, <2>3, <2>4, <2>5 DEF Holding, Msgs
<1> QED
  BY <1>4, <1>5

-----------------------------------------------------------------------------
(* The clock, the exit, and all steps *)

LEMMA ClockSafe ==
    ASSUME IInv, Tick \/ Exit
    PROVE  IInv'
<1>1. UNCHANGED <<issued, sending, queue, active, suppressed, delivered, fate, reported>>
  BY DEF Tick, Exit, breakerVars, historyVars
<1>2. /\ worker' \in [Notifiers -> Holding]
      /\ \A n \in Notifiers : /\ worker'[n].pc = worker[n].pc
                              /\ worker'[n].msg = worker[n].msg
                              /\ worker'[n].alert = worker[n].alert
  <2>1. CASE Exit
    BY <2>1 DEF Exit, IInv, Typed
  <2>2. CASE Tick
    <3>1. worker' = [n \in Notifiers |->
                       [worker[n] EXCEPT !.sleep = IF worker[n].sleep = 0 THEN 0
                                                   ELSE worker[n].sleep - 1]]
      BY <2>2 DEF Tick
    <3>2. ASSUME NEW n \in Notifiers
          PROVE  /\ worker'[n] \in Holding
                 /\ worker'[n].pc = worker[n].pc /\ worker'[n].msg = worker[n].msg
                 /\ worker'[n].alert = worker[n].alert
      <4>1. worker[n] \in Holding
        BY DEF IInv, Typed
      <4>2. (IF worker[n].sleep = 0 THEN 0 ELSE worker[n].sleep - 1) \in Nat
        BY <4>1 DEF Holding
      <4> QED
        BY <3>1, <4>1, <4>2 DEF Holding
    <3> QED
      BY <3>1, <3>2
  <2> QED
    BY <2>1, <2>2
<1>3. Typed'
  BY <1>1, <1>2 DEF IInv, Typed
<1>4. ASSUME NEW n \in Notifiers
      PROVE  Safe(n)'
  <2>1. Given(n)' = Given(n)
    BY <1>1 DEF Given
  <2> QED
    BY <1>1, <1>2, <2>1, Untouched DEF IInv
<1> QED
  BY <1>3, <1>4 DEF IInv

LEMMA StepSafe ==
    ASSUME IInv, [Next]_vars
    PROVE  IInv'
<1>1. ASSUME NEW k \in Keys, Dispatch(k) \/ DispatchLast(k)
      PROVE  IInv'
  BY <1>1, HandOverSafe DEF Dispatch, DispatchLast
<1>2. CASE Enqueue
  BY <1>2, EnqueueSafe
<1>3. CASE Tick \/ Exit
  BY <1>3, ClockSafe
<1>4. ASSUME NEW n \in Notifiers, Task(n)
      PROVE  IInv'
  BY <1>4, PassRecoverSafe, SuppressSafe, AttemptSafe DEF Task
<1>5. CASE UNCHANGED vars
  <2>1. UNCHANGED <<issued, sending, queue, worker, active, suppressed, delivered, fate,
                    reported>>
    BY <1>5 DEF vars, breakerVars, historyVars
  <2>2. Typed'
    BY <2>1 DEF IInv, Typed
  <2>3. ASSUME NEW n \in Notifiers
        PROVE  Safe(n)'
    <3>1. Given(n)' = Given(n)
      BY <2>1 DEF Given
    <3> QED
      BY <2>1, <3>1, Untouched DEF IInv
  <2> QED
    BY <2>2, <2>3 DEF IInv
<1> QED
  BY <1>1, <1>2, <1>3, <1>4, <1>5 DEF Next

LEMMA Inductive == Spec => []IInv
<1>1. Init => IInv
  BY InitSafe
<1>2. IInv /\ [Next]_vars => IInv'
  BY StepSafe
<1> QED
  BY <1>1, <1>2, PTL DEF Spec

(* Every alert a notifier was given is in its queue, in its task's hands   *)
(* or has its fate, in the order of dispatch.                              *)
THEOREM AlertsKept == Spec => []NothingLost
<1>1. ASSUME IInv
      PROVE  NothingLost
  <2> SUFFICES ASSUME NEW n \in Notifiers
               PROVE  /\ queue[n] = [i \in 1 .. Len(queue[n]) |-> Taken(n) + i]
                      /\ \A a \in Alerts :
                           IF a <= Taken(n) - InHand(n) THEN fate[n][a] # "none"
                           ELSE a = Taken(n) \/ fate[n][a] = "none"
                      /\ InHand(n) = 1 => worker[n].alert = Taken(n)
    BY DEF NothingLost, Taken
  <2>1. Safe(n) /\ queue[n] \in Seq(Alerts) /\ Taken(n) \in Nat
    BY <1>1, TakenIsNat DEF IInv, Typed, Safe
  <2>2. queue[n] = [i \in 1 .. Len(queue[n]) |-> Taken(n) + i]
    <3>1. queue[n] = [i \in 1 .. Len(queue[n]) |-> queue[n][i]]
      BY <2>1, LenProperties
    <3> QED
      BY <2>1, <3>1 DEF Safe, QueueInOrder
  <2>3. InHand(n) = IF worker[n].alert # 0 THEN 1 ELSE 0
    BY <2>1 DEF InHand, Safe, InHandIsLast
  <2>4. ASSUME NEW a \in Alerts
        PROVE  IF a <= Taken(n) - InHand(n) THEN fate[n][a] # "none"
               ELSE a = Taken(n) \/ fate[n][a] = "none"
    <3>1. a \in Nat
      BY DEF Alerts
    <3> QED
      BY <2>1, <2>3, <3>1 DEF Safe, FatesFollow
  <2>5. InHand(n) = 1 => worker[n].alert = Taken(n)
    BY <2>1, <2>3 DEF Safe, InHandIsLast
  <2> QED
    BY <2>2, <2>4, <2>5
<1> QED
  BY <1>1, Inductive, PTL

(* No alert arrives after a later one.                                     *)
THEOREM ArrivalsInOrder == Spec => []DeliveredInOrder
<1>1. ASSUME IInv
      PROVE  DeliveredInOrder
  <2>1. ASSUME NEW n \in Notifiers
        PROVE  DOMAIN delivered[n] = 1 .. Len(delivered[n])
    BY <1>1, LenProperties DEF IInv, Typed
  <2> QED
    BY <1>1, <2>1 DEF IInv, Safe, ArrivedInOrder, DeliveredInOrder
<1> QED
  BY <1>1, Inductive, PTL

(* A breaker is open exactly while it owes a count, and the counts it has  *)
(* told of and still owes are all it suppressed.                           *)
THEOREM SuppressionCounted == Spec => []SuppressionAccounted
<1>1. ASSUME IInv
      PROVE  SuppressionAccounted
  BY <1>1 DEF IInv, Safe, Counted, Dropped, SuppressionAccounted
<1> QED
  BY <1>1, Inductive, PTL

-----------------------------------------------------------------------------
(* The window of a breaker: what it has forgotten is older, what it has    *)
(* not is the rest of what was posted.                                     *)

Ages == 0 .. Window + 1
Follows(p, s) ==
    /\ Len(s) <= Len(p)
    /\ \A i \in 1 .. Len(p) - Len(s) : p[i] > Window
    /\ \A i \in 1 .. Len(s) : p[Len(p) - Len(s) + i] = s[i]

Rated(n) ==
    n \in Breakers =>
        /\ Len(stamps[n]) <= MaxPerWindow
        /\ worker[n].pc = "post" /\ worker[n].msg = "recovery" => Len(stamps[n]) < MaxPerWindow
        /\ Follows(posted[n], stamps[n])

Timed ==
    /\ exit \in {"no", "last", "gone"}
    /\ grace \in {0} \cup UNION {0 .. g : g \in Graces}
    /\ quiet \in [Keys -> 0 .. EchoWindow]
    /\ \A n \in Notifiers : Len(queue[n]) <= QueueCap
    /\ worker \in [Notifiers -> Worker]
    /\ stamps \in [Notifiers -> Seq(Ages)]
    /\ posted \in [Notifiers -> Seq(Ages)]

RInv == Timed /\ \A n \in Notifiers : Rated(n)

(* The pops end, and all they take is older than the window.               *)
LEMMA PoppedAreOld ==
    ASSUME NEW s \in Seq(Ages)
    PROVE  Popped(s) \in 0 .. Len(s) /\ \A i \in 1 .. Popped(s) : s[i] > Window
<1> DEFINE Stops == {k \in 0 .. Len(s) : k < Len(s) => s[k + 1] <= Window}
           Fits(k) == /\ \A i \in 1 .. k : s[i] > Window
                      /\ k < Len(s) => s[k + 1] <= Window
<1>1. Len(s) \in Nat /\ DOMAIN s = 1 .. Len(s) /\ Window \in Nat
      /\ \A i \in 1 .. Len(s) : s[i] \in Nat
  BY LenProperties, ElementOfSeq DEF Ages
<1>2. Len(s) \in Stops /\ Stops \subseteq Nat
  BY <1>1
<1>3. PICK k \in Stops : \A j \in Stops : ~(<<j, k>> \in OpToRel(<, Nat))
  <2>1. Stops # {}
    BY <1>2
  <2> QED
    BY ZenonT(30), <1>2, <2>1, NatLessThanWellFounded, WFMin
<1>4. \A j \in Stops : ~(j < k)
  BY <1>2, <1>3 DEF OpToRel
<1>5. k \in 0 .. Len(s) /\ k \in Nat
  BY <1>1
<1>6. \A i \in 1 .. k : s[i] > Window
  <2> SUFFICES ASSUME NEW i \in 1 .. k
               PROVE  s[i] > Window
    OBVIOUS
  <2>1. i - 1 \in 0 .. Len(s) /\ i - 1 < k /\ (i - 1) + 1 = i /\ i - 1 < Len(s)
    BY <1>1, <1>5
  <2>2. i - 1 \notin Stops
    BY <1>4, <2>1
  <2>3. ~(s[i] <= Window)
    BY <2>1, <2>2
  <2>4. i \in 1 .. Len(s)
    BY <1>1, <1>5
  <2> QED
    BY <1>1, <2>3, <2>4
<1>7. Fits(k)
  BY <1>6
<1> HIDE DEF Stops
<1>8. \E m \in 0 .. Len(s) : Fits(m)
  BY <1>5, <1>7
<1>9. Popped(s) \in 0 .. Len(s) /\ Fits(Popped(s))
  BY <1>8 DEF Popped
<1> QED
  BY <1>9

LEMMA UnexpiredShapes ==
    ASSUME Timed, NEW n \in Notifiers
    PROVE  LET k == Popped(stamps[n])
           IN  /\ stamps[n] \in Seq(Ages) /\ Len(stamps[n]) \in Nat
               /\ k \in 0 .. Len(stamps[n]) /\ \A i \in 1 .. k : stamps[n][i] > Window
               /\ Unexpired(n) \in Seq(Ages)
               /\ Len(Unexpired(n)) = Len(stamps[n]) - k
               /\ \A i \in 1 .. Len(stamps[n]) - k : Unexpired(n)[i] = stamps[n][k + i]
<1> DEFINE s == stamps[n]
           k == Popped(s)
           m == Len(s)
<1>1. s \in Seq(Ages) /\ m \in Nat /\ \A i \in 1 .. m : s[i] \in Ages
  <2>1. s \in Seq(Ages)
    BY DEF Timed
  <2> QED
    BY <2>1, LenProperties, ElementOfSeq
<1>2. k \in 0 .. m /\ \A i \in 1 .. k : s[i] > Window
  BY <1>1, PoppedAreOld
<1> HIDE DEF s, k, m
<1>3. k + 1 \in Int /\ m \in Int /\ \A i \in k + 1 .. m : s[i] \in Ages
  BY <1>1, <1>2
<1>4. /\ SubSeq(s, k + 1, m) \in Seq(Ages)
      /\ Len(SubSeq(s, k + 1, m)) = IF k + 1 <= m THEN m - (k + 1) + 1 ELSE 0
      /\ \A i \in 1 .. m - (k + 1) + 1 : SubSeq(s, k + 1, m)[i] = s[k + 1 + i - 1]
  BY <1>3, SubSeqProperties
<1>5. /\ m - (k + 1) + 1 = m - k /\ (k + 1 <= m \/ m - k = 0)
      /\ \A i \in 1 .. m - k : k + 1 + i - 1 = k + i
  BY <1>1, <1>2
<1>6. \A i \in 1 .. m - k : SubSeq(s, k + 1, m)[i] = s[k + i]
  BY <1>4, <1>5
<1>7. Unexpired(n) = SubSeq(s, k + 1, m)
  BY DEF Unexpired, s, k, m
<1> QED
  BY <1>1, <1>2, <1>4, <1>5, <1>6, <1>7 DEF s, k, m

LEMMA AgedShapes ==
    ASSUME NEW s \in Seq(Ages)
    PROVE  /\ Aged(s) \in Seq(Ages) /\ Len(Aged(s)) = Len(s) /\ Len(s) \in Nat
           /\ \A i \in 1 .. Len(s) :
                 Aged(s)[i] = (IF s[i] > Window THEN s[i] ELSE s[i] + 1)
           /\ \A i \in 1 .. Len(s) : s[i] \in Ages
<1>1. Len(s) \in Nat /\ DOMAIN s = 1 .. Len(s) /\ Window \in Nat
      /\ \A i \in 1 .. Len(s) : s[i] \in Ages
  BY LenProperties, ElementOfSeq
<1>2. \A i \in 1 .. Len(s) : (IF s[i] > Window THEN s[i] ELSE s[i] + 1) \in Ages
  BY <1>1 DEF Ages
<1>3. Aged(s) \in [1 .. Len(s) -> Ages]
      /\ \A i \in 1 .. Len(s) :
            Aged(s)[i] = (IF s[i] > Window THEN s[i] ELSE s[i] + 1)
  BY <1>1, <1>2 DEF Aged
<1>4. Aged(s) \in Seq(Ages)
  BY <1>1, <1>3, IsASeq
<1>5. Len(Aged(s)) = Len(s)
  <2>1. Len(Aged(s)) \in Nat /\ DOMAIN Aged(s) = 1 .. Len(Aged(s))
    BY <1>4, LenProperties
  <2>2. DOMAIN Aged(s) = 1 .. Len(s)
    BY <1>3
  <2>3. \A a, b \in Nat : 1 .. a = 1 .. b => a = b
    OBVIOUS
  <2> QED
    BY <1>1, <2>1, <2>2, <2>3
<1> QED
  BY <1>1, <1>3, <1>4, <1>5

LEMMA FollowsAged ==
    ASSUME NEW p \in Seq(Ages), NEW s \in Seq(Ages), Follows(p, s)
    PROVE  Follows(Aged(p), Aged(s))
<1>1. /\ Len(Aged(s)) = Len(s) /\ Len(s) \in Nat /\ Len(Aged(p)) = Len(p) /\ Len(p) \in Nat
      /\ \A i \in 1 .. Len(s) : Aged(s)[i] = (IF s[i] > Window THEN s[i] ELSE s[i] + 1)
      /\ \A i \in 1 .. Len(p) : Aged(p)[i] = (IF p[i] > Window THEN p[i] ELSE p[i] + 1)
  BY AgedShapes
<1>2. /\ Len(s) <= Len(p)
      /\ \A i \in 1 .. Len(p) - Len(s) : p[i] > Window /\ i \in 1 .. Len(p)
      /\ \A i \in 1 .. Len(s) :
            p[Len(p) - Len(s) + i] = s[i] /\ Len(p) - Len(s) + i \in 1 .. Len(p)
  BY <1>1 DEF Follows
<1>3. \A i \in 1 .. Len(p) - Len(s) : Aged(p)[i] > Window
  BY <1>1, <1>2
<1>4. \A i \in 1 .. Len(s) : Aged(p)[Len(p) - Len(s) + i] = Aged(s)[i]
  BY <1>1, <1>2
<1> QED
  BY <1>1, <1>2, <1>3, <1>4 DEF Follows

LEMMA FollowsAppend ==
    ASSUME NEW p \in Seq(Ages), NEW s \in Seq(Ages), Follows(p, s)
    PROVE  /\ Follows(Append(p, 0), Append(s, 0))
           /\ Append(p, 0) \in Seq(Ages) /\ Append(s, 0) \in Seq(Ages)
           /\ Len(Append(s, 0)) = Len(s) + 1
<1> DEFINE pp == Append(p, 0)
           ss == Append(s, 0)
<1>1. 0 \in Ages /\ Len(p) \in Nat /\ Len(s) \in Nat
  BY LenProperties DEF Ages
<1>2. /\ pp \in Seq(Ages) /\ Len(pp) = Len(p) + 1 /\ pp[Len(p) + 1] = 0
      /\ \A i \in 1 .. Len(p) : pp[i] = p[i]
      /\ ss \in Seq(Ages) /\ Len(ss) = Len(s) + 1 /\ ss[Len(s) + 1] = 0
      /\ \A i \in 1 .. Len(s) : ss[i] = s[i]
  BY <1>1, AppendProperties
<1> HIDE DEF pp, ss
<1>3. /\ Len(s) <= Len(p)
      /\ \A i \in 1 .. Len(p) - Len(s) : p[i] > Window
      /\ \A i \in 1 .. Len(s) : p[Len(p) - Len(s) + i] = s[i]
  BY DEF Follows
<1>4. /\ Len(pp) - Len(ss) = Len(p) - Len(s)
      /\ \A i \in 1 .. Len(p) - Len(s) : i \in 1 .. Len(p)
      /\ \A i \in 1 .. Len(s) : Len(p) - Len(s) + i \in 1 .. Len(p)
      /\ Len(p) - Len(s) + (Len(s) + 1) = Len(p) + 1
  BY <1>1, <1>2, <1>3
<1>5. \A i \in 1 .. Len(ss) : i \in 1 .. Len(s) \/ i = Len(s) + 1
  BY <1>1, <1>2
<1>6. \A i \in 1 .. Len(ss) : pp[Len(p) - Len(s) + i] = ss[i]
  <2> SUFFICES ASSUME NEW i \in 1 .. Len(ss)
               PROVE  pp[Len(p) - Len(s) + i] = ss[i]
    OBVIOUS
  <2>1. CASE i \in 1 .. Len(s)
    <3> DEFINE j == Len(p) - Len(s) + i
    <3>1. j \in 1 .. Len(p) /\ p[j] = s[i]
      BY <1>3, <1>4, <2>1
    <3> HIDE DEF j
    <3>2. pp[j] = p[j] /\ ss[i] = s[i]
      BY <1>2, <2>1, <3>1
    <3> QED
      BY <3>1, <3>2 DEF j
  <2>2. CASE i = Len(s) + 1
    BY <1>2, <1>4, <2>2
  <2> QED
    BY <1>5, <2>1, <2>2
<1>7. \A i \in 1 .. Len(p) - Len(s) : pp[i] > Window
  BY <1>2, <1>3, <1>4
<1>8. Len(ss) <= Len(pp)
  BY <1>1, <1>2, <1>3
<1>9. Follows(pp, ss)
  BY <1>4, <1>6, <1>7, <1>8 DEF Follows
<1> QED
  BY <1>2, <1>9 DEF pp, ss

LEMMA FollowsUnexpired ==
    ASSUME Timed, NEW n \in Notifiers, Follows(posted[n], stamps[n])
    PROVE  Follows(posted[n], Unexpired(n))
<1> DEFINE p == posted[n]
           s == stamps[n]
           k == Popped(s)
           u == Unexpired(n)
<1>1. Len(p) \in Nat
  BY LenProperties DEF Timed
<1>2. /\ Len(s) \in Nat /\ k \in 0 .. Len(s) /\ \A i \in 1 .. k : s[i] > Window
      /\ Len(u) = Len(s) - k /\ \A i \in 1 .. Len(s) - k : u[i] = s[k + i]
  BY UnexpiredShapes
<1>3. /\ Len(s) <= Len(p)
      /\ \A i \in 1 .. Len(p) - Len(s) : p[i] > Window
      /\ \A i \in 1 .. Len(s) : p[Len(p) - Len(s) + i] = s[i]
  BY DEF Follows
<1> HIDE DEF p, s, k, u
<1>4. Len(p) - Len(u) = Len(p) - Len(s) + k /\ Len(u) <= Len(p)
  BY <1>1, <1>2, <1>3
<1>5. \A i \in 1 .. Len(p) - Len(u) : p[i] > Window
  <2> SUFFICES ASSUME NEW i \in 1 .. Len(p) - Len(u)
               PROVE  p[i] > Window
    OBVIOUS
  <2>1. CASE i \in 1 .. Len(p) - Len(s)
    BY <1>3, <2>1
  <2>2. CASE i \notin 1 .. Len(p) - Len(s)
    <3>1. i - (Len(p) - Len(s)) \in 1 .. k /\ i - (Len(p) - Len(s)) \in 1 .. Len(s)
          /\ Len(p) - Len(s) + (i - (Len(p) - Len(s))) = i
      BY <1>1, <1>2, <1>3, <1>4, <2>2
    <3> QED
      BY <1>2, <1>3, <3>1
  <2> QED
    BY <2>1, <2>2
<1>6. \A i \in 1 .. Len(u) : p[Len(p) - Len(u) + i] = u[i]
  <2> SUFFICES ASSUME NEW i \in 1 .. Len(u)
               PROVE  p[Len(p) - Len(u) + i] = u[i]
    OBVIOUS
  <2>1. /\ i \in 1 .. Len(s) - k /\ k + i \in 1 .. Len(s)
        /\ Len(p) - Len(u) + i = Len(p) - Len(s) + (k + i)
    <3>1. i \in 1 .. Len(s) - k
      BY <1>2
    <3>2. k + i \in 1 .. Len(s)
      BY <1>2, <3>1
    <3>3. Len(p) - Len(u) + i = Len(p) - Len(s) + (k + i)
      BY <1>1, <1>2, <1>4, <3>1
    <3> QED
      BY <3>1, <3>2, <3>3
  <2> QED
    BY <1>2, <1>3, <2>1
<1> QED
  BY <1>4, <1>5, <1>6 DEF Follows, p, u

LEMMA FollowsBounds ==
    ASSUME NEW p \in Seq(Ages), NEW s \in Seq(Ages), Follows(p, s)
    PROVE  Cardinality({i \in DOMAIN p : p[i] <= Window}) <= Len(s)
<1> DEFINE a == Len(p)
           b == Len(s)
           recent == {i \in DOMAIN p : p[i] <= Window}
<1>1. a \in Nat /\ b \in Nat /\ DOMAIN p = 1 .. a /\ Window \in Nat
      /\ \A i \in 1 .. a : p[i] \in Nat
  BY LenProperties, ElementOfSeq DEF Ages
<1>2. b <= a /\ \A i \in 1 .. a - b : p[i] > Window
  BY DEF Follows
<1>3. recent \subseteq a - b + 1 .. a
  <2> SUFFICES ASSUME NEW i \in 1 .. a, p[i] <= Window
               PROVE  i \in a - b + 1 .. a
    BY <1>1
  <2>1. i \notin 1 .. a - b
    <3>1. ~(p[i] > Window)
      BY <1>1
    <3> QED
      BY <1>2, <3>1
  <2> QED
    BY <1>1, <1>2, <2>1
<1> HIDE DEF a, b, recent
<1>4. /\ IsFiniteSet(a - b + 1 .. a)
      /\ Cardinality(a - b + 1 .. a) = IF a - b + 1 > a THEN 0 ELSE a - (a - b + 1) + 1
  <2>1. a - b + 1 \in Int /\ a \in Int
    BY <1>1
  <2> QED
    BY <2>1, FS_Interval
<1>5. Cardinality(a - b + 1 .. a) = b
  BY <1>1, <1>4
<1>6. Cardinality(recent) <= Cardinality(a - b + 1 .. a)
  BY <1>3, <1>4, FS_Subset
<1> QED
  BY <1>5, <1>6 DEF recent, b

LEMMA SleepsEnd ==
    /\ Sleeps \subseteq Nat /\ 0 \in Sleeps /\ Pause \in Sleeps /\ MinInterval \in Sleeps
    /\ Backoffs \subseteq Sleeps
    /\ \A t \in Sleeps : t # 0 => t - 1 \in Sleeps
<1>1. {Pause, MinInterval} \cup Backoffs \subseteq Nat
  OBVIOUS
<1>2. \A t \in Nat : t \in 0 .. t
  OBVIOUS
<1>3. \A t \in {Pause, MinInterval} \cup Backoffs : t \in Sleeps
  BY <1>1, <1>2 DEF Sleeps
<1>4. ASSUME NEW t \in Sleeps, t # 0
      PROVE  t \in Nat /\ t - 1 \in Sleeps
  <2>1. PICK m \in {Pause, MinInterval} \cup Backoffs : t \in 0 .. m
    BY <1>4 DEF Sleeps
  <2>2. m \in Nat
    BY <1>1
  <2>3. t \in Nat /\ t - 1 \in 0 .. m
    BY <1>4, <2>1, <2>2
  <2> QED
    BY <2>3 DEF Sleeps
<1> QED
  BY <1>3, <1>4 DEF Sleeps

LEMMA InitRates ==
    ASSUME Init
    PROVE  RInv
<1>1. /\ exit = "no" /\ grace = 0
      /\ quiet = [k \in Keys |-> 0]
      /\ queue = [n \in Notifiers |-> <<>>]
      /\ worker = [n \in Notifiers |-> Receiving(0)]
      /\ stamps = [n \in Notifiers |-> <<>>]
      /\ posted = [n \in Notifiers |-> <<>>]
  BY DEF Init
<1>2. 0 \in 0 .. EchoWindow /\ 0 \in 0 .. MaxAttempts /\ 0 <= QueueCap /\ 0 <= MaxPerWindow
  OBVIOUS
<1>3. <<>> \in Seq(Ages) /\ Len(<<>>) = 0
  BY EmptySeq
<1>4. Receiving(0) \in Worker /\ Receiving(0).pc = "recv"
  BY <1>2, SleepsEnd DEF Receiving, Worker, Msgs
<1>5. Follows(<<>>, <<>>)
  BY <1>3 DEF Follows
<1>6. Timed
  BY <1>1, <1>2, <1>3, <1>4 DEF Timed
<1>7. \A n \in Notifiers : Rated(n)
  BY <1>1, <1>2, <1>3, <1>4, <1>5 DEF Rated
<1> QED
  BY <1>6, <1>7 DEF RInv

(* What a task does is all its own.                                        *)
LEMMA TaskRates ==
    ASSUME RInv, NEW n \in Notifiers,
           NEW w \in Worker, NEW s \in Seq(Ages), NEW p \in Seq(Ages),
           UNCHANGED <<exit, grace, quiet>>,
           \A o \in Notifiers : Len(queue'[o]) <= QueueCap,
           worker' = [worker EXCEPT ![n] = w],
           stamps' = [stamps EXCEPT ![n] = s],
           posted' = [posted EXCEPT ![n] = p],
           n \in Breakers =>
              /\ Len(s) <= MaxPerWindow
              /\ w.pc = "post" /\ w.msg = "recovery" => Len(s) < MaxPerWindow
              /\ Follows(p, s)
    PROVE  RInv'
<1>1. /\ worker \in [Notifiers -> Worker]
      /\ stamps \in [Notifiers -> Seq(Ages)] /\ posted \in [Notifiers -> Seq(Ages)]
  BY DEF RInv, Timed
<1>2. worker'[n] = w /\ stamps'[n] = s /\ posted'[n] = p
  BY <1>1
<1>3. Timed'
  BY <1>1 DEF RInv, Timed
<1>4. ASSUME NEW o \in Notifiers
      PROVE  Rated(o)'
  <2>1. CASE o = n
    BY <1>2, <2>1 DEF Rated
  <2>2. CASE o # n
    <3>1. worker'[o] = worker[o] /\ stamps'[o] = stamps[o] /\ posted'[o] = posted[o]
      BY <1>1, <2>2
    <3>2. Rated(o)
      BY DEF RInv
    <3> QED
      BY <3>1, <3>2 DEF Rated
  <2> QED
    BY <2>1, <2>2
<1> QED
  BY <1>3, <1>4 DEF RInv

(* A task that goes on to the first attempt of an alert.                   *)
LEMMA RecordRates ==
    ASSUME RInv, NEW n \in Notifiers, NEW kept \in Seq(Ages), NEW a \in Alerts \cup {0},
           UNCHANGED <<exit, grace, quiet>>,
           \A o \in Notifiers : Len(queue'[o]) <= QueueCap,
           worker' = [worker EXCEPT ![n] = Posting(a, "alert")],
           Record(n, kept),
           n \in Breakers => Follows(posted[n], kept) /\ Len(kept) < MaxPerWindow
    PROVE  RInv'
<1>1. Posting(a, "alert") \in Worker /\ Posting(a, "alert").msg = "alert"
  BY SleepsEnd DEF Posting, Worker, Msgs
<1>2. posted[n] \in Seq(Ages) /\ posted \in [Notifiers -> Seq(Ages)]
  BY DEF RInv, Timed
<1>3. CASE n \in Breakers
  <2>1. /\ Follows(Append(posted[n], 0), Append(kept, 0))
        /\ Append(posted[n], 0) \in Seq(Ages) /\ Append(kept, 0) \in Seq(Ages)
        /\ Len(Append(kept, 0)) = Len(kept) + 1
    BY <1>2, <1>3, FollowsAppend
  <2>2. Len(kept) \in Nat
    BY LenProperties
  <2>3. Len(Append(kept, 0)) <= MaxPerWindow
    BY <1>3, <2>1, <2>2
  <2>4. /\ stamps' = [stamps EXCEPT ![n] = Append(kept, 0)]
        /\ posted' = [posted EXCEPT ![n] = Append(posted[n], 0)]
    BY <1>3 DEF Record
  <2> QED
    BY <1>1, <2>1, <2>3, <2>4, TaskRates
<1>4. CASE n \notin Breakers
  <2>1. /\ stamps' = [stamps EXCEPT ![n] = kept]
        /\ posted' = [posted EXCEPT ![n] = posted[n]]
    BY <1>4 DEF Record
  <2> QED
    BY <1>1, <1>2, <1>4, <2>1, TaskRates
<1> QED
  BY <1>3, <1>4

LEMMA TakeRates ==
    ASSUME IInv, RInv, NEW n \in Notifiers, Take(n)
    PROVE  /\ UNCHANGED <<exit, grace, quiet>>
           /\ \A o \in Notifiers : Len(queue'[o]) <= QueueCap
           /\ Head(queue[n]) \in Alerts \cup {0}
           /\ Unexpired(n) \in Seq(Ages)
           /\ n \in Breakers => /\ Follows(posted[n], Unexpired(n))
                                /\ Len(Unexpired(n)) <= MaxPerWindow
           /\ posted[n] \in Seq(Ages)
           /\ posted \in [Notifiers -> Seq(Ages)]
<1>1. Timed /\ Rated(n)
  BY DEF RInv
<1>2. UNCHANGED <<exit, grace, quiet>>
  BY DEF Take, Alive, exitVars
<1>3. Head(queue[n]) \in Alerts
  BY TakeNext
<1>4. \A o \in Notifiers : Len(queue'[o]) <= QueueCap
  <2>1. /\ queue[n] \in Seq(Alerts) /\ queue[n] # <<>>
        /\ queue' = [queue EXCEPT ![n] = Tail(queue[n])]
        /\ queue \in [Notifiers -> Seq(Alerts)]
    BY DEF IInv, Typed, Take
  <2>2. Len(queue[n]) \in Nat /\ Len(Tail(queue[n])) = Len(queue[n]) - 1
    BY <2>1, HeadTailProperties, LenProperties, EmptySeq
  <2>3. \A o \in Notifiers : Len(queue[o]) <= QueueCap
    BY <1>1 DEF Timed
  <2>4. Len(Tail(queue[n])) <= QueueCap
    BY <2>2, <2>3
  <2> QED
    BY <2>1, <2>3, <2>4
<1>5. /\ Unexpired(n) \in Seq(Ages) /\ Len(Unexpired(n)) <= Len(stamps[n])
      /\ Len(Unexpired(n)) \in Nat /\ Len(stamps[n]) \in Nat
  <2>1. /\ Len(stamps[n]) \in Nat /\ Popped(stamps[n]) \in 0 .. Len(stamps[n])
        /\ Unexpired(n) \in Seq(Ages)
        /\ Len(Unexpired(n)) = Len(stamps[n]) - Popped(stamps[n])
    BY <1>1, UnexpiredShapes
  <2> QED
    BY <2>1
<1>6. n \in Breakers => /\ Follows(posted[n], Unexpired(n))
                        /\ Len(Unexpired(n)) <= MaxPerWindow
  BY <1>1, <1>5, FollowsUnexpired DEF Rated
<1>7. posted[n] \in Seq(Ages) /\ posted \in [Notifiers -> Seq(Ages)]
  BY <1>1 DEF Timed
<1> QED
  BY <1>2, <1>3, <1>4, <1>5, <1>6, <1>7

LEMMA TakingRates ==
    ASSUME IInv, RInv, NEW n \in Notifiers, Pass(n) \/ Suppress(n) \/ Recover(n)
    PROVE  RInv'
<1>0. Take(n)
  BY DEF Pass, Suppress, Recover
<1>1. /\ UNCHANGED <<exit, grace, quiet>>
      /\ \A o \in Notifiers : Len(queue'[o]) <= QueueCap
      /\ Head(queue[n]) \in Alerts \cup {0}
      /\ Unexpired(n) \in Seq(Ages)
      /\ n \in Breakers => /\ Follows(posted[n], Unexpired(n))
                           /\ Len(Unexpired(n)) <= MaxPerWindow
      /\ posted[n] \in Seq(Ages)
      /\ posted \in [Notifiers -> Seq(Ages)]
  BY <1>0, TakeRates
<1>2. CASE Pass(n)
  <2>1. /\ worker' = [worker EXCEPT ![n] = Posting(Head(queue[n]), "alert")]
        /\ Record(n, Unexpired(n))
        /\ n \in Breakers => Len(Unexpired(n)) < MaxPerWindow
    BY <1>2 DEF Pass
  <2> QED
    BY <1>1, <2>1, RecordRates
<1>3. CASE Suppress(n)
  <2> DEFINE w == IF active[n] THEN Receiving(Pause) ELSE Posting(0, "notice")
  <2>1. w \in Worker /\ ~(w.pc = "post" /\ w.msg = "recovery")
    BY SleepsEnd DEF Receiving, Posting, Worker, Msgs
  <2>2. /\ worker' = [worker EXCEPT ![n] = w]
        /\ stamps' = [stamps EXCEPT ![n] = Unexpired(n)]
        /\ posted' = posted
    BY <1>3 DEF Suppress
  <2> HIDE DEF w
  <2>3. posted' = [posted EXCEPT ![n] = posted[n]]
    BY <1>1, <2>2
  <2> QED
    BY <1>1, <2>1, <2>2, <2>3, TaskRates
<1>4. CASE Recover(n)
  <2> DEFINE w == Posting(Head(queue[n]), "recovery")
  <2>1. w \in Worker
    BY <1>1, SleepsEnd DEF Posting, Worker, Msgs
  <2>2. /\ worker' = [worker EXCEPT ![n] = w]
        /\ stamps' = [stamps EXCEPT ![n] = Unexpired(n)]
        /\ posted' = posted
        /\ Len(Unexpired(n)) < MaxPerWindow
    BY <1>4 DEF Recover
  <2> HIDE DEF w
  <2>3. posted' = [posted EXCEPT ![n] = posted[n]]
    BY <1>1, <2>2
  <2> QED
    BY <1>1, <2>1, <2>2, <2>3, TaskRates
<1> QED
  BY <1>2, <1>3, <1>4

LEMMA FinishedRates ==
    ASSUME RInv, NEW n \in Notifiers, Finished(n), worker[n].pc = "post",
           UNCHANGED <<exit, grace, quiet, queue>>
    PROVE  RInv'
<1>1. /\ worker[n] \in Worker /\ worker[n].alert \in Alerts \cup {0}
      /\ stamps[n] \in Seq(Ages) /\ posted[n] \in Seq(Ages)
      /\ stamps \in [Notifiers -> Seq(Ages)] /\ posted \in [Notifiers -> Seq(Ages)]
      /\ \A o \in Notifiers : Len(queue'[o]) <= QueueCap
  BY DEF RInv, Timed, Worker
<1>2. Rated(n)
  BY DEF RInv
<1>3. CASE worker[n].msg = "recovery"
  <2>1. /\ worker' = [worker EXCEPT ![n] = Posting(worker[n].alert, "alert")]
        /\ Record(n, stamps[n])
    BY <1>3 DEF Finished
  <2>2. n \in Breakers => Follows(posted[n], stamps[n]) /\ Len(stamps[n]) < MaxPerWindow
    BY <1>2, <1>3 DEF Rated
  <2> QED
    BY <1>1, <2>1, <2>2, RecordRates
<1>4. CASE worker[n].msg # "recovery"
  <2>1. PICK t \in {Pause, MinInterval} : worker' = [worker EXCEPT ![n] = Receiving(t)]
    BY <1>4 DEF Finished
  <2>2. UNCHANGED <<stamps, posted>>
    BY <1>4 DEF Finished
  <2>3. Receiving(t) \in Worker /\ Receiving(t).pc = "recv"
    BY SleepsEnd DEF Receiving, Worker, Msgs
  <2>4. /\ stamps' = [stamps EXCEPT ![n] = stamps[n]]
        /\ posted' = [posted EXCEPT ![n] = posted[n]]
    BY <1>1, <2>2
  <2>5. n \in Breakers => Follows(posted[n], stamps[n]) /\ Len(stamps[n]) <= MaxPerWindow
    BY <1>2 DEF Rated
  <2> QED
    BY <1>1, <2>1, <2>3, <2>4, <2>5, TaskRates
<1> QED
  BY <1>3, <1>4

LEMMA PostingRates ==
    ASSUME RInv, NEW n \in Notifiers,
           \/ PostSucceeds(n) \/ PostRefused(n) \/ GiveUp(n)
           \/ \E arrives \in BOOLEAN : PostFails(n, arrives)
    PROVE  RInv'
<1>1. worker[n].pc = "post" /\ UNCHANGED <<exit, grace, quiet, queue>>
  BY DEF PostSucceeds, PostRefused, GiveUp, PostFails, Attempting, Alive, exitVars
<1>2. CASE PostSucceeds(n) \/ PostRefused(n) \/ GiveUp(n)
  BY <1>1, <1>2, FinishedRates DEF PostSucceeds, PostRefused, GiveUp
<1>3. ASSUME NEW arrives \in BOOLEAN, PostFails(n, arrives)
      PROVE  RInv'
  <2>1. PICK t \in Backoffs :
            worker' = [worker EXCEPT ![n] =
                         [worker[n] EXCEPT !.attempts = worker[n].attempts + 1, !.sleep = t]]
    BY <1>3 DEF PostFails
  <2> DEFINE w == [worker[n] EXCEPT !.attempts = worker[n].attempts + 1, !.sleep = t]
  <2>2. /\ worker[n] \in Worker
        /\ stamps[n] \in Seq(Ages) /\ posted[n] \in Seq(Ages)
        /\ stamps \in [Notifiers -> Seq(Ages)] /\ posted \in [Notifiers -> Seq(Ages)]
        /\ \A o \in Notifiers : Len(queue'[o]) <= QueueCap
    BY <1>1 DEF RInv, Timed
  <2>3. worker[n].attempts + 1 \in 0 .. MaxAttempts /\ t \in Sleeps
    <3>1. worker[n].attempts \in 0 .. MaxAttempts /\ worker[n].attempts < MaxAttempts
      BY <1>3, <2>2 DEF PostFails, Attempting, Worker
    <3>2. worker[n].attempts + 1 \in 0 .. MaxAttempts
      BY <3>1
    <3> QED
      BY <3>2, SleepsEnd
  <2>4. w \in Worker /\ w.pc = worker[n].pc /\ w.msg = worker[n].msg
    BY <2>2, <2>3 DEF Worker
  <2> HIDE DEF w
  <2>7. UNCHANGED <<stamps, posted>>
    BY <1>3 DEF PostFails
  <2>8. /\ stamps' = [stamps EXCEPT ![n] = stamps[n]]
        /\ posted' = [posted EXCEPT ![n] = posted[n]]
    BY <2>2, <2>7
  <2>9. n \in Breakers =>
            /\ Follows(posted[n], stamps[n]) /\ Len(stamps[n]) <= MaxPerWindow
            /\ w.pc = "post" /\ w.msg = "recovery" => Len(stamps[n]) < MaxPerWindow
    BY <2>4 DEF RInv, Rated
  <2>10. worker' = [worker EXCEPT ![n] = w]
    BY <2>1 DEF w
  <2> QED
    BY <1>1, <2>2, <2>4, <2>8, <2>9, <2>10, TaskRates
<1> QED
  BY <1>2, <1>3

LEMMA DispatcherRates ==
    ASSUME IInv, RInv,
           \/ \E k \in Keys : Dispatch(k) \/ DispatchLast(k)
           \/ Enqueue \/ Exit
    PROVE  RInv'
<1>1. UNCHANGED <<worker, stamps, posted>>
  BY DEF Dispatch, DispatchLast, HandOver, Enqueue, Exit, breakerVars, historyVars
<1>2. exit' \in {"no", "last", "gone"}
      /\ grace' \in {0} \cup UNION {0 .. g : g \in Graces}
  <2>1. CASE \E k \in Keys : DispatchLast(k)
    <3>1. exit' = "last" /\ grace' \in Graces
      BY <2>1 DEF DispatchLast
    <3>2. grace' \in Nat
      BY <3>1
    <3>3. grace' \in 0 .. grace'
      BY <3>2
    <3> QED
      BY <3>1, <3>3
  <2>2. CASE ~\E k \in Keys : DispatchLast(k)
    <3>1. exit' \in {exit, "gone"} /\ grace' = grace
      BY <2>2 DEF Dispatch, Enqueue, Alive, Exit, exitVars
    <3> QED
      BY <3>1 DEF RInv, Timed
  <2> QED
    BY <2>1, <2>2
<1>3. quiet' \in [Keys -> 0 .. EchoWindow]
  <2>1. quiet \in [Keys -> 0 .. EchoWindow] /\ EchoWindow \in 0 .. EchoWindow
    BY DEF RInv, Timed
  <2>2. quiet' = quiet \/ \E k \in Keys : quiet' = [quiet EXCEPT ![k] = EchoWindow]
    BY DEF Dispatch, DispatchLast, HandOver, Enqueue, Exit
  <2> QED
    BY <2>1, <2>2
<1>4. \A n \in Notifiers : Len(queue'[n]) <= QueueCap
  <2>1. \A n \in Notifiers : Len(queue[n]) <= QueueCap
    BY DEF RInv, Timed
  <2>2. CASE Enqueue
    <3>1. /\ sending \in Notifiers /\ issued \in Alerts
          /\ queue \in [Notifiers -> Seq(Alerts)] /\ queue[sending] \in Seq(Alerts)
      <4>1. sending \in 0 .. N /\ sending # 0 /\ issued > 0 /\ issued \in 0 .. MaxAlerts
            /\ queue \in [Notifiers -> Seq(Alerts)]
        BY <2>2 DEF IInv, Typed, Enqueue
      <4>2. sending \in Notifiers /\ issued \in Alerts
        BY <4>1 DEF Notifiers, Alerts
      <4> QED
        BY <4>1, <4>2
    <3>2. /\ Len(queue[sending]) < QueueCap
          /\ queue' = [queue EXCEPT ![sending] = Append(queue[sending], issued)]
      BY <2>2 DEF Enqueue
    <3>3. Len(queue[sending]) \in Nat
          /\ Len(Append(queue[sending], issued)) = Len(queue[sending]) + 1
      BY <3>1, AppendProperties, LenProperties
    <3>4. Len(Append(queue[sending], issued)) <= QueueCap
      BY <3>2, <3>3
    <3> QED
      BY <2>1, <3>1, <3>2, <3>4
  <2>3. CASE ~Enqueue
    <3>1. queue' = queue
      BY <2>3 DEF Dispatch, DispatchLast, HandOver, Exit
    <3> QED
      BY <2>1, <3>1
  <2> QED
    BY <2>2, <2>3
<1>5. Timed'
  BY <1>1, <1>2, <1>3, <1>4 DEF RInv, Timed
<1>6. \A n \in Notifiers : Rated(n)'
  BY <1>1 DEF RInv, Rated
<1> QED
  BY <1>5, <1>6 DEF RInv

LEMMA ClockRates ==
    ASSUME RInv, Tick
    PROVE  RInv'
<1>1. /\ exit' = exit /\ queue' = queue
      /\ grace' = IF exit = "last" /\ sending = 0 /\ grace > 0 THEN grace - 1 ELSE grace
      /\ quiet' = [k \in Keys |-> IF quiet[k] = 0 THEN 0 ELSE quiet[k] - 1]
      /\ stamps' = [n \in Notifiers |-> Aged(stamps[n])]
      /\ posted' = [n \in Notifiers |-> Aged(posted[n])]
      /\ worker' = [n \in Notifiers |->
                      [worker[n] EXCEPT !.sleep = IF worker[n].sleep = 0 THEN 0
                                                  ELSE worker[n].sleep - 1]]
  BY DEF Tick
<1>2. /\ exit \in {"no", "last", "gone"}
      /\ grace \in {0} \cup UNION {0 .. g : g \in Graces}
      /\ quiet \in [Keys -> 0 .. EchoWindow]
      /\ \A n \in Notifiers : Len(queue[n]) <= QueueCap
      /\ worker \in [Notifiers -> Worker]
      /\ stamps \in [Notifiers -> Seq(Ages)] /\ posted \in [Notifiers -> Seq(Ages)]
  BY DEF RInv, Timed
<1>3. grace' \in {0} \cup UNION {0 .. g : g \in Graces}
  <2>1. CASE grace' = grace
    BY <1>2, <2>1
  <2>2. CASE grace > 0 /\ grace' = grace - 1
    <3>1. PICK g \in Graces : grace \in 0 .. g
      BY <1>2, <2>2
    <3>2. g \in Nat
      OBVIOUS
    <3>3. grace - 1 \in 0 .. g
      BY <2>2, <3>1, <3>2
    <3> QED
      BY <2>2, <3>3
  <2> QED
    BY <1>1, <2>1, <2>2
<1>4. quiet' \in [Keys -> 0 .. EchoWindow]
  <2>1. ASSUME NEW k \in Keys
        PROVE  (IF quiet[k] = 0 THEN 0 ELSE quiet[k] - 1) \in 0 .. EchoWindow
    <3>1. quiet[k] \in 0 .. EchoWindow /\ EchoWindow \in Nat
      BY <1>2
    <3> QED
      BY <3>1
  <2> QED
    BY <1>1, <2>1
<1>5. /\ worker' \in [Notifiers -> Worker]
      /\ \A n \in Notifiers : worker'[n].pc = worker[n].pc /\ worker'[n].msg = worker[n].msg
  <2>1. ASSUME NEW n \in Notifiers
        PROVE  /\ worker'[n] \in Worker
               /\ worker'[n].pc = worker[n].pc /\ worker'[n].msg = worker[n].msg
    <3>1. worker[n] \in Worker /\ worker[n].sleep \in Sleeps
      BY <1>2 DEF Worker
    <3>2. (IF worker[n].sleep = 0 THEN 0 ELSE worker[n].sleep - 1) \in Sleeps
      BY <3>1, SleepsEnd
    <3> QED
      BY <1>1, <3>1, <3>2 DEF Worker
  <2> QED
    BY <1>1, <2>1
<1>6. \A n \in Notifiers :
         /\ stamps[n] \in Seq(Ages) /\ posted[n] \in Seq(Ages)
         /\ stamps'[n] = Aged(stamps[n]) /\ posted'[n] = Aged(posted[n])
         /\ stamps'[n] \in Seq(Ages) /\ posted'[n] \in Seq(Ages)
         /\ Len(stamps'[n]) = Len(stamps[n])
  BY <1>1, <1>2, AgedShapes
<1>7. stamps' \in [Notifiers -> Seq(Ages)] /\ posted' \in [Notifiers -> Seq(Ages)]
  BY <1>1, <1>6
<1>8. Timed'
  BY <1>1, <1>2, <1>3, <1>4, <1>5, <1>7 DEF Timed
<1>9. ASSUME NEW n \in Notifiers
      PROVE  Rated(n)'
  <2>1. Rated(n)
    BY DEF RInv
  <2>2. n \in Breakers => Follows(posted'[n], stamps'[n])
    BY <1>6, <2>1, FollowsAged DEF Rated
  <2> QED
    BY <1>5, <1>6, <2>1, <2>2 DEF Rated
<1> QED
  BY <1>8, <1>9 DEF RInv

LEMMA StepRates ==
    ASSUME IInv, RInv, [Next]_vars
    PROVE  RInv'
<1>1. CASE \/ \E k \in Keys : Dispatch(k) \/ DispatchLast(k)
           \/ Enqueue \/ Exit
  BY <1>1, DispatcherRates
<1>2. CASE Tick
  BY <1>2, ClockRates
<1>3. ASSUME NEW n \in Notifiers, Task(n)
      PROVE  RInv'
  BY <1>3, TakingRates, PostingRates DEF Task
<1>4. CASE UNCHANGED vars
  <2>1. UNCHANGED <<exit, grace, quiet, queue, worker, stamps, posted>>
    BY <1>4 DEF vars, exitVars, breakerVars, historyVars
  <2>2. Timed'
    BY <2>1 DEF RInv, Timed
  <2>3. \A n \in Notifiers : Rated(n)'
    BY <2>1 DEF RInv, Rated
  <2> QED
    BY <2>2, <2>3 DEF RInv
<1> QED
  BY <1>1, <1>2, <1>3, <1>4 DEF Next

LEMMA RatesInductive == Spec => [](IInv /\ RInv)
<1>1. Init => IInv /\ RInv
  BY InitSafe, InitRates
<1>2. IInv /\ RInv /\ [Next]_vars => (IInv /\ RInv)'
  BY StepSafe, StepRates
<1> QED
  BY <1>1, <1>2, PTL DEF Spec

(* In no stretch of the breaker's window does a task that asks one begin   *)
(* to post more alerts than its limit, whatever the services answer, the   *)
(* recovery in mid-window included (CircuitBreaker::check, record_sent).   *)
THEOREM PostsBounded == Spec => []RateBound
<1>1. ASSUME RInv
      PROVE  RateBound
  <2> SUFFICES ASSUME NEW n \in Breakers
               PROVE  Cardinality(InWindow(n)) <= MaxPerWindow
    BY DEF RateBound
  <2>1. n \in Notifiers
    OBVIOUS
  <2>2. /\ posted[n] \in Seq(Ages) /\ stamps[n] \in Seq(Ages)
        /\ Follows(posted[n], stamps[n]) /\ Len(stamps[n]) <= MaxPerWindow
    BY <1>1, <2>1 DEF RInv, Timed, Rated
  <2>3. /\ Cardinality(InWindow(n)) <= Len(stamps[n])
        /\ InWindow(n) = {i \in DOMAIN posted[n] : posted[n][i] <= Window}
    BY <2>2, FollowsBounds DEF InWindow
  <2>4. Cardinality(InWindow(n)) \in Nat
    <3>1. DOMAIN posted[n] = 1 .. Len(posted[n]) /\ Len(posted[n]) \in Nat
      BY <2>2, LenProperties
    <3>2. IsFiniteSet(1 .. Len(posted[n]))
      <4>1. 1 \in Int /\ Len(posted[n]) \in Int
        BY <3>1
      <4> QED
        BY <4>1, FS_Interval
    <3>3. InWindow(n) \in SUBSET (1 .. Len(posted[n]))
      BY <3>1 DEF InWindow
    <3>4. IsFiniteSet(InWindow(n))
      BY ZenonT(30), <3>2, <3>3, FS_Subset
    <3> QED
      BY <3>4, FS_CardinalityType
  <2>5. Len(stamps[n]) \in Nat
    BY <2>2, LenProperties
  <2> QED
    BY <2>2, <2>3, <2>4, <2>5
<1> QED
  BY <1>1, RatesInductive, PTL

(* Every variable keeps its type: no queue grows beyond its capacity, no   *)
(* message is tried more than MaxAttempts times, no count of suppressed    *)
(* alerts exceeds the alerts there were.                                   *)
THEOREM PipelineTypes == Spec => []TypeOK
<1>1. ASSUME IInv, RInv
      PROVE  TypeOK
  <2>1. \A n \in Notifiers : suppressed[n] \in 0 .. MaxAlerts
    <3> SUFFICES ASSUME NEW n \in Notifiers
                 PROVE  suppressed[n] \in 0 .. MaxAlerts
      OBVIOUS
    <3>1. /\ suppressed[n] \in Nat /\ reported[n] \in Nat
          /\ reported[n] + suppressed[n] = Cardinality(Dropped(n))
      BY <1>1 DEF IInv, Typed, Safe, Counted
    <3>2. IsFiniteSet(Alerts) /\ Cardinality(Alerts) = MaxAlerts
      <4>1. 1 \in Int /\ MaxAlerts \in Int /\ MaxAlerts \in Nat
        OBVIOUS
      <4>2. /\ IsFiniteSet(1 .. MaxAlerts)
            /\ Cardinality(1 .. MaxAlerts) = IF 1 > MaxAlerts THEN 0 ELSE MaxAlerts - 1 + 1
        BY <4>1, FS_Interval
      <4>3. Cardinality(1 .. MaxAlerts) = MaxAlerts
        BY <4>1, <4>2
      <4> QED
        BY ZenonT(30), <4>2, <4>3 DEF Alerts
    <3>3. Dropped(n) \subseteq Alerts
      BY DEF Dropped
    <3>4. Cardinality(Dropped(n)) <= MaxAlerts
      BY <3>2, <3>3, FS_Subset
    <3> QED
      BY <3>1, <3>4
  <2>2. suppressed \in [Notifiers -> 0 .. MaxAlerts]
    BY <1>1, <2>1 DEF IInv, Typed
  <2>3. Ages = 0 .. Window + 1
    BY DEF Ages
  <2> QED
    BY <1>1, <2>2, <2>3 DEF TypeOK, IInv, Typed, RInv, Timed
<1> QED
  BY <1>1, RatesInductive, PTL
=============================================================================
