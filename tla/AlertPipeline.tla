--------------------------- MODULE AlertPipeline ---------------------------
(***************************************************************************)
(* From AlertDispatcher::dispatch to the wire (src/src/notifier/).         *)
(*                                                                         *)
(* dispatch drops an alert that repeats a recent one and hands any other to *)
(* the notifiers, one after the other, waiting for each: send_alert puts it *)
(* in a bounded queue that a task of the notifier drains.  The task of     *)
(* WhatsApp, Discord and MS Teams asks a CircuitBreaker first (Telegram's  *)
(* does not), then posts, retries and sleeps.  The main loop of the daemon *)
(* is the caller, so what is slow here holds it up.                        *)
(*                                                                         *)
(* An alert is its number in the order of dispatch and, for the dispatcher,*)
(* its key (title and details).                                            *)
(*                                                                         *)
(* Time is discrete and relative: an entry of the breaker's window is its  *)
(* age, capped one above Window; a sleep counts down.                      *)
(***************************************************************************)
EXTENDS Naturals, Sequences, FiniteSets

CONSTANTS
    N,            \* number of notifiers registered, asked in the order 1 .. N
    Breakers,     \* those whose task consults a CircuitBreaker
    Keys,         \* what the title and details of an alert can be
    EchoWindow,   \* a key is not dispatched again within it (2.5 s), in ticks
    QueueCap,     \* capacity of a notifier's queue (256)
    MaxPerWindow, \* max_per_minute of the breaker (10, 20 or 30)
    Window,       \* window_duration (60 s), in ticks
    Pause,        \* sleep after a suppressed alert (2 s)
    MinInterval,  \* sleep after a posted alert (0.5 to 1.2 s)
    Backoffs,     \* sleeps after a failed attempt (2 to 15 s, or retry_after)
    MaxAttempts,  \* attempts per message (3)
    Graces,       \* sleeps between the last alert of a process and its exit:
                  \* 0 for a refused --init, 1.5 s for the rest
    Prompt,       \* BOOLEAN: a task that can go on does so within the tick
    MaxAlerts     \* BOUND: alerts dispatched in a run

Notifiers == 1 .. N

ASSUME NotifiersAssumption ==
    /\ N \in Nat \ {0}
    /\ Breakers \subseteq Notifiers

ASSUME TimesAssumption ==
    /\ {Window, Pause, MinInterval, EchoWindow} \subseteq Nat
    /\ Backoffs \subseteq Nat /\ Backoffs # {}
    /\ Graces \subseteq Nat
    /\ Prompt \in BOOLEAN

ASSUME LimitsAssumption ==
    /\ {QueueCap, MaxPerWindow, MaxAttempts} \subseteq Nat \ {0}
    /\ MaxAlerts \in Nat

Alerts == 1 .. MaxAlerts
Sleeps == {0} \cup UNION {0 .. t : t \in {Pause, MinInterval} \cup Backoffs}

VARIABLES
    exit,       \* "no", "last" once the last alert is dispatched, "gone"
    grace,      \* ticks left of the sleep before the exit
    quiet,      \* key -> ticks until it may be dispatched again
    issued,     \* alerts dispatched so far, numbered in order
    sending,    \* the notifier whose send_alert is awaited, 0 when none is
    queue,      \* notifier -> its mpsc channel
    worker,     \* notifier -> what its task is doing
    stamps,     \* breaker -> ages of the recorded sends, oldest first
    active,     \* breaker -> it is open
    suppressed, \* breaker -> alerts dropped since it opened
    delivered,  \* HISTORY: notifier -> alerts that arrived, in order
    fate,       \* HISTORY: notifier -> alert -> how the notifier disposed of it
    posted,     \* HISTORY: notifier -> ages of the alerts it began to post
    reported    \* HISTORY: breaker -> sum of the counts in its recovery messages

breakerVars == <<stamps, active, suppressed>>
historyVars == <<delivered, fate, posted, reported>>
exitVars == <<exit, grace>>
vars == <<exitVars, quiet, issued, sending, queue, worker, breakerVars, historyVars>>

(* worker.pc: "recv" waits for an alert, "post" is sending worker.msg; both *)
(* only act once sleep is over.                                            *)
Msgs == {"alert", "notice", "recovery"}
Worker == [pc : {"recv", "post"}, alert : Alerts \cup {0}, msg : Msgs,
           attempts : 0 .. MaxAttempts, sleep : Sleeps]
Receiving(t) ==
    [pc |-> "recv", alert |-> 0, msg |-> "alert", attempts |-> 0, sleep |-> t]
Posting(a, m) ==
    [pc |-> "post", alert |-> a, msg |-> m, attempts |-> 0, sleep |-> 0]

Fates == {"none", "suppressed", "delivered", "failed"}

Init ==
    /\ exit = "no" /\ grace = 0
    /\ quiet = [k \in Keys |-> 0]
    /\ issued = 0
    /\ sending = 0
    /\ queue = [n \in Notifiers |-> <<>>]
    /\ worker = [n \in Notifiers |-> Receiving(0)]
    /\ stamps = [n \in Notifiers |-> <<>>]
    /\ active = [n \in Notifiers |-> FALSE]
    /\ suppressed = [n \in Notifiers |-> 0]
    /\ delivered = [n \in Notifiers |-> <<>>]
    /\ fate = [n \in Notifiers |-> [a \in Alerts |-> "none"]]
    /\ posted = [n \in Notifiers |-> <<>>]
    /\ reported = [n \in Notifiers |-> 0]

-----------------------------------------------------------------------------
(* AlertDispatcher::dispatch *)

After(n) == IF n = N THEN 0 ELSE n + 1

(* An alert that repeats one of the last 2.5 s is dropped where it stands; *)
(* any other renews its key's window before anything is sent.              *)
HandOver(k) ==
    /\ exit = "no"
    /\ sending = 0
    /\ issued < MaxAlerts
    /\ quiet[k] = 0
    /\ quiet' = [quiet EXCEPT ![k] = EchoWindow]
    /\ issued' = issued + 1
    /\ sending' = After(0)
    /\ UNCHANGED <<queue, worker, breakerVars, historyVars>>

Dispatch(k) == HandOver(k) /\ UNCHANGED exitVars

(* The alert of a signal, of a command that is done or of a refused --init *)
(* is the last one; the process then sleeps a little and exits.            *)
DispatchLast(k) ==
    /\ HandOver(k)
    /\ exit' = "last"
    /\ grace' \in Graces

Exit ==
    /\ exit = "last" /\ sending = 0 /\ grace = 0
    /\ exit' = "gone"
    /\ UNCHANGED <<grace, quiet, issued, sending, queue, worker, breakerVars, historyVars>>

(* Every task ends with the process. *)
Alive == exit # "gone" /\ UNCHANGED exitVars

(* Mutants: room is not waited for; the alert is dropped for want of room. *)
EnqueueRegardless ==
    /\ Alive
    /\ sending # 0
    /\ queue' = [queue EXCEPT ![sending] = Append(@, issued)]
    /\ sending' = After(sending)
    /\ UNCHANGED <<quiet, issued, worker, breakerVars, historyVars>>
TryEnqueue ==
    /\ Alive
    /\ sending # 0
    /\ queue' = IF Len(queue[sending]) < QueueCap
                THEN [queue EXCEPT ![sending] = Append(@, issued)]
                ELSE queue
    /\ sending' = After(sending)
    /\ UNCHANGED <<quiet, issued, worker, breakerVars, historyVars>>

(* send_alert of the notifier: tx.send waits for room.                     *)
Enqueue ==
    /\ Alive
    /\ sending # 0
    /\ Len(queue[sending]) < QueueCap
    /\ queue' = [queue EXCEPT ![sending] = Append(@, issued)]
    /\ sending' = After(sending)
    /\ UNCHANGED <<quiet, issued, worker, breakerVars, historyVars>>

-----------------------------------------------------------------------------
(* The notifier's task *)

(* CircuitBreaker::check starts by popping the front while it is older     *)
(* than the window.                                                        *)
Popped(ages) ==
    CHOOSE k \in 0 .. Len(ages) :
        /\ \A i \in 1 .. k : ages[i] > Window
        /\ k < Len(ages) => ages[k + 1] <= Window
Unexpired(n) == SubSeq(stamps[n], Popped(stamps[n]) + 1, Len(stamps[n]))

(* breaker.record_sent() and on to the first attempt: the send is counted  *)
(* before it is made.                                                      *)
Record(n, kept) ==
    /\ stamps' = [stamps EXCEPT ![n] = IF n \in Breakers THEN Append(kept, 0) ELSE kept]
    /\ posted' = [posted EXCEPT ![n] = IF n \in Breakers THEN Append(@, 0) ELSE @]

Take(n) ==
    /\ Alive
    /\ worker[n].pc = "recv" /\ worker[n].sleep = 0
    /\ queue[n] # <<>>
    /\ queue' = [queue EXCEPT ![n] = Tail(@)]
    /\ UNCHANGED <<quiet, issued, sending, delivered>>

(* Mutants: the threshold is one too high; suppressed survives recovery.   *)
PassOneMore(n) ==
    /\ Take(n)
    /\ n \in Breakers => Len(Unexpired(n)) <= MaxPerWindow /\ ~active[n]
    /\ Record(n, Unexpired(n))
    /\ worker' = [worker EXCEPT ![n] = Posting(Head(queue[n]), "alert")]
    /\ UNCHANGED <<active, suppressed, fate, reported>>
RecoverKeepsCount(n) ==
    /\ n \in Breakers
    /\ Take(n)
    /\ Len(Unexpired(n)) < MaxPerWindow
    /\ active[n]
    /\ active' = [active EXCEPT ![n] = FALSE]
    /\ reported' = [reported EXCEPT ![n] = @ + suppressed[n]]
    /\ stamps' = [stamps EXCEPT ![n] = Unexpired(n)]
    /\ worker' = [worker EXCEPT ![n] = Posting(Head(queue[n]), "recovery")]
    /\ UNCHANGED <<suppressed, fate, posted>>

(* BreakerDecision::Pass, and every alert of a task without a breaker.     *)
Pass(n) ==
    /\ Take(n)
    /\ n \in Breakers => Len(Unexpired(n)) < MaxPerWindow /\ ~active[n]
    /\ Record(n, Unexpired(n))
    /\ worker' = [worker EXCEPT ![n] = Posting(Head(queue[n]), "alert")]
    /\ UNCHANGED <<active, suppressed, fate, reported>>

(* BreakerDecision::Suppress: the alert is gone; the first one of a burst  *)
(* is answered with the throttling notice.                                 *)
Suppress(n) ==
    /\ n \in Breakers
    /\ Take(n)
    /\ Len(Unexpired(n)) >= MaxPerWindow
    /\ stamps' = [stamps EXCEPT ![n] = Unexpired(n)]
    /\ suppressed' = [suppressed EXCEPT ![n] = @ + 1]
    /\ active' = [active EXCEPT ![n] = TRUE]
    /\ fate' = [fate EXCEPT ![n][Head(queue[n])] = "suppressed"]
    /\ worker' = [worker EXCEPT ![n] =
                    IF active[n] THEN Receiving(Pause) ELSE Posting(0, "notice")]
    /\ UNCHANGED <<posted, reported>>

(* BreakerDecision::JustRecovered: the recovery message carries the count. *)
Recover(n) ==
    /\ n \in Breakers
    /\ Take(n)
    /\ Len(Unexpired(n)) < MaxPerWindow
    /\ active[n]
    /\ active' = [active EXCEPT ![n] = FALSE]
    /\ suppressed' = [suppressed EXCEPT ![n] = 0]
    /\ reported' = [reported EXCEPT ![n] = @ + suppressed[n]]
    /\ stamps' = [stamps EXCEPT ![n] = Unexpired(n)]
    /\ worker' = [worker EXCEPT ![n] = Posting(Head(queue[n]), "recovery")]
    /\ UNCHANGED <<fate, posted>>

(* The message in hand is done with, sent or not. *)
Finished(n) ==
    LET w == worker[n] IN
    CASE w.msg = "notice" ->
           /\ worker' = [worker EXCEPT ![n] = Receiving(Pause)]
           /\ UNCHANGED <<stamps, posted>>
      [] w.msg = "recovery" ->
           /\ worker' = [worker EXCEPT ![n] = Posting(w.alert, "alert")]
           /\ Record(n, stamps[n])
      [] OTHER ->
           /\ worker' = [worker EXCEPT ![n] = Receiving(MinInterval)]
           /\ UNCHANGED <<stamps, posted>>

Attempting(n) ==
    /\ Alive
    /\ worker[n].pc = "post" /\ worker[n].sleep = 0
    /\ worker[n].attempts < MaxAttempts
    /\ UNCHANGED <<quiet, issued, sending, queue, active, suppressed, reported>>

(* Notices and recovery messages have no fate: they are no alerts. *)
Arrives(n) ==
    IF worker[n].msg = "alert"
    THEN /\ delivered' = [delivered EXCEPT ![n] = Append(@, worker[n].alert)]
         /\ fate' = [fate EXCEPT ![n][worker[n].alert] = "delivered"]
    ELSE UNCHANGED <<delivered, fate>>
Abandoned(n) ==
    /\ fate' = IF worker[n].msg = "alert" /\ fate[n][worker[n].alert] = "none"
               THEN [fate EXCEPT ![n][worker[n].alert] = "failed"]
               ELSE fate
    /\ UNCHANGED delivered

PostSucceeds(n) ==
    /\ Attempting(n)
    /\ Arrives(n)
    /\ Finished(n)

(* A status other than success and 429 ends the loop at once. *)
PostRefused(n) ==
    /\ Attempting(n)
    /\ Abandoned(n)
    /\ Finished(n)

(* Mutant: a failed alert goes back into the queue, behind later ones.     *)
PostFailsRequeue(n, arrives) ==
    /\ Alive
    /\ worker[n].pc = "post" /\ worker[n].sleep = 0 /\ worker[n].msg = "alert"
    /\ queue' = [queue EXCEPT ![n] = Append(@, worker[n].alert)]
    /\ \E t \in Backoffs : worker' = [worker EXCEPT ![n] = Receiving(t)]
    /\ IF arrives THEN Arrives(n) ELSE UNCHANGED <<delivered, fate>>
    /\ UNCHANGED <<quiet, issued, sending, breakerVars, posted, reported>>

(* Status 429 or a network error; the latter also when the request arrived *)
(* and only its answer was lost.                                           *)
PostFails(n, arrives) ==
    /\ Attempting(n)
    /\ IF arrives THEN Arrives(n) ELSE UNCHANGED <<delivered, fate>>
    /\ \E t \in Backoffs :
         worker' = [worker EXCEPT ![n].attempts = @ + 1, ![n].sleep = t]
    /\ UNCHANGED <<stamps, posted>>

(* Mutant: the attempts start over. *)
GiveUpNever(n) ==
    /\ Alive
    /\ worker[n].pc = "post" /\ worker[n].sleep = 0
    /\ worker[n].attempts = MaxAttempts
    /\ worker' = [worker EXCEPT ![n].attempts = 0]
    /\ UNCHANGED <<quiet, issued, sending, queue, breakerVars, historyVars>>

GiveUp(n) ==
    /\ Alive
    /\ worker[n].pc = "post" /\ worker[n].sleep = 0
    /\ worker[n].attempts = MaxAttempts
    /\ Abandoned(n)
    /\ Finished(n)
    /\ UNCHANGED <<quiet, issued, sending, queue, active, suppressed, reported>>

Task(n) ==
    \/ Pass(n) \/ Suppress(n) \/ Recover(n)
    \/ PostSucceeds(n) \/ PostRefused(n) \/ GiveUp(n)
    \/ \E arrives \in BOOLEAN : PostFails(n, arrives)

-----------------------------------------------------------------------------
(* One tick of time for every sleep and every recorded send.               *)
Aged(ages) == [i \in DOMAIN ages |-> IF ages[i] > Window THEN ages[i] ELSE ages[i] + 1]

(* A task that could go on at once. *)
Ready(n) == worker[n].sleep = 0 /\ (worker[n].pc = "post" \/ queue[n] # <<>>)

Tick ==
    /\ exit # "gone"
    /\ Prompt => \A n \in Notifiers : ~Ready(n)
    /\ grace' = IF exit = "last" /\ sending = 0 /\ grace > 0 THEN grace - 1 ELSE grace
    /\ quiet' = [k \in Keys |-> IF quiet[k] = 0 THEN 0 ELSE quiet[k] - 1]
    /\ stamps' = [n \in Notifiers |-> Aged(stamps[n])]
    /\ posted' = [n \in Notifiers |-> Aged(posted[n])]
    /\ worker' = [n \in Notifiers |->
                    [worker[n] EXCEPT !.sleep = IF @ = 0 THEN 0 ELSE @ - 1]]
    /\ UNCHANGED <<exit, issued, sending, queue, active, suppressed, delivered, fate, reported>>

Next ==
    \/ \E k \in Keys : Dispatch(k) \/ DispatchLast(k)
    \/ Enqueue \/ Tick \/ Exit
    \/ \E n \in Notifiers : Task(n)

Spec == Init /\ [][Next]_vars

(* The runtime polls every task that can go on, sleeps and HTTP calls end  *)
(* (the clients have a timeout).  Nobody owes an alert.                    *)
Fairness ==
    /\ WF_vars(Tick) /\ WF_vars(Enqueue)
    /\ \A n \in Notifiers : WF_vars(Task(n))

FairSpec == Spec /\ Fairness

-----------------------------------------------------------------------------
(* Properties *)

TypeOK ==
    /\ exit \in {"no", "last", "gone"}
    /\ grace \in {0} \cup UNION {0 .. g : g \in Graces}
    /\ quiet \in [Keys -> 0 .. EchoWindow]
    /\ issued \in 0 .. MaxAlerts
    /\ sending \in 0 .. N
    /\ queue \in [Notifiers -> Seq(Alerts)]
    /\ \A n \in Notifiers : Len(queue[n]) <= QueueCap
    /\ worker \in [Notifiers -> Worker]
    /\ stamps \in [Notifiers -> Seq(0 .. Window + 1)]
    /\ active \in [Notifiers -> BOOLEAN]
    /\ suppressed \in [Notifiers -> 0 .. MaxAlerts]
    /\ delivered \in [Notifiers -> Seq(Alerts)]
    /\ fate \in [Notifiers -> [Alerts -> Fates]]
    /\ posted \in [Notifiers -> Seq(0 .. Window + 1)]
    /\ reported \in [Notifiers -> Nat]

(* In no stretch of Window ticks does a task with a breaker begin to post  *)
(* more than MaxPerWindow alerts: the limit the throttling notices name.   *)
InWindow(n) == {i \in DOMAIN posted[n] : posted[n][i] <= Window}
RateBound ==
    \A n \in Breakers : Cardinality(InWindow(n)) <= MaxPerWindow

(* A breaker is open exactly while it has suppressed alerts it has not     *)
(* told of, and its counts add up: those told of in recovery messages and  *)
(* those still counted are all the alerts that were suppressed.            *)
SuppressionAccounted ==
    \A n \in Breakers :
        /\ active[n] <=> suppressed[n] > 0
        /\ LET dropped == {a \in Alerts : fate[n][a] = "suppressed"}
           IN  reported[n] + suppressed[n] = Cardinality(dropped)

(* Every alert a notifier was given is in exactly one place, its queue, its *)
(* task's hands or a final fate, and the queue holds the latest in order:  *)
(* neither retries nor suppression lose or reorder one.                    *)
Given(n) == IF sending = 0 \/ n < sending THEN issued ELSE issued - 1
InHand(n) == IF worker[n].pc = "post" /\ worker[n].alert # 0 THEN 1 ELSE 0

NothingLost ==
    \A n \in Notifiers :
        LET taken == Given(n) - Len(queue[n]) IN
        /\ queue[n] = [i \in 1 .. Len(queue[n]) |-> taken + i]
        /\ \A a \in Alerts :
             IF a <= taken - InHand(n) THEN fate[n][a] # "none"
             ELSE a = taken \/ fate[n][a] = "none"
        /\ InHand(n) = 1 => worker[n].alert = taken

(* Alerts arrive in the order they were dispatched; one whose answer was   *)
(* lost may arrive again, but never after a later one.                     *)
DeliveredInOrder ==
    \A n \in Notifiers : \A i, j \in DOMAIN delivered[n] :
        i < j => delivered[n][i] <= delivered[n][j]

(* Whatever the services answer, dispatch returns: the main loop, which    *)
(* awaits it within an event handler, goes on.                             *)
DispatchReturns == sending # 0 ~> sending = 0

(* The comments at main.rs:281 and main.rs:696 say that the sleep before   *)
(* the exit lets the tasks "flush and deliver" the alerts: when the process *)
(* is gone, every alert a notifier was given has met its fate.             *)
FlushedAtExit ==
    exit = "gone" =>
        \A n \in Notifiers, a \in Alerts : a <= issued => fate[n][a] # "none"
=============================================================================
