---------------------------- MODULE SentinelTick ----------------------------
(***************************************************************************)
(* The tick of handle_run (src/src/main.rs): one task does everything, one *)
(* thing after the other.  It drains the FimEvents, then scans the         *)
(* processes, then polls the authentication log, alerts and records what   *)
(* these found, and sleeps.  Each part waits for the parts before it, and  *)
(* the rest of the machine goes on meanwhile.                              *)
(*                                                                         *)
(* FimDaemon has what the handling of a FimEvent does; here it is a count  *)
(* of the events waiting.                                                  *)
(***************************************************************************)
EXTENDS LoginMonitor, RceDetector, Functions

CONSTANTS
    RceEnabled,          \* rce_detector.enabled
    AuthEnabled,         \* auth_monitor.enabled
    IgnoreCron,          \* auth_monitor.ignore_cron_sessions
    MonitorSuccess,      \* auth_monitor.monitor_successful_logins
    MonitorFailures,     \* auth_monitor.monitor_failed_attempts
    FimCap,              \* capacity of the FimEvent channel
    Budgets              \* BOUND: the mixes of steps of the logger, of processes,
                         \* of FimEvents and of stops that a run explores

ASSUME TickAssumption ==
    /\ {RceEnabled, AuthEnabled, IgnoreCron, MonitorSuccess, MonitorFailures}
            \subseteq BOOLEAN
    /\ FimCap \in Nat \ {0}
    /\ Budgets \subseteq [{"log", "procs", "fim", "stop"} -> Nat]

VARIABLES
    phase,    \* where the main loop is in its tick, "stopped" without a daemon
    fim,      \* FimEvents in the channel
    budget,   \* what is left of the budget chosen for this behaviour
    logins,   \* the AUTH_LOGIN_* rows of audit_logs, in order
    spawns    \* the RCE_ANOMALY rows recorded since the start, in order

tickVars == <<phase, fim, budget, logins, spawns>>
vars == <<loginVars, rceVars, tickVars>>

-----------------------------------------------------------------------------
(* The machine around the daemon, where a service is running.              *)

Init ==
    /\ LogInit
    /\ pos = 0 /\ poll = NoPoll
    /\ since = 0 /\ posOf = NoFile /\ outgrown = FALSE
    /\ \E i \in Images :
         procs = [p \in Pids \cap {1} |->
                    [life |-> 1, parent |-> InitPid, image |-> i, masked |-> FALSE]]
    /\ lives = Cardinality(DOMAIN procs)
    /\ alerted = {} /\ scan = NoScan
    /\ noticed = Pids
    /\ phase = "stopped"
    /\ fim = 0 /\ budget \in Budgets
    /\ logins = <<>> /\ spawns = <<>>

Spend(kind) ==
    /\ budget[kind] > 0
    /\ budget' = [budget EXCEPT ![kind] = @ - 1]

Logger ==
    /\ Spend("log")
    /\ LoggerNext
    /\ UNCHANGED <<monitorVars, rceVars, phase, fim, logins, spawns>>

Kernel ==
    /\ Spend("procs")
    /\ KernelNext
    /\ UNCHANGED <<loginVars, detectorVars, phase, fim, logins, spawns>>

(* The watcher thread sends; it waits for room. *)
FimEventArrives ==
    /\ Spend("fim")
    /\ phase # "stopped"
    /\ fim < FimCap
    /\ fim' = fim + 1
    /\ UNCHANGED <<loginVars, rceVars, phase, logins, spawns>>

-----------------------------------------------------------------------------
(* The daemon *)

Start ==
    /\ phase = "stopped"
    /\ phase' = "sleep"
    /\ NewMonitor
    /\ NewDetector
    /\ UNCHANGED <<logVars, tableVars, fim, budget, logins, spawns>>

(* A crash, or a signal when the loop sleeps: the rows stay, the rest goes. *)
Stop ==
    /\ Spend("stop")
    /\ phase # "stopped"
    /\ phase' = "stopped"
    /\ fim' = 0
    /\ spawns' = <<>>
    /\ NewDetector
    /\ pos' = 0 /\ poll' = NoPoll
    /\ since' = 0 /\ posOf' = NoFile /\ outgrown' = FALSE
    /\ UNCHANGED <<logVars, tableVars, logins>>

Tick(from, to) ==
    /\ phase = from
    /\ phase' = to
    /\ UNCHANGED <<logVars, tableVars, budget>>

WakeUp ==
    /\ Tick("sleep", "drain")
    /\ UNCHANGED <<monitorVars, detectorVars, fim, logins, spawns>>

HandleFimEvent ==
    /\ Tick("drain", "drain")
    /\ fim > 0
    /\ fim' = fim - 1
    /\ UNCHANGED <<monitorVars, detectorVars, logins, spawns>>

(* try_recv finds the channel empty: the drain loop is left only then.     *)
DrainEnds ==
    /\ Tick("drain", IF RceEnabled THEN "rce" ELSE "auth")
    /\ fim = 0
    /\ UNCHANGED <<monitorVars, detectorVars, fim, logins, spawns>>

ScanStep ==
    /\ Tick("rce", "rce")
    /\ \E p \in Pids : ListPids(p) \/ Visit(p)
    /\ UNCHANGED <<monitorVars, fim, logins, spawns>>

ScanEnds ==
    /\ Tick("rce", "spawns")
    /\ Retain
    /\ UNCHANGED <<monitorVars, fim, logins, spawns>>

(* For each alert of the scan: dispatch, then record. *)
ReportSpawn ==
    /\ Tick("spawns", "spawns")
    /\ scan.alerts # <<>>
    /\ spawns' = Append(spawns, Head(scan.alerts))
    /\ scan' = [scan EXCEPT !.alerts = Tail(@)]
    /\ UNCHANGED <<monitorVars, alerted, noticed, fim, logins>>

SpawnsReported ==
    /\ Tick("spawns", "auth")
    /\ scan.alerts = <<>>
    /\ UNCHANGED <<monitorVars, detectorVars, fim, logins, spawns>>

(* The monitor is off, or the log is not there. *)
NoLog ==
    /\ Tick("auth", "sleep")
    /\ ~AuthEnabled \/ (~Polling /\ path = NoFile)
    /\ UNCHANGED <<monitorVars, detectorVars, fim, logins, spawns>>

PollStep ==
    /\ Tick("auth", "auth")
    /\ AuthEnabled
    /\ PollOpen \/ PollFill \/ PollLine
    /\ UNCHANGED <<detectorVars, fim, logins, spawns>>

(* `if let Ok`: an error is not heard of. *)
PollGivenUp ==
    /\ Tick("auth", "sleep")
    /\ PollFails
    /\ UNCHANGED <<detectorVars, fim, logins, spawns>>

PollReturns ==
    /\ Tick("auth", "logins")
    /\ PollEnds
    /\ UNCHANGED <<detectorVars, fim, logins, spawns>>

Wanted(e) ==
    /\ ~(IgnoreCron /\ e.cron)
    /\ IF e.success THEN MonitorSuccess ELSE MonitorFailures

(* For each event of the poll: dispatch and record, unless config says no. *)
ReportLogin ==
    /\ Tick("logins", "logins")
    /\ poll.events # <<>>
    /\ logins' = IF Wanted(Head(poll.events))
                 THEN Append(logins, Head(poll.events))
                 ELSE logins
    /\ poll' = [poll EXCEPT !.events = Tail(@)]
    /\ UNCHANGED <<pos, since, posOf, outgrown, detectorVars, fim, spawns>>

LoginsReported ==
    /\ Tick("logins", "sleep")
    /\ poll.events = <<>>
    /\ UNCHANGED <<monitorVars, detectorVars, fim, logins, spawns>>

Drain == HandleFimEvent \/ DrainEnds
RceScan == ScanStep \/ ScanEnds \/ ReportSpawn \/ SpawnsReported
AuthPoll ==
    NoLog \/ PollStep \/ PollGivenUp \/ PollReturns \/ ReportLogin \/ LoginsReported

MainLoop == WakeUp \/ Drain \/ RceScan \/ AuthPoll

Next == Logger \/ Kernel \/ FimEventArrives \/ Start \/ Stop \/ MainLoop

Spec == Init /\ [][Next]_vars

(* Nothing the loop calls here blocks; that dispatch returns is shown by   *)
(* AlertPipeline.                                                          *)
Fairness == WF_vars(MainLoop)
FairSpec == Spec /\ Fairness

-----------------------------------------------------------------------------
(* Properties *)

TypeOK ==
    /\ LoginTypeOK
    /\ RceTypeOK
    /\ phase \in {"stopped", "sleep", "drain", "rce", "spawns", "auth", "logins"}
    /\ fim \in 0 .. FimCap
    /\ budget \in [{"log", "procs", "fim", "stop"} -> Nat]
    /\ \A k \in DOMAIN logins : logins[k].line \in Lines
    /\ spawns \in Seq(Lives)

(* What line i says to a poll that reads it whole, and whether the daemon  *)
(* owes a row for it: written in one go since the monitor was made.        *)
Whole(i) == Visible(lines[i], {1, 2})
Owed(i) ==
    /\ i > since /\ i \in whole
    /\ Matched(Whole(i)) /\ Wanted(Saying(i, Whole(i)))
Recorded(i) == \E k \in DOMAIN logins : logins[k].line = i

(* Between two polls, every login line the position has passed is on       *)
(* record: neither an unreadable line, nor an append in the middle of a    *)
(* poll, nor a rotation lets the position run ahead of what was reported.  *)
(* A new file that outgrew the old position before the next poll is taken  *)
(* for the old one; what it holds below the position is not owed.          *)
LoginsOnRecord ==
    phase = "sleep" /\ ~outgrown =>
        \A k \in 1 .. pos :
            LET i == files[posOf][k].line IN Owed(i) => Recorded(i)

(* No login is recorded twice and none out of order, over restarts,        *)
(* rotations, failed polls and lines read in two halves.                   *)
LoginsInOrder ==
    \A j, k \in DOMAIN logins : j < k => logins[j].line < logins[k].line

(* No process is alerted twice while the daemon runs, however long it      *)
(* stays and whatever becomes of other pids.                               *)
SpawnsOnce == IsInjective(spawns \o scan.alerts)

(* A login line at log_path is recorded in the end, unless the file is     *)
(* rotated away, holds an unreadable line, or the daemon stops.            *)
Awaited(i) ==
    /\ i \in DOMAIN lines
    /\ phase # "stopped" /\ AuthEnabled
    /\ path # NoFile /\ ~outgrown
    /\ \E k \in DOMAIN files[path] : files[path][k].line = i
    /\ \A k \in DOMAIN files[path] : ~Undecodable(Whole(files[path][k].line))
    /\ Owed(i) /\ ~Recorded(i)
LoginsNoticed == \A i \in Lines : Awaited(i) ~> ~Awaited(i)

(* A forbidden child of a protected service that stays is on record in the *)
(* end: no pid is taken for one alerted before once a scan has found it    *)
(* free.                                                                   *)
Escaping(l) ==
    /\ phase # "stopped" /\ RceEnabled
    /\ \E p \in Live : procs[p].life = l /\ ~procs[p].masked /\ Suspicious(p)
    /\ l \notin {spawns[k] : k \in DOMAIN spawns}
SpawnsCaught == \A l \in Lives : Escaping(l) ~> ~Escaping(l)
=============================================================================
