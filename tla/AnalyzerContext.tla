--------------------------- MODULE AnalyzerContext ---------------------------
(***************************************************************************)
(* What the analyzer tells the handlers of FimEvents (src/src/main.rs and  *)
(* src/src/analyzer/): who is logged in, asked once at the start of a      *)
(* tick, and whether a package manager is at work, asked for each event.   *)
(* Users and package managers come and go between any two reads.           *)
(***************************************************************************)
EXTENDS SessionCache, PackageLocks

CONSTANTS
    Budgets    \* BOUND: the mixes of changes to the sessions and the managers,
               \* of time and of FimEvents that a run explores

Kinds == {"sessions", "managers", "time", "events"}

ASSUME ContextAssumption == Budgets \subseteq [Kinds -> Nat]

VARIABLES
    phase,   \* where the main loop is in its tick
    budget   \* what is left of the mix chosen for this behaviour

vars == <<sessionVars, packageVars, phase, budget>>

Init ==
    /\ SessionInit
    /\ PackageInit
    /\ phase = "sleep"
    /\ budget \in Budgets

Spend(kind) ==
    /\ budget[kind] > 0
    /\ budget' = [budget EXCEPT ![kind] = @ - 1]

Sessions ==
    /\ Spend("sessions")
    /\ SessionsChange
    /\ UNCHANGED <<cacheVars, packageVars, phase>>

PackageManagers ==
    /\ Spend("managers")
    /\ ManagersChange
    /\ UNCHANGED <<sessionVars, checkVars, phase>>

Clock ==
    /\ Spend("time")
    /\ Elapse
    /\ UNCHANGED <<cacheVars, packageVars, phase>>

Loop(from, to) ==
    /\ phase = from
    /\ phase' = to
    /\ UNCHANGED <<now, sourceVars, shown>>

(* The tick asks for the context, and everything waits for the answer.     *)
AskContext ==
    /\ \/ Loop("sleep", "drain") /\ AskCached
       \/ Loop("sleep", "ask") /\ AskStale
    /\ UNCHANGED <<packageVars, budget>>

ReadSources ==
    /\ Loop("ask", "ask")
    /\ ReadEnviron \/ EnvironRead \/ ReadTcp \/ ReadTcp6
    /\ UNCHANGED <<packageVars, budget>>

ContextKnown ==
    /\ Loop("ask", "drain")
    /\ Refresh
    /\ UNCHANGED <<packageVars, budget>>

(* try_recv finds a FimEvent. *)
HandleEvent ==
    /\ Loop("drain", "check")
    /\ Spend("events")
    /\ BeginCheck
    /\ UNCHANGED cacheVars

CheckPackages ==
    /\ Loop("check", "check")
    /\ CheckStep
    /\ UNCHANGED <<cacheVars, budget>>

(* The answer is there; the handler uses it and is done. *)
EventHandled ==
    /\ Loop("check", "drain")
    /\ check.at = "done"
    /\ check' = NoCheck
    /\ UNCHANGED <<cacheVars, managerVars, probe, budget>>

(* The channel is empty for now. *)
TickEnds ==
    /\ Loop("drain", "sleep")
    /\ UNCHANGED <<cacheVars, packageVars, budget>>

Next ==
    \/ Sessions \/ PackageManagers \/ Clock
    \/ AskContext \/ ReadSources \/ ContextKnown
    \/ HandleEvent \/ CheckPackages \/ EventHandled \/ TickEnds

Spec == Init /\ [][Next]_vars

-----------------------------------------------------------------------------
(* Properties *)

TypeOK ==
    /\ SessionTypeOK
    /\ PackageTypeOK
    /\ phase \in {"sleep", "ask", "drain", "check"}
    /\ budget \in [Kinds -> Nat]

(* Whoever a tick names was shown by one of the sources less than a time   *)
(* to live before the tick asked: a session that ended is named that much  *)
(* longer, however often the cache is asked.                               *)
ContextRecent ==
    phase = "drain" =>
        \A n \in context : \E t \in shown[n] : t + Ttl > asked

(* A process that has named its origin for a whole time to live is named   *)
(* by the tick, and the tick says "local console" only when no SSH         *)
(* connection has been there that long either.                             *)
Long(since) == since + Ttl <= asked
ContextComplete ==
    phase = "drain" =>
        /\ \A p \in Procs :
              environ[p] # Nobody /\ Long(held[p]) => environ[p] \in context
        /\ context = {} =>
              \A c \in open : ~(IsSshSession(c) /\ Long(opened[c]))

(* When the check finds nobody at work, no lock it can see and no process  *)
(* with a name it knows was there from its first look to its last; so the  *)
(* change of a manager that keeps one of these is not alerted as foreign.  *)
QuietWhenIdle ==
    check.at = "done" /\ Enabled /\ ~check.active => throughout = {}

(* When the check finds someone at work, a package manager did run at some *)
(* time during it: what a killed one leaves behind hides no change.        *)
ActiveWhenSeen ==
    check.at = "done" /\ check.active => glimpsed # {}
=============================================================================
