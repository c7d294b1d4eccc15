----------------------------- MODULE RceDetector -----------------------------
(***************************************************************************)
(* RceDetector::scan_anomalies (src/src/rce_detect/process_tree.rs) and the *)
(* process table it walks through /proc.                                   *)
(*                                                                         *)
(* A scan is not a snapshot: /proc lists the pids in batches while         *)
(* processes fork, exec and exit, and each pid is looked at some time      *)
(* after it was listed.  What the detector keeps between scans are pids,   *)
(* and a pid is not a process: after an exit the kernel may give it away   *)
(* again.  HISTORY variables tell processes apart by their life, a number. *)
(*                                                                         *)
(* Data abstractions: names, paths and command lines are opaque values;    *)
(* Base gives the last component of a path, Begins and Contains are        *)
(* starts_with and contains.  The reads made for one pid are one atomic    *)
(* read, and /proc itself is assumed to be readable.                       *)
(***************************************************************************)
EXTENDS Naturals, Sequences, FiniteSets

CONSTANTS
    Images,             \* programs: [exe, comm, cmd], "" for what /proc withholds
    ProtectedServices,  \* config.rce_detector.protected_services
    ForbiddenChildren,  \* config.rce_detector.forbidden_children: [path, wild]
    AllowedPatterns,    \* config.rce_detector.allowed_cmd_patterns
    Base(_), Begins(_, _), Contains(_, _),
    MaxPid,             \* BOUND: pids there are
    MaxLives            \* BOUND: processes that ever live

ASSUME ImagesAssumption ==
    /\ Images # {}
    /\ \A i \in Images : DOMAIN i = {"exe", "comm", "cmd"}
    /\ \A f \in ForbiddenChildren : DOMAIN f = {"path", "wild"} /\ f.wild \in BOOLEAN

ASSUME PidsAssumption == MaxPid \in Nat /\ MaxLives \in Nat \ {0}

Pids == 1 .. MaxPid
Lives == 1 .. MaxLives

(* The first process, init, stands outside the table and adopts orphans.   *)
InitPid == 0

VARIABLES
    procs,   \* the live pids -> [life, parent, image, masked]
    lives,   \* lives begun so far
    alerted, \* alerted_pids
    scan,    \* the scan in progress
    noticed  \* HISTORY: pids a scan has found free since it last alerted them

tableVars == <<procs, lives>>
detectorVars == <<alerted, scan, noticed>>
rceVars == <<tableVars, detectorVars>>

(* A scan: the next pid to list, those listed and not yet looked at, those *)
(* looked at, and the lives to alert.                                      *)
NoScan == [at |-> 1, todo |-> {}, active |-> {}, alerts |-> <<>>]

Live == DOMAIN procs
Process == [life : Lives, parent : Pids \cup {InitPid}, image : Images,
            masked : BOOLEAN]

-----------------------------------------------------------------------------
(* is_protected_service, is_forbidden_child and is_allowed_child *)

IsProtectedService(i) ==
    \E s \in ProtectedServices :
        \/ i.comm \in {Base(s), s}
        \/ i.exe # "" /\ (Base(i.exe) = Base(s) \/ i.exe = s)

(* cmdline, or the executable, or the name: the first there is.            *)
RawCmd(i) == IF i.cmd # "" THEN i.cmd ELSE IF i.exe # "" THEN i.exe ELSE i.comm

IsForbiddenChild(i) ==
    \E f \in ForbiddenChildren :
        IF f.wild
        THEN \/ Begins(i.exe, f.path) \/ Begins(RawCmd(i), f.path)
             \/ Begins(Base(i.exe), Base(f.path)) \/ Begins(i.comm, Base(f.path))
        ELSE \/ i.exe = f.path
             \/ Base(f.path) \in {Base(i.exe), i.comm}
             \/ Begins(RawCmd(i), f.path) \/ Begins(RawCmd(i), Base(f.path))

IsAllowedChild(i) == \E p \in AllowedPatterns : p # "" /\ Contains(RawCmd(i), p)

(* What scan_anomalies makes an alert of, were it not for alerted_pids.    *)
Suspicious(p) ==
    /\ p \in Live
    /\ procs[p].parent \in Live
    /\ IsProtectedService(procs[procs[p].parent].image)
    /\ IsForbiddenChild(procs[p].image)
    /\ ~IsAllowedChild(procs[p].image)

-----------------------------------------------------------------------------
(* The kernel *)

With(p, process) ==
    [q \in Live \cup {p} |-> IF q = p THEN process ELSE procs[q]]

(* The child runs its parent's program until it calls exec.  It is masked  *)
(* when it gets the pid of an alerted process too soon for the detector to *)
(* have seen the pid free.                                                 *)
Fork(parent, p) ==
    /\ parent \in Live
    /\ p \notin Live
    /\ lives < MaxLives
    /\ lives' = lives + 1
    /\ procs' = With(p, [life |-> lives', parent |-> parent,
                         image |-> procs[parent].image,
                         masked |-> p \notin noticed])

Exec(p, image) ==
    /\ p \in Live
    /\ procs[p].image # image
    /\ procs' = [procs EXCEPT ![p].image = image]
    /\ UNCHANGED lives

(* The orphans go to init. *)
ExitProcess(p) ==
    /\ p \in Live
    /\ procs' = [q \in Live \ {p} |->
                    IF procs[q].parent = p
                    THEN [procs[q] EXCEPT !.parent = InitPid]
                    ELSE procs[q]]
    /\ UNCHANGED lives

KernelNext ==
    \/ \E parent, p \in Pids : Fork(parent, p)
    \/ \E p \in Pids, i \in Images : Exec(p, i)
    \/ \E p \in Pids : ExitProcess(p)

-----------------------------------------------------------------------------
(* scan_anomalies *)

NewDetector ==
    /\ alerted' = {}
    /\ scan' = NoScan
    /\ noticed' = Pids

Unlisted == {p \in Live : p >= scan.at}

(* readdir: a run of the live pids, in ascending order.                    *)
ListPids(last) ==
    /\ scan.todo = {}
    /\ last \in Unlisted
    /\ scan' = [scan EXCEPT !.todo = {p \in Unlisted : p <= last}, !.at = last + 1]
    /\ UNCHANGED <<alerted, noticed>>

Alert(p) ==
    /\ alerted' = alerted \cup {p}
    /\ noticed' = noticed \ {p}

LookedAt(p) == [scan EXCEPT !.todo = @ \ {p}, !.active = @ \cup {p}]

(* The body of the loop for one pid, which may be dead by now. *)
Visit(p) ==
    /\ p \in scan.todo
    /\ \A q \in scan.todo : p <= q
    /\ IF Suspicious(p) /\ p \notin alerted
       THEN /\ Alert(p)
            /\ scan' = [LookedAt(p) EXCEPT !.alerts = Append(@, procs[p].life)]
       ELSE /\ scan' = LookedAt(p)
            /\ UNCHANGED <<alerted, noticed>>

(* Mutants: nothing is removed; the pids in use are removed, not the others. *)
RetainAll ==
    /\ scan.todo = {} /\ Unlisted = {}
    /\ scan' = [NoScan EXCEPT !.alerts = scan.alerts]
    /\ noticed' = noticed \cup (Pids \ scan.active)
    /\ UNCHANGED alerted
RetainEnded ==
    /\ scan.todo = {} /\ Unlisted = {}
    /\ alerted' = alerted \ scan.active
    /\ scan' = [NoScan EXCEPT !.alerts = scan.alerts]
    /\ noticed' = noticed \cup (Pids \ scan.active)

(* The end of the scan: alerted.retain(active), and the alerts are returned. *)
Retain ==
    /\ scan.todo = {} /\ Unlisted = {}
    /\ alerted' = alerted \cap scan.active
    /\ scan' = [NoScan EXCEPT !.alerts = scan.alerts]
    /\ noticed' = noticed \cup (Pids \ scan.active)

-----------------------------------------------------------------------------
RceTypeOK ==
    /\ Live \subseteq Pids
    /\ \A p \in Live : procs[p] \in Process
    /\ lives \in 0 .. MaxLives
    /\ alerted \subseteq Pids
    /\ scan.at \in 1 .. MaxPid + 1
    /\ scan.todo \subseteq Pids /\ scan.active \subseteq Pids
    /\ scan.alerts \in Seq(Lives)
    /\ noticed \subseteq Pids
=============================================================================
