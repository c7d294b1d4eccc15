------------------------------ MODULE AdminCli ------------------------------
(***************************************************************************)
(* The administrative commands (src/src/main.rs, handle_init to            *)
(* handle_report) over the SQLite database they share with each other and  *)
(* with the daemon.                                                        *)
(*                                                                         *)
(* Every command is a process of its own.  A statement of the database is  *)
(* one action, autocommitted but for those of save_fingerprints_batch,     *)
(* which make one transaction.  Between two statements any other process   *)
(* may run or this one may end: it is killed, or the call fails and `?`    *)
(* returns.  The daemon is here only as the other writer: it audits a      *)
(* change and saves the new row in two statements (FimDaemon has the rest  *)
(* of it).                                                                 *)
(***************************************************************************)
EXTENDS Naturals, FiniteSets

CONSTANTS
    Procs,      \* BOUND: command invocations, one command each
    Paths,      \* the files scanned
    Contents,   \* fingerprints a file can have
    Gone,       \* no file on the disk, no row in file_fingerprints
    Passwords,
    NoAdmin,    \* no row in admin_users
    NoPath,     \* the daemon handles no event
    Noticed,    \* whether the daemon hears of a change: {TRUE} when it runs
    MaxTime,    \* BOUND: the clock, in seconds
    MaxChanges, \* BOUND: changes of the disk
    MaxOutside  \* BOUND: seconds and changes together

ASSUME ValuesAssumption == Gone \notin Contents /\ NoAdmin \notin Passwords
ASSUME PathsAssumption == NoPath \notin Paths
ASSUME BoundsAssumption ==
    MaxTime \in Nat /\ MaxChanges \in Nat /\ MaxOutside \in Nat /\ Noticed \subseteq BOOLEAN

VARIABLES
    admin,   \* admin_users: the password of 'admin'
    rows,    \* file_fingerprints
    audit,   \* audit_logs; rows alike but for their ids are one
    disk,    \* path -> what is there
    due,     \* paths whose last change the daemon has yet to handle
    inHand,  \* the event the daemon handles: audited, row not yet saved
    proc,    \* process -> the command's progress
    clock,
    changes,
    alone    \* HISTORY: processes since whose start nobody else wrote rows or disk

daemonVars == <<due, inHand>>
vars == <<admin, rows, audit, disk, daemonVars, proc, clock, changes, alone>>

Commands == {"init", "update", "passwd", "purge", "report"}
Files == [Paths -> Contents \cup {Gone}]
Times == 0 .. MaxTime
Actions == {"INIT", "UPDATE_BASELINE", "CHANGE_PASSWORD", "PURGE_LOGS",
            "GENERATE_REPORT", "FIM_EVENT"}
Entry == [timestamp : Times, action : Actions]

AuditAction(cmd) ==
    CASE cmd = "init" -> "INIT"
      [] cmd = "update" -> "UPDATE_BASELINE"
      [] cmd = "passwd" -> "CHANGE_PASSWORD"
      [] cmd = "purge" -> "PURGE_LOGS"
      [] cmd = "report" -> "GENERATE_REPORT"

(* pc: the next call; "ended" is an interrupted or refused command.  todo: *)
(* the files to scan; staged: those whose rows the transaction has written.*)
Steps == {"check", "create", "password", "scan", "save", "change", "delete", "query", "record"}
Proc == [cmd : Commands, pc : Steps \cup {"idle", "done", "ended"},
         todo : SUBSET Paths, seen : Files, staged : SUBSET Paths,
         before : Files, wrote : BOOLEAN]

Init ==
    /\ admin = NoAdmin
    /\ rows = [f \in Paths |-> Gone]
    /\ audit = {}
    /\ disk \in Files
    /\ due = {} /\ inHand = [path |-> NoPath, content |-> Gone]
    /\ proc \in [Procs -> {[cmd |-> c, pc |-> "idle", todo |-> Paths, wrote |-> FALSE,
                            staged |-> {}, seen |-> [f \in Paths |-> Gone],
                            before |-> [f \in Paths |-> Gone]] : c \in Commands}]
    /\ clock = 0 /\ changes = 0
    /\ alone = {}

At(p, pc) == proc[p].pc = pc
Goto(p, pc) == proc' = [proc EXCEPT ![p].pc = pc]
Wrote(p, pc) == proc' = [proc EXCEPT ![p].pc = pc, ![p].wrote = TRUE]
(* Mutant: the timestamp is rounded up. *)
NewEntryRoundedUp(action) ==
    audit' = audit \cup {[timestamp |-> clock + 1, action |-> action]}
NewEntry(action) ==
    audit' = audit \cup {[timestamp |-> clock, action |-> action]}
(* SQLite has one writer at a time: from its first upsert to its commit or *)
(* rollback a transaction locks the others out, who wait.  Who waits in    *)
(* vain (5 s, rusqlite's busy timeout) gets an error: a command is         *)
(* interrupted, the daemon's lost writes are FimDaemon's.                  *)
Writes(p) == At(p, "save") /\ proc[p].staged # {}
Unlocked == \A p \in Procs : ~Writes(p)
DaemonQuiet == due = {} /\ inHand.path = NoPath

-----------------------------------------------------------------------------
(* The commands *)

Start(p) ==
    /\ At(p, "idle")
    /\ proc' = [proc EXCEPT ![p].pc = "check", ![p].before = rows]
    /\ alone' = IF DaemonQuiet THEN alone \cup {p} ELSE alone
    /\ UNCHANGED <<admin, rows, audit, disk, daemonVars, clock, changes>>

(* db.is_initialized: --init is for a database without an admin, the other *)
(* commands for one that has one; else the process exits.                  *)
CheckInitialized(p) ==
    /\ At(p, "check")
    /\ Goto(p, IF (proc[p].cmd = "init") # (admin = NoAdmin) THEN "ended"
               ELSE IF proc[p].cmd = "init" THEN "create" ELSE "password")
    /\ UNCHANGED <<admin, rows, audit, disk, daemonVars, clock, changes, alone>>

(* Mutant: an upsert, as file_fingerprints has one. *)
CreateAdminUpsert(p, password) ==
    /\ At(p, "create") /\ Unlocked
    /\ admin' = password
    /\ Wrote(p, "record")
    /\ UNCHANGED <<rows, audit, disk, daemonVars, clock, changes, alone>>

(* INSERT INTO admin_users: username is the primary key, so the process    *)
(* that comes second gets an error.                                        *)
CreateAdmin(p, password) ==
    /\ At(p, "create") /\ Unlocked
    /\ IF admin = NoAdmin
       THEN admin' = password /\ Wrote(p, "record")
       ELSE Goto(p, "ended") /\ UNCHANGED admin
    /\ UNCHANGED <<rows, audit, disk, daemonVars, clock, changes, alone>>

(* verify_admin_login, against the password of this moment. *)
Authenticate(p, password) ==
    /\ At(p, "password")
    /\ Goto(p, IF password # admin THEN "ended"
               ELSE CASE proc[p].cmd = "update" -> "scan"
                      [] proc[p].cmd = "passwd" -> "change"
                      [] proc[p].cmd = "purge" -> "delete"
                      [] proc[p].cmd = "report" -> "query")
    /\ UNCHANGED <<admin, rows, audit, disk, daemonVars, clock, changes, alone>>

(* scan_baseline fingerprints one file after the other; one that is gone   *)
(* gives none.                                                             *)
Scan(p, f) ==
    /\ At(p, "scan")
    /\ f \in proc[p].todo
    /\ proc' = [proc EXCEPT ![p].todo = @ \ {f}, ![p].seen[f] = disk[f],
                            ![p].pc = IF proc[p].todo = {f} THEN "save" ELSE @]
    /\ UNCHANGED <<admin, rows, audit, disk, daemonVars, clock, changes, alone>>

AfterSave(p) == IF proc[p].cmd = "init" THEN "done" ELSE "record"

Batch(p) == {f \in Paths : proc[p].seen[f] # Gone}

(* Mutant: no transaction, every upsert commits itself. *)
UpsertAutocommitted(p, f) ==
    /\ At(p, "save")
    /\ f \in Batch(p) \ proc[p].staged
    /\ proc' = [proc EXCEPT ![p].staged = @ \cup {f}]
    /\ rows' = [rows EXCEPT ![f] = proc[p].seen[f]]
    /\ alone' = alone \cap {p}
    /\ UNCHANGED <<admin, audit, disk, daemonVars, clock, changes>>

(* The transaction writes the batch row by row; until it commits, nobody   *)
(* else sees the new rows, and a process that ends before has written none.*)
Upsert(p, f) ==
    /\ At(p, "save")
    /\ f \in Batch(p) \ proc[p].staged
    /\ Unlocked \/ Writes(p)
    /\ proc' = [proc EXCEPT ![p].staged = @ \cup {f}]
    /\ UNCHANGED <<admin, rows, audit, disk, daemonVars, clock, changes, alone>>

(* tx.commit, after the last row.  Rows of files not found stay.           *)
Commit(p) ==
    /\ At(p, "save")
    /\ proc[p].staged = Batch(p)
    /\ rows' = [f \in Paths |->
                  IF f \in proc[p].staged THEN proc[p].seen[f] ELSE rows[f]]
    /\ Wrote(p, AfterSave(p))
    /\ alone' = alone \cap {p}
    /\ UNCHANGED <<admin, audit, disk, daemonVars, clock, changes>>

ChangePassword(p, password) ==
    /\ At(p, "change") /\ Unlocked
    /\ admin' = password
    /\ Wrote(p, "record")
    /\ UNCHANGED <<rows, audit, disk, daemonVars, clock, changes, alone>>

(* Mutant: the deletion ends the command. *)
PurgeUnrecorded(p, from, to) ==
    /\ At(p, "delete") /\ Unlocked
    /\ audit' = {e \in audit : e.timestamp \notin from .. to}
    /\ Wrote(p, "done")
    /\ UNCHANGED <<admin, rows, disk, daemonVars, clock, changes, alone>>

Purge(p, from, to) ==
    /\ At(p, "delete") /\ Unlocked
    /\ audit' = {e \in audit : e.timestamp \notin from .. to}
    /\ Wrote(p, "record")
    /\ UNCHANGED <<admin, rows, disk, daemonVars, clock, changes, alone>>

(* query_audit_logs and the PDF: nothing in the database changes. *)
Query(p) ==
    /\ At(p, "query")
    /\ Goto(p, "record")
    /\ UNCHANGED <<admin, rows, audit, disk, daemonVars, clock, changes, alone>>

(* record_audit_log; the alert that follows changes nothing here. *)
Record(p) ==
    /\ At(p, "record") /\ Unlocked
    /\ NewEntry(AuditAction(proc[p].cmd))
    /\ Goto(p, IF proc[p].cmd = "init" THEN "scan" ELSE "done")
    /\ UNCHANGED <<admin, rows, disk, daemonVars, clock, changes, alone>>

Interrupt(p) ==
    /\ proc[p].pc \in Steps
    /\ Goto(p, "ended")
    /\ UNCHANGED <<admin, rows, audit, disk, daemonVars, clock, changes, alone>>

Command(p) ==
    \/ Start(p) \/ CheckInitialized(p)
    \/ \E password \in Passwords :
         CreateAdmin(p, password) \/ Authenticate(p, password) \/ ChangePassword(p, password)
    \/ \E f \in Paths : Scan(p, f) \/ Upsert(p, f)
    \/ Commit(p) \/ Query(p) \/ Record(p) \/ Interrupt(p)
    \/ \E from, to \in Times : Purge(p, from, to)

-----------------------------------------------------------------------------
(* The disk, the clock and the daemon *)

Change(f, content) ==
    /\ changes < MaxChanges /\ clock + changes < MaxOutside
    /\ content # disk[f]
    /\ disk' = [disk EXCEPT ![f] = content]
    /\ \E noticed \in Noticed : due' = IF noticed THEN due \cup {f} ELSE due
    /\ changes' = changes + 1
    /\ alone' = {}
    /\ UNCHANGED <<admin, rows, audit, inHand, proc, clock>>

Tick ==
    /\ clock < MaxTime /\ clock + changes < MaxOutside
    /\ clock' = clock + 1
    /\ UNCHANGED <<admin, rows, audit, disk, daemonVars, proc, changes, alone>>

(* The handler of an event looks at the file and its row.  Where the file  *)
(* is as the row says there is nothing to do; else it records what it      *)
(* found, which the debounce may skip ...                                  *)
DaemonRecords(f) ==
    /\ f \in due /\ inHand.path = NoPath
    /\ due' = due \ {f}
    /\ IF disk[f] # Gone /\ disk[f] = rows[f]
       THEN UNCHANGED <<inHand, audit>>
       ELSE /\ inHand' = [path |-> f, content |-> disk[f]]
            /\ (Unlocked /\ NewEntry("FIM_EVENT")) \/ UNCHANGED audit
    /\ UNCHANGED <<admin, rows, disk, proc, clock, changes, alone>>

(* ... then saves the row, or deletes the one of a file that is gone.      *)
DaemonSaves ==
    /\ inHand.path # NoPath /\ Unlocked
    /\ rows' = [rows EXCEPT ![inHand.path] = inHand.content]
    /\ inHand' = [path |-> NoPath, content |-> Gone]
    /\ alone' = {}
    /\ UNCHANGED <<admin, audit, disk, due, proc, clock, changes>>

Next ==
    \/ \E p \in Procs : Command(p)
    \/ \E f \in Paths, content \in Contents \cup {Gone} : Change(f, content)
    \/ Tick
    \/ \E f \in Paths : DaemonRecords(f)
    \/ DaemonSaves

Spec == Init /\ [][Next]_vars

-----------------------------------------------------------------------------
(* Properties *)

TypeOK ==
    /\ admin \in Passwords \cup {NoAdmin}
    /\ rows \in Files /\ disk \in Files
    /\ audit \subseteq Entry
    /\ due \subseteq Paths
    /\ inHand \in [path : Paths \cup {NoPath}, content : Contents \cup {Gone}]
    /\ proc \in [Procs -> Proc]
    /\ clock \in Times /\ changes \in 0 .. MaxChanges
    /\ alone \subseteq Procs

(* The one-time guard holds against two --init at once: of all that pass   *)
(* the check, one writes anything, whoever is interrupted where.           *)
InitOnce ==
    Cardinality({p \in Procs : proc[p].cmd = "init" /\ proc[p].wrote}) <= 1

(* No interleaving of purges cleans up after itself: once one has deleted, *)
(* the log tells of a purge, unless one is between its deletion and its    *)
(* record or ended there.                                                  *)
PurgeLeavesTrace ==
    (\E p \in Procs : proc[p].cmd = "purge" /\ proc[p].wrote) =>
        \/ \E e \in audit : e.action = "PURGE_LOGS"
        \/ \E p \in Procs : /\ proc[p].cmd = "purge" /\ proc[p].wrote
                            /\ proc[p].pc \in {"record", "ended"}

(* While nobody disturbs an --init or --update, and wherever it ends, what *)
(* any process reads is the rows the command found or, of every file there *)
(* is, the row as the file is now: never a baseline of some of the files   *)
(* only.  One that is done has saved it.                                   *)
BaselineAllOrNothing ==
    \A p \in alone :
        \/ rows = proc[p].before /\ ~(proc[p].cmd \in {"init", "update"} /\ proc[p].pc = "done")
        \/ \A f \in Paths : disk[f] # Gone => rows[f] = disk[f]

(* main.rs:283 reports the baseline successfully updated: with no change   *)
(* left to handle and no command running, every file on the disk has its   *)
(* present fingerprint in the database once one update is done.            *)
UpdatedBaselineIsCurrent ==
    (/\ \E p \in Procs : proc[p].cmd = "update" /\ proc[p].pc = "done"
     /\ \A p \in Procs : proc[p].pc \in {"idle", "done", "ended"}
     /\ DaemonQuiet)
    => \A f \in Paths : disk[f] # Gone => rows[f] = disk[f]
=============================================================================
