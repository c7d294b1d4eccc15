------------------------------ MODULE FimDaemon ------------------------------
(***************************************************************************)
(* The daemon of handle_run (src/src/main.rs) composed with the watcher    *)
(* thread: the state maps it preloads, the loop that drains the FimEvent   *)
(* channel, the debounce map, the fingerprint table and the audit log.     *)
(*                                                                         *)
(* A handler is cut at its effects in the order of the code: decide and    *)
(* dispatch the alert, then write the audit record, then write the         *)
(* fingerprint row.  The file system, the watcher thread and a crash may   *)
(* come in between.  What survives a stop is what SQLite holds.            *)
(***************************************************************************)
EXTENDS FimWatcher

CONSTANTS
    Vital,          \* paths for which is_sauron_vital is TRUE
    NotifyLegit,    \* package_manager.notify_legitimate_updates
    PkgSamples,     \* answers is_package_manager_active may give
    WriteOutcomes,  \* whether a database write succeeds: {TRUE} or BOOLEAN
    MaxStops        \* BOUND: how often the daemon stops

ASSUME DaemonAssumption ==
    /\ Vital \subseteq Paths
    /\ NotifyLegit \in BOOLEAN
    /\ PkgSamples \subseteq BOOLEAN /\ PkgSamples # {}
    /\ WriteOutcomes \subseteq BOOLEAN /\ WriteOutcomes # {}
    /\ MaxStops \in Nat

VARIABLES
    phase,     \* "stopped", "preloaded" (maps read, no watch yet), "running"
    db,        \* file_fingerprints: path -> hash, Absent without a row
    audit,     \* audit_logs, as the set of records ever written
    known,     \* known_permissions and known_ownership: attribute -> path -> value
    knownDirs, \* known_directories
    recent,    \* keys of recent_alert_debounce
    main,      \* the handler in progress
    alerts,    \* HISTORY: what was handed to the dispatcher since the start
    unwatched, \* HISTORY: files whose row the daemon had no event to repair
    unsynced,  \* HISTORY: paths whose entry in known it had no event to repair
    stops      \* stops so far (bounded by MaxStops)

daemonVars == <<phase, db, audit, known, knownDirs, recent, main, alerts>>
historyVars == <<unwatched, unsynced>>
vars == <<watcherVars, daemonVars, historyVars, stops>>

-----------------------------------------------------------------------------
(* Records, keys and the handler's program counter *)

Actions == {"FILE_TAMPERING", "PACKAGE_UPDATE", "FILE_CREATED", "DIR_CREATED",
            "DIR_RENAMED", "FILE_RENAMED", "PERMISSIONS_CHANGED",
            "OWNERSHIP_CHANGED", "FILE_DELETED", "DIR_DELETED",
            "DAEMON_START", "DAEMON_STOP"}

(* An audit record or an alert: what happened, to which path, and the new  *)
(* hash, value or name where its text has one.                             *)
Facts == Hashes \cup Vals \cup Paths \cup {Absent}
Record == [action : Actions, path : Paths, fact : Facts]
Rec(action, p, x) == [action |-> action, path |-> p, fact |-> x]

KeyKinds == {"modified", "created", "created_dir", "renamed_dir",
             "renamed_file", "perm", "owner", "deleted"}
Key == [kind : KeyKinds, path : Paths, fact : Facts]
K(kind, p, x) == [kind |-> kind, path |-> p, fact |-> x]

(* main.pc: "idle", or the next effect of the handler of main.ev.  main.rec *)
(* is the record to write; main.register is FALSE where the code `continue`s *)
(* past the registration of a created file in the state maps.              *)
Pcs == {"idle", "audit", "delete", "save"}
SomePath == CHOOSE p \in Paths : TRUE
NoRecord == Rec("FILE_CREATED", SomePath, Absent)
Idle == [pc |-> "idle", ev |-> PathEvent("Deleted", SomePath),
         rec |-> NoRecord, register |-> FALSE]
At(pc, e) == [pc |-> pc, ev |-> e, rec |-> NoRecord, register |-> FALSE]
Auditing(e, r) == [pc |-> "audit", ev |-> e, rec |-> r, register |-> TRUE]

(* record_audit_log, whose result is discarded (`let _ =`). *)
Logged(r) ==
    \E ok \in WriteOutcomes : audit' = IF ok THEN audit \cup {r} ELSE audit

(* The daemon's own records name no path; SomePath stands in.              *)
Lifecycle(action) == Rec(action, SomePath, Absent)

AttrAction(a) == IF a = "perm" THEN "PERMISSIONS_CHANGED" ELSE "OWNERSHIP_CHANGED"
Monitored(p) == p \notin Excluded

-----------------------------------------------------------------------------
(* Start and stop *)

EmptyMap == [a \in Attrs |-> [p \in Paths |-> Absent]]

(* scan_baseline and save_fingerprints_batch of an earlier --init; whatever *)
(* happened to the files since is part of the initial state.               *)
Init ==
    /\ WatcherInit
    /\ phase = "stopped"
    /\ db \in [Paths -> Hashes \cup {Absent}]
    /\ \A d \in Dirs : db[d] = Absent
    /\ audit = {}
    /\ known = EmptyMap
    /\ knownDirs = {}
    /\ recent = {}
    /\ main = Idle
    /\ alerts = {}
    /\ unwatched = {}
    /\ unsynced = {}
    /\ stops = 0

(* handle_run up to the watcher: the start is announced and recorded, then *)
(* the maps take in every path under the roots, excluded or not.  The      *)
(* fingerprint table is not looked at.                                     *)
Preload ==
    /\ phase = "stopped"
    /\ phase' = "preloaded"
    /\ alerts' = {Lifecycle("DAEMON_START")}
    /\ Logged(Lifecycle("DAEMON_START"))
    /\ known' = [a \in Attrs |-> [p \in Paths |-> meta[p][a]]]
    /\ knownDirs' = {p \in Paths : disk[p] = IsDir}
    /\ UNCHANGED <<watcherVars, db, recent, main, historyVars, stops>>

InStep(p) == \A a \in Attrs : known[a][p] = meta[p][a]

(* start_watcher.  From here on every change leaves an event.              *)
StartWatcher ==
    /\ phase = "preloaded"
    /\ phase' = "running"
    /\ watching' = TRUE
    /\ unwatched' = {f \in Files : db[f] # disk[f]}
    /\ unsynced' = {p \in Paths : ~InStep(p)}
    /\ UNCHANGED <<fsVars, raw, outbox, chan, db, audit, known, knownDirs,
                   recent, main, alerts, stops>>

(* What dies with the process.                                             *)
Exit ==
    /\ stops < MaxStops
    /\ stops' = stops + 1
    /\ phase' = "stopped"
    /\ watching' = FALSE
    /\ raw' = <<>> /\ outbox' = <<>> /\ chan' = <<>>
    /\ known' = EmptyMap /\ knownDirs' = {}
    /\ recent' = {}
    /\ main' = Idle
    /\ alerts' = {}
    /\ unwatched' = {} /\ unsynced' = {}
    /\ UNCHANGED <<fsVars, db>>

(* SIGKILL or a power cut, at any point. *)
Crash ==
    /\ phase # "stopped"
    /\ Exit
    /\ UNCHANGED audit

(* SIGTERM or SIGINT: select! sees them between two ticks only.  The alert *)
(* that goes out last is forgotten with the process.                       *)
Terminate ==
    /\ phase = "running"
    /\ main.pc = "idle"
    /\ Exit
    /\ Logged(Lifecycle("DAEMON_STOP"))

Stop == Crash \/ Terminate

-----------------------------------------------------------------------------
(* The drain loop: one action per FimEvent takes it from the channel,      *)
(* decides, and hands the alert to the dispatcher.                         *)

Receive(kind) ==
    /\ phase = "running"
    /\ main.pc = "idle"
    /\ chan # <<>>
    /\ Head(chan).kind = kind
    /\ chan' = Tail(chan)
    /\ UNCHANGED <<fsVars, watching, raw, outbox, phase, db, audit, stops>>

(* The handler is over, or goes on, without an alert. *)
Quietly(m) ==
    /\ main' = m
    /\ UNCHANGED <<recent, alerts>>

(* The key was alerted less than 2 s ago.  How much time has passed is the *)
(* environment's choice; a key never entered is never live.                *)
Debounced(key, m) == key \in recent /\ Quietly(m)

(* No live key: remember this one, dispatch, then go and write the record. *)
Report(e, key, r) ==
    /\ recent' = recent \cup {key}
    /\ alerts' = alerts \cup {r}
    /\ main' = Auditing(e, r)

Ignored(pkg, paths) == pkg /\ paths \cap Vital = {}

(* Mutants of ReportChange: the debounced branch forgets to save; the key   *)
(* forgets the hash; package updates are never notified.                   *)
ReportChangeNoSave(e) ==
    LET key == K("modified", e.path, e.hash) IN
    \/ Debounced(key, Idle)
    \/ Report(e, key, Rec("FILE_TAMPERING", e.path, e.hash))
ReportChangeKeyByPath(e) ==
    LET key == K("modified", e.path, Absent) IN
    \/ Debounced(key, At("save", e))
    \/ Report(e, key, Rec("FILE_TAMPERING", e.path, e.hash))
ReportChangeNeverLegit(e) ==
    LET key == K("modified", e.path, e.hash) IN
    \/ Debounced(key, At("save", e))
    \/ Report(e, key, Rec("FILE_TAMPERING", e.path, e.hash))
    \/ /\ TRUE \in PkgSamples
       /\ main' = Auditing(e, Rec("PACKAGE_UPDATE", e.path, e.hash))
       /\ UNCHANGED <<recent, alerts>>

(* Modified, and Created over an existing row: the hash differs from the   *)
(* row's.  analyze_modification asks the package manager, Vital or not.    *)
ReportChange(e) ==
    LET key == K("modified", e.path, e.hash) IN
    \/ Debounced(key, At("save", e))
    \/ \E pkg \in PkgSamples :
          LET r == Rec(IF pkg THEN "PACKAGE_UPDATE" ELSE "FILE_TAMPERING",
                       e.path, e.hash)
          IN  IF pkg /\ ~NotifyLegit
              THEN /\ recent' = recent \cup {key}
                   /\ main' = Auditing(e, r)
                   /\ UNCHANGED alerts
              ELSE Report(e, key, r)

OnModified ==
    LET e == Head(chan) IN
    /\ Receive("Modified")
    /\ \/ db[e.path] = e.hash /\ Quietly(Idle)
       \/ db[e.path] # e.hash /\ ReportChange(e)
    /\ UNCHANGED <<known, knownDirs, historyVars>>

OnCreated ==
    LET e == Head(chan)
        unreported == [At("save", e) EXCEPT !.register = TRUE]
    IN
    /\ Receive("Created")
    /\ \/ db[e.path] = e.hash /\ Quietly(unreported)
       \/ db[e.path] \notin {e.hash, Absent} /\ ReportChange(e)
       \/ /\ db[e.path] = Absent
          /\ \E pkg \in PkgSamples :
               LET key == K("created", e.path, Absent) IN
               IF Ignored(pkg, {e.path})
               THEN Quietly(unreported)
               ELSE \/ Debounced(key, At("save", e))
                    \/ Report(e, key, Rec("FILE_CREATED", e.path, e.hash))
    /\ UNCHANGED <<known, knownDirs, historyVars>>

(* The entries known_permissions and known_ownership get for p. *)
Entered(p, m) == [a \in Attrs |-> [known[a] EXCEPT ![p] = m[a]]]

RegisterDir(e) ==
    /\ knownDirs' = knownDirs \cup {e.path}
    /\ known' = Entered(e.path, e.meta)
    /\ unsynced' = unsynced \ {e.path}
    /\ UNCHANGED unwatched

OnDirectoryCreated ==
    LET e == Head(chan)
        key == K("created_dir", e.path, Absent)
    IN
    /\ Receive("DirectoryCreated")
    /\ \E pkg \in PkgSamples :
         IF Ignored(pkg, {e.path})
         THEN Quietly(Idle) /\ RegisterDir(e)
         ELSE \/ /\ Debounced(key, Idle)
                 /\ unsynced' = unsynced \cup {e.path}
                 /\ UNCHANGED <<known, knownDirs, unwatched>>
              \/ /\ Report(e, key, Rec("DIR_CREATED", e.path, Absent))
                 /\ UNCHANGED <<known, knownDirs, historyVars>>

OnDirectoryRenamed ==
    LET e == Head(chan)
        key == K("renamed_dir", e.path, e.to)
    IN
    /\ Receive("DirectoryRenamed")
    /\ \E pkg \in PkgSamples :
         IF Ignored(pkg, {e.path, e.to})
         THEN Quietly(Idle)
         ELSE \/ Debounced(key, Idle)
              \/ Report(e, key, Rec("DIR_RENAMED", e.path, e.to))
    /\ UNCHANGED <<known, knownDirs, historyVars>>

(* The rename also enters the keys of the Deleted and Created it expects.  *)
OnFileRenamed ==
    LET e == Head(chan)
        key == K("renamed_file", e.path, e.to)
    IN
    /\ Receive("FileRenamed")
    /\ \E pkg \in PkgSamples :
         IF Ignored(pkg, {e.path, e.to})
         THEN Quietly(At("delete", e))
         ELSE \/ Debounced(key, Idle)
              \/ /\ recent' = recent \cup {key, K("deleted", e.path, Absent),
                                          K("created", e.to, Absent)}
                 /\ alerts' = alerts \cup {Rec("FILE_RENAMED", e.path, e.to)}
                 /\ main' = Auditing(e, Rec("FILE_RENAMED", e.path, e.to))
    /\ UNCHANGED <<known, knownDirs, historyVars>>

(* Mutant: the debounce key leaves out the new value. *)
OnAttrChangedKeyByPath(a) ==
    LET e == Head(chan)
        v == e.meta[a]
        key == K(a, e.path, Absent)
    IN
    /\ Receive(a)
    /\ known[a][e.path] \notin {Absent, v}
    /\ known' = [known EXCEPT ![a][e.path] = v]
    /\ Debounced(key, Idle) \/ Report(e, key, Rec(AttrAction(a), e.path, v))
    /\ UNCHANGED <<knownDirs, historyVars>>

(* PermissionsChanged (a = "perm") and OwnershipChanged (a = "owner").     *)
OnAttrChanged(a) ==
    LET e == Head(chan)
        v == e.meta[a]
        key == K(a, e.path, v)
        changed == known[a][e.path] \notin {Absent, v}
    IN
    /\ Receive(a)
    /\ \E pkg \in PkgSamples :
         \/ /\ Ignored(pkg, {e.path})
            /\ Quietly(Idle)
            /\ unsynced' = IF changed THEN unsynced \cup {e.path} ELSE unsynced
            /\ UNCHANGED known
         \/ /\ ~Ignored(pkg, {e.path})
            /\ ~changed
            /\ Quietly(Idle)
            /\ UNCHANGED <<known, unsynced>>
         \/ /\ ~Ignored(pkg, {e.path})
            /\ changed
            /\ known' = [known EXCEPT ![a][e.path] = v]
            /\ \/ Debounced(key, Idle)
               \/ Report(e, key, Rec(AttrAction(a), e.path, v))
            /\ UNCHANGED unsynced
    /\ UNCHANGED <<knownDirs, unwatched>>

(* Mutant: a debounced deletion leaves the state maps alone. *)
OnDeletedKeepsMaps ==
    LET e == Head(chan)
        key == K("deleted", e.path, Absent)
    IN
    /\ Receive("Deleted")
    /\ \/ /\ Debounced(key, At("delete", e))
          /\ UNCHANGED <<known, knownDirs, unsynced>>
       \/ /\ Report(e, key, Rec("FILE_DELETED", e.path, Absent))
          /\ knownDirs' = knownDirs \ {e.path}
          /\ known' = Entered(e.path, NoMeta)
          /\ unsynced' = unsynced \ {e.path}
    /\ UNCHANGED unwatched

(* The state maps forget the path before anything is decided; a directory  *)
(* has no row to delete.                                                   *)
OnDeleted ==
    LET e == Head(chan)
        isDir == e.path \in knownDirs
        key == K("deleted", e.path, Absent)
        rest == IF isDir THEN Idle ELSE At("delete", e)
    IN
    /\ Receive("Deleted")
    /\ knownDirs' = knownDirs \ {e.path}
    /\ known' = Entered(e.path, NoMeta)
    /\ unsynced' = unsynced \ {e.path}
    /\ \E pkg \in PkgSamples :
         IF Ignored(pkg, {e.path})
         THEN Quietly(rest)
         ELSE \/ Debounced(key, rest)
              \/ Report(e, key, Rec(IF isDir THEN "DIR_DELETED" ELSE "FILE_DELETED",
                                    e.path, Absent))
    /\ UNCHANGED unwatched

TakeEvent ==
    \/ OnModified \/ OnCreated \/ OnDirectoryCreated \/ OnDirectoryRenamed
    \/ OnFileRenamed \/ OnDeleted
    \/ \E a \in Attrs : OnAttrChanged(a)

-----------------------------------------------------------------------------
(* The database writes of the handler in progress.  Their results are      *)
(* discarded (`let _ =`): the handler goes on either way.                  *)

mainUnchanged == <<watcherVars, phase, recent, alerts, stops>>

AfterAudit ==
    CASE main.rec.action \in {"FILE_TAMPERING", "PACKAGE_UPDATE", "FILE_CREATED"}
           -> [main EXCEPT !.pc = "save"]
      [] main.rec.action \in {"FILE_RENAMED", "FILE_DELETED"}
           -> [main EXCEPT !.pc = "delete"]
      [] OTHER -> Idle

(* record_audit_log; a created directory enters the state maps next. *)
RecordAuditLog ==
    /\ main.pc = "audit"
    /\ Logged(main.rec)
    /\ main' = AfterAudit
    /\ IF main.rec.action = "DIR_CREATED"
       THEN RegisterDir(main.ev)
       ELSE UNCHANGED <<known, knownDirs, historyVars>>
    /\ UNCHANGED <<mainUnchanged, db>>

(* delete_fingerprint of a deleted file, or of a renamed file's old name.  *)
DeleteFingerprint ==
    /\ main.pc = "delete"
    /\ \E ok \in WriteOutcomes :
         db' = IF ok THEN [db EXCEPT ![main.ev.path] = Absent] ELSE db
    /\ main' = IF main.ev.kind = "FileRenamed" THEN [main EXCEPT !.pc = "save"] ELSE Idle
    /\ unwatched' = unwatched \ {main.ev.path}
    /\ UNCHANGED <<mainUnchanged, audit, known, knownDirs, unsynced>>

(* What a rename saves is generated here, by the main loop; it may be gone. *)
SavedPath == IF main.ev.kind = "FileRenamed" THEN main.ev.to ELSE main.ev.path
SavedHash == IF main.ev.kind = "FileRenamed" THEN disk[main.ev.to] ELSE main.ev.hash

(* The end of the Created handler: a second look at the disk.              *)
RegisterFile(p) ==
    /\ known' = IF disk[p] = Absent THEN known ELSE Entered(p, meta[p])
    /\ unsynced' = unsynced \ {p}

SaveFingerprint ==
    LET p == SavedPath IN
    /\ main.pc = "save"
    /\ \E ok \in WriteOutcomes :
         db' = IF ok /\ SavedHash \in Hashes THEN [db EXCEPT ![p] = SavedHash] ELSE db
    /\ unwatched' = IF SavedHash \in Hashes THEN unwatched \ {p} ELSE unwatched
    /\ main' = Idle
    /\ IF main.ev.kind # "Created" THEN UNCHANGED <<known, unsynced>>
       ELSE IF main.register THEN RegisterFile(p)
       ELSE unsynced' = unsynced \cup {p} /\ UNCHANGED known
    /\ UNCHANGED <<mainUnchanged, audit, knownDirs>>

Finish == RecordAuditLog \/ DeleteFingerprint \/ SaveFingerprint

-----------------------------------------------------------------------------
Environment == FsNext /\ UNCHANGED <<daemonVars, historyVars, stops>>
Watcher == WatcherThread /\ UNCHANGED <<daemonVars, historyVars, stops>>
MainLoop == TakeEvent \/ Finish
Startup == Preload \/ StartWatcher

Next == Environment \/ Watcher \/ MainLoop \/ Startup \/ Stop

Spec == Init /\ [][Next]_vars

(* The watcher thread and the main loop are never idle with work to do     *)
(* (recv and try_recv return at once); files, crashes and restarts owe     *)
(* nothing.  That dispatch returns is an assumption here.                  *)
Fairness == WF_vars(Watcher) /\ WF_vars(MainLoop)
FairSpec == Spec /\ Fairness

-----------------------------------------------------------------------------
(* Properties *)

TypeOK ==
    /\ WatcherTypeOK
    /\ phase \in {"stopped", "preloaded", "running"}
    /\ watching = (phase = "running")
    /\ db \in [Paths -> Hashes \cup {Absent}]
    /\ audit \subseteq Record
    /\ known \in [Attrs -> [Paths -> Vals \cup {Absent}]]
    /\ knownDirs \subseteq Paths
    /\ recent \subseteq Key
    /\ main \in [pc : Pcs, ev : FimEvent, rec : Record, register : BOOLEAN]
    /\ alerts \subseteq Record
    /\ unwatched \subseteq Paths
    /\ unsynced \subseteq Paths
    /\ stops \in 0 .. MaxStops

Quiescent ==
    /\ phase = "running"
    /\ raw = <<>> /\ outbox = <<>> /\ chan = <<>>
    /\ main.pc = "idle"

(* Once the pipeline has drained, known_permissions and known_ownership    *)
(* hold what is on disk for every monitored path, except where the code    *)
(* skipped the update: changes nobody watched, debounced creations and     *)
(* events ignored while a package manager runs.                            *)
MapsConverge ==
    Quiescent =>
        \A p \in Paths : Monitored(p) /\ p \notin unsynced => InStep(p)

(* No step replaces the hash of an existing row, other than by a rename,   *)
(* before the same hash was recorded for the same path in the audit log    *)
(* as tampering or as a package update: neither the debounce (which saves  *)
(* without a record) nor a crash between the two writes lets a new         *)
(* baseline in unrecorded.                                                 *)
RebaselineAudited ==
    [][\A p \in Paths :
          db[p] # Absent /\ db'[p] \notin {db[p], Absent}
          /\ main.ev.kind # "FileRenamed"
          => \E act \in {"FILE_TAMPERING", "PACKAGE_UPDATE"} :
                Rec(act, p, db'[p]) \in audit]_vars

(* The same for the alert: it was handed to the dispatcher since the       *)
(* daemon started, even where the audit write fails.  (With notifications  *)
(* for package updates off, those have none.)                              *)
RebaselineAlerted ==
    [][NotifyLegit \/ TRUE \notin PkgSamples =>
        \A p \in Paths :
          db[p] # Absent /\ db'[p] \notin {db[p], Absent}
          /\ main.ev.kind # "FileRenamed"
          => \E act \in {"FILE_TAMPERING", "PACKAGE_UPDATE"} :
                Rec(act, p, db'[p]) \in alerts]_vars

(* The event a main-loop step works on. *)
HandledKind == IF main.pc # "idle" THEN main.ev.kind ELSE Head(chan).kind

(* A known attribute value is overwritten by a different one only with an  *)
(* alert naming the new value since the daemon started, or by registering  *)
(* the path as created.                                                    *)
AttrChangeAlerted ==
    [][\A a \in Attrs, p \in Paths :
          /\ phase = "running"
          /\ Absent \notin {known[a][p], known'[a][p]}
          /\ known'[a][p] # known[a][p]
          => \/ Rec(AttrAction(a), p, known'[a][p]) \in alerts'
             \/ HandledKind \in {"Created", "DirectoryCreated"}]_vars

(* The comment in the Created handler (main.rs:833) says of a new file that *)
(* it is registered in the state maps so that later chmod and chown events *)
(* are compared correctly: when the handler is done with a file that is    *)
(* there, the maps hold its attributes.                                    *)
CreatedFileRegistered ==
    [][main.pc = "save" /\ main.ev.kind = "Created" /\ phase' = "running"
       /\ main'.pc = "idle" /\ disk[main.ev.path] # Absent
       => \A a \in Attrs : known'[a][main.ev.path] = meta[main.ev.path][a]]_vars

(* The throttling notice of the notifiers (whatsapp.rs:53) says that 100%  *)
(* of the events are audited in SQLite: without package updates and        *)
(* renames, a hash enters the fingerprint table only after an audit record *)
(* that names it.                                                          *)
EveryBaselineAudited ==
    [][\A p \in Paths : db'[p] \notin {db[p], Absent}
          => \E act \in Actions : Rec(act, p, db'[p]) \in audit]_vars

(* A file's drift from its row, seen while watching, is repaired: the      *)
(* bounded channel between the two threads never stops the flow.           *)
DriftRepaired ==
    \A f \in Files \ (DbFiles \cup Excluded) :
        (phase = "running" /\ f \notin unwatched /\ db[f] # disk[f])
            ~> (phase # "running" \/ db[f] = disk[f])
=============================================================================
