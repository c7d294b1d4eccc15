---------------------------- MODULE PackageLocks ----------------------------
(***************************************************************************)
(* PackageManagerChecker::is_package_manager_locked                        *)
(* (src/src/analyzer/package_db.rs) and the package managers it looks for. *)
(*                                                                         *)
(* The check is a sequence of looks: each lock file in turn (is it there,  *)
(* is it in /proc/locks, can it be flocked), then each process by name.    *)
(* Managers start, lock, unlock and exit between any two of them.          *)
(* A manager locks with fcntl, with flock, or only by making the file;     *)
(* its name may be among the installers the check knows, or not.           *)
(***************************************************************************)
EXTENDS Naturals, FiniteSets

CONSTANTS
    NumFiles,       \* lock_files, in the order of the check
    NumManagers,    \* BOUND: processes that are package managers
    Style,          \* manager -> "posix", "flock" or "exist"
    Uses,           \* manager -> the lock files it locks
    Installers,     \* managers with a name is_active_installer_binary knows
    LocksReadable,  \* SUBSET BOOLEAN: whether /proc/locks may be read and names
                    \* the device of the lock files as stat does
    FilesThere,     \* BOUND: the sets of lock files that a run begins with
    Enabled         \* package_manager.check_package_db

LockFiles == 1 .. NumFiles
Managers == 1 .. NumManagers
NoLock == 0

ASSUME PackageAssumption ==
    /\ {NumFiles, NumManagers} \subseteq Nat
    /\ Style \in [Managers -> {"posix", "flock", "exist"}]
    /\ Uses \in [Managers -> SUBSET LockFiles]
    /\ \A m, n \in Managers :   \* a file made as a lock is used as nothing else
          Style[m] = "exist" /\ Style[n] # "exist" => Uses[m] \cap Uses[n] = {}
    /\ Installers \subseteq Managers
    /\ LocksReadable \subseteq BOOLEAN
    /\ FilesThere \subseteq SUBSET LockFiles
    /\ Enabled \in BOOLEAN

VARIABLES
    exists,     \* the lock files there are
    running,    \* the managers that run
    lock,       \* manager -> the lock it holds
    readable,   \* whether /proc/locks tells of these files
    probe,      \* the file the check itself has flocked
    check,      \* the check in progress
    throughout, \* HISTORY: what has been so since the check began
    glimpsed    \* HISTORY: managers that worked at some time during the check

managerVars == <<exists, running, lock, readable, throughout, glimpsed>>
checkVars == <<probe, check>>
packageVars == <<managerVars, checkVars>>

(* A check: what it looks at next, the file, the processes listed and not  *)
(* yet looked at, and the answer once at = "done".                         *)
NoCheck == [at |-> "none", file |-> 1, todo |-> {}, active |-> FALSE]

Holders(f) == {m \in Managers : lock[m] = f}
Locked(f) == \E m \in Holders(f) : Style[m] # "exist"
Flocked(f) == \E m \in Holders(f) : Style[m] = "flock"

(* The signs the check can see: <<manager, file>> while a lock is held,    *)
(* <<manager, NoLock>> while one with a known name runs.  Without          *)
(* /proc/locks an fcntl lock is no sign.                                   *)
Visible(m) == Style[m] = "flock" \/ (Style[m] = "posix" /\ readable)
Signs ==
    {<<m, lock[m]>> : m \in {n \in Managers : lock[n] # NoLock /\ Visible(n)}}
        \cup ((running \cap Installers) \X {NoLock})

-----------------------------------------------------------------------------
(* The package managers *)

PackageInit ==
    /\ exists \in FilesThere
    /\ running = {}
    /\ lock = [m \in Managers |-> NoLock]
    /\ readable \in LocksReadable
    /\ probe = NoLock
    /\ check = NoCheck
    /\ throughout = {}
    /\ glimpsed = {}

Witness ==
    /\ throughout' = throughout \cap Signs'
    /\ glimpsed' = glimpsed \cup running'

StartManager(m) ==
    /\ m \notin running
    /\ running' = running \cup {m}
    /\ UNCHANGED <<exists, lock, readable>>
    /\ Witness

(* Two kinds of lock do not see each other; the probe is a flock.          *)
AcquireLock(m, f) ==
    /\ m \in running /\ lock[m] = NoLock /\ f \in Uses[m]
    /\ \A h \in Holders(f) : Style[h] # Style[m]
    /\ Style[m] = "exist" => f \notin exists
    /\ Style[m] = "flock" => probe # f
    /\ lock' = [lock EXCEPT ![m] = f]
    /\ exists' = exists \cup {f}
    /\ UNCHANGED <<running, readable>>
    /\ Witness

ReleaseLock(m) ==
    /\ lock[m] # NoLock
    /\ lock' = [lock EXCEPT ![m] = NoLock]
    /\ exists' = IF Style[m] = "exist" THEN exists \ {lock[m]} ELSE exists
    /\ UNCHANGED <<running, readable>>
    /\ Witness

(* The kernel drops its locks; a file made as a lock stays.                *)
ExitManager(m) ==
    /\ m \in running
    /\ running' = running \ {m}
    /\ lock' = [lock EXCEPT ![m] = NoLock]
    /\ UNCHANGED <<exists, readable>>
    /\ Witness

ManagersChange ==
    \E m \in Managers :
        \/ StartManager(m) \/ ReleaseLock(m) \/ ExitManager(m)
        \/ \E f \in LockFiles : AcquireLock(m, f)

-----------------------------------------------------------------------------
(* is_package_manager_locked, is_file_locked and                           *)
(* is_any_package_manager_running                                          *)

LookAt(stage) == check' = [check EXCEPT !.at = stage]
Answer(active) == check' = [check EXCEPT !.at = "done", !.active = active]
NextFile == check' = [check EXCEPT !.at = "file", !.file = @ + 1]

BeginCheck ==
    /\ check.at = "none"
    /\ check' = IF Enabled THEN [NoCheck EXCEPT !.at = "file"]
                           ELSE [NoCheck EXCEPT !.at = "done"]
    /\ throughout' = Signs
    /\ glimpsed' = running
    /\ UNCHANGED <<exists, running, lock, readable, probe>>

(* Mutant: the check of the files ends at the first that is missing. *)
FileMissingBreaks ==
    /\ check.at = "file"
    /\ check.file \in LockFiles \ exists
    /\ LookAt("list")
    /\ UNCHANGED <<managerVars, probe>>

FileMissing ==
    /\ check.at = "file"
    /\ check.file \in LockFiles \ exists
    /\ NextFile
    /\ UNCHANGED <<managerVars, probe>>

(* Mutant: a lock file that exists is a lock. *)
FileExistsLocked ==
    /\ check.at = "file"
    /\ check.file \in LockFiles \cap exists
    /\ Answer(TRUE)
    /\ UNCHANGED <<managerVars, probe>>

FileExists ==
    /\ check.at = "file"
    /\ check.file \in LockFiles \cap exists
    /\ LookAt("locks")
    /\ UNCHANGED <<managerVars, probe>>

(* /proc/locks, by device and inode, whatever the kind of the lock. *)
ReadLocks ==
    /\ check.at = "locks"
    /\ IF readable /\ Locked(check.file) THEN Answer(TRUE) ELSE LookAt("open")
    /\ UNCHANGED <<managerVars, probe>>

(* Open, and flock without waiting. *)
ProbeFails ==
    /\ check.at = "open"
    /\ check.file \notin exists
    /\ NextFile
    /\ UNCHANGED <<managerVars, probe>>

ProbeRefused ==
    /\ check.at = "open"
    /\ check.file \in exists /\ Flocked(check.file)
    /\ Answer(TRUE)
    /\ UNCHANGED <<managerVars, probe>>

ProbeTaken ==
    /\ check.at = "open"
    /\ check.file \in exists /\ ~Flocked(check.file)
    /\ probe' = check.file
    /\ LookAt("drop")
    /\ UNCHANGED managerVars

ProbeDropped ==
    /\ check.at = "drop"
    /\ probe' = NoLock
    /\ NextFile
    /\ UNCHANGED managerVars

FilesDone ==
    /\ check.at = "file"
    /\ check.file \notin LockFiles
    /\ LookAt("list")
    /\ UNCHANGED <<managerVars, probe>>

ListProcesses ==
    /\ check.at = "list"
    /\ check' = [check EXCEPT !.at = "procs", !.todo = running]
    /\ UNCHANGED <<managerVars, probe>>

(* comm of one listed process, which may be gone. *)
ReadComm(m) ==
    /\ check.at = "procs"
    /\ m \in check.todo
    /\ \A other \in check.todo : m <= other
    /\ IF m \in running \cap Installers
       THEN Answer(TRUE)
       ELSE check' = [check EXCEPT !.todo = @ \ {m}]
    /\ UNCHANGED <<managerVars, probe>>

NoneRunning ==
    /\ check.at = "procs"
    /\ check.todo = {}
    /\ Answer(FALSE)
    /\ UNCHANGED <<managerVars, probe>>

CheckStep ==
    \/ FileMissing \/ FileExists \/ ReadLocks
    \/ ProbeFails \/ ProbeRefused \/ ProbeTaken \/ ProbeDropped
    \/ FilesDone \/ ListProcesses \/ NoneRunning
    \/ \E m \in Managers : ReadComm(m)

-----------------------------------------------------------------------------
PackageTypeOK ==
    /\ exists \subseteq LockFiles
    /\ running \subseteq Managers
    /\ lock \in [Managers -> LockFiles \cup {NoLock}]
    /\ \A m \in Managers : lock[m] # NoLock => m \in running
    /\ readable \in BOOLEAN
    /\ probe \in LockFiles \cup {NoLock}
    /\ check.at \in {"none", "file", "locks", "open", "drop", "list", "procs", "done"}
    /\ check.file \in 1 .. NumFiles + 1
    /\ check.todo \subseteq Managers
    /\ check.active \in BOOLEAN
    /\ throughout \subseteq Managers \X (LockFiles \cup {NoLock})
    /\ glimpsed \subseteq Managers
=============================================================================
