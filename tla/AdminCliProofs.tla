--------------------------- MODULE AdminCliProofs ---------------------------
(***************************************************************************)
(* The commands of AdminCli, for any number of them at once, any files and *)
(* passwords, and interruptions between any two calls.                     *)
(***************************************************************************)
EXTENDS AdminCli, TLAPS, FiniteSetTheorems

USE ValuesAssumption, PathsAssumption, BoundsAssumption

(* Which calls a command makes. *)
Calls(cmd) ==
    {"idle", "check", "record", "done", "ended"} \cup
        CASE cmd = "init" -> {"create", "scan", "save"}
          [] cmd = "update" -> {"password", "scan", "save"}
          [] cmd = "passwd" -> {"password", "change"}
          [] cmd = "purge" -> {"password", "delete"}
          [] cmd = "report" -> {"password", "query"}
OnItsPath == \A p \in Procs : proc[p].pc \in Calls(proc[p].cmd)

Typed == TypeOK /\ OnItsPath

-----------------------------------------------------------------------------
(* Types, and the path of each command *)

(* Moving a command along its path, and nothing else, is well typed. *)
LEMMA GotoTyped ==
    ASSUME Typed, NEW p \in Procs, NEW pc \in Calls(proc[p].cmd), Goto(p, pc)
    PROVE  proc' \in [Procs -> Proc] /\ OnItsPath'
<1>1. pc \in Steps \cup {"idle", "done", "ended"}
  BY DEF Typed, TypeOK, Proc, Commands, Calls, Steps
<1> QED
  BY <1>1 DEF Typed, TypeOK, OnItsPath, Goto, Proc

LEMMA WroteTyped ==
    ASSUME Typed, NEW p \in Procs, NEW pc \in Calls(proc[p].cmd), Wrote(p, pc)
    PROVE  proc' \in [Procs -> Proc] /\ OnItsPath'
<1>1. pc \in Steps \cup {"idle", "done", "ended"}
  BY DEF Typed, TypeOK, Proc, Commands, Calls, Steps
<1> QED
  <2>1. proc' = [proc EXCEPT ![p] = [proc[p] EXCEPT !.pc = pc, !.wrote = TRUE]]
    BY DEF Wrote, Typed, TypeOK
  <2>2. proc[p] \in Proc
    BY DEF Typed, TypeOK
  <2>3. [proc[p] EXCEPT !.pc = pc, !.wrote = TRUE] \in Proc
    BY <1>1, <2>2 DEF Proc
  <2> QED
    BY <2>1, <2>2, <2>3 DEF Typed, TypeOK, OnItsPath, Proc

LEMMA EntryTyped ==
    ASSUME TypeOK, NEW action \in Actions, NewEntry(action)
    PROVE  audit' \subseteq Entry
BY DEF TypeOK, NewEntry, Entry

LEMMA AuditActionTyped ==
    ASSUME NEW cmd \in Commands
    PROVE  AuditAction(cmd) \in Actions
BY DEF Commands, AuditAction, Actions

LEMMA CommandTyped ==
    ASSUME Typed, NEW p \in Procs, Command(p)
    PROVE  Typed'
<1> USE DEF Typed, TypeOK, daemonVars
<1>p. proc[p] \in Proc /\ proc[p].cmd \in Commands /\ proc[p].pc \in Calls(proc[p].cmd)
  BY DEF OnItsPath, Proc
<1>1. CASE Start(p)
  <2>1. proc' = [proc EXCEPT ![p] = [proc[p] EXCEPT !.pc = "check", !.before = rows]]
    BY <1>1 DEF Start
  <2>2. "check" \in Calls(proc[p].cmd)
    BY DEF Calls
  <2>3. [proc[p] EXCEPT !.pc = "check", !.before = rows] \in Proc
    BY <1>p DEF Proc, Steps
  <2>4. proc' \in [Procs -> Proc] /\ OnItsPath'
    BY <2>1, <2>2, <2>3, <1>p DEF Proc, OnItsPath
  <2> QED
    BY <1>1, <2>4 DEF Start
<1>2. CASE CheckInitialized(p)
  <2>1. PICK pc \in Calls(proc[p].cmd) : Goto(p, pc)
    BY <1>2, <1>p DEF CheckInitialized, Calls, Commands
  <2> QED
    BY <1>2, <2>1, GotoTyped DEF CheckInitialized
<1>3. ASSUME NEW w \in Passwords, CreateAdmin(p, w)
      PROVE  Typed'
  <2>1. \E pc \in Calls(proc[p].cmd) : Goto(p, pc) \/ Wrote(p, pc)
    BY <1>3 DEF CreateAdmin, Calls
  <2> QED
    BY <1>3, <2>1, GotoTyped, WroteTyped DEF CreateAdmin
<1>4. ASSUME NEW w \in Passwords, Authenticate(p, w)
      PROVE  Typed'
  <2>1. \E pc \in Calls(proc[p].cmd) : Goto(p, pc)
    BY <1>4, <1>p DEF Authenticate, Calls, Commands, At
  <2> QED
    BY <1>4, <2>1, GotoTyped DEF Authenticate
<1>5. ASSUME NEW w \in Passwords, ChangePassword(p, w)
      PROVE  Typed'
  <2>1. \E pc \in Calls(proc[p].cmd) : Wrote(p, pc)
    BY <1>5 DEF ChangePassword, Calls
  <2> QED
    BY <1>5, <2>1, WroteTyped DEF ChangePassword
<1>6. ASSUME NEW f \in Paths, Scan(p, f)
      PROVE  Typed'
  <2>1. proc' = [proc EXCEPT ![p].todo = proc[p].todo \ {f}, ![p].seen[f] = disk[f],
                   ![p].pc = IF proc[p].todo = {f} THEN "save" ELSE proc[p].pc]
    BY <1>6 DEF Scan
  <2>2. proc[p].seen \in Files /\ disk[f] \in Contents \cup {Gone}
    BY <1>p DEF Proc, Files
  <2>3. [proc[p].seen EXCEPT ![f] = disk[f]] \in Files
    BY <2>2 DEF Files
  <2>4. proc[p].pc = "scan" /\ "save" \in Calls(proc[p].cmd)
    BY <1>6, <1>p DEF Scan, At, Calls, Commands
  <2>5. proc' \in [Procs -> Proc] /\ OnItsPath'
    BY <2>1, <2>3, <2>4, <1>p DEF Proc, Steps, OnItsPath
  <2> QED
    BY <1>6, <2>5 DEF Scan
<1>7. CASE Commit(p)
  <2>1. rows' \in Files /\ alone' \subseteq Procs
    BY <1>7, <1>p DEF Commit, Files, Proc
  <2>2. \E pc \in Calls(proc[p].cmd) : Wrote(p, pc)
    BY <1>7 DEF Commit, Calls, AfterSave
  <2> QED
    BY <1>7, <2>1, <2>2, WroteTyped DEF Commit
<1>8. ASSUME NEW from \in Times, NEW to \in Times, Purge(p, from, to)
      PROVE  Typed'
  <2>1. \E pc \in Calls(proc[p].cmd) : Wrote(p, pc)
    BY <1>8 DEF Purge, Calls
  <2> QED
    BY <1>8, <2>1, WroteTyped DEF Purge
<1>9. CASE Query(p)
  <2>1. \E pc \in Calls(proc[p].cmd) : Goto(p, pc)
    BY <1>9 DEF Query, Calls
  <2> QED
    BY <1>9, <2>1, GotoTyped DEF Query
<1>10. CASE Record(p)
  <2>1. \E pc \in Calls(proc[p].cmd) : Goto(p, pc)
    BY <1>10 DEF Record, Calls
  <2>2. audit' \subseteq Entry
    BY <1>10, <1>p, EntryTyped, AuditActionTyped DEF Record
  <2> QED
    BY <1>10, <2>1, <2>2, GotoTyped DEF Record
<1>11. CASE Interrupt(p)
  <2>1. \E pc \in Calls(proc[p].cmd) : Goto(p, pc)
    BY <1>11 DEF Interrupt, Calls
  <2> QED
    BY <1>11, <2>1, GotoTyped DEF Interrupt
<1>12. ASSUME NEW f \in Paths, Upsert(p, f)
       PROVE  Typed'
  <2>1. proc' = [proc EXCEPT ![p] = [proc[p] EXCEPT !.staged = proc[p].staged \cup {f}]]
    BY <1>12 DEF Upsert
  <2>2. [proc[p] EXCEPT !.staged = proc[p].staged \cup {f}] \in Proc
    BY <1>p DEF Proc
  <2>3. proc' \in [Procs -> Proc] /\ OnItsPath'
    BY <2>1, <2>2, <1>p DEF Proc, OnItsPath
  <2> QED
    BY <1>12, <2>3 DEF Upsert
<1> QED
  BY <1>1, <1>2, <1>3, <1>4, <1>5, <1>6, <1>7, <1>8, <1>9, <1>10, <1>11, <1>12 DEF Command

LEMMA TypedKept ==
    ASSUME Typed, [Next]_vars
    PROVE  Typed'
<1> USE DEF Typed, TypeOK, daemonVars
<1>1. CASE \E p \in Procs : Command(p)
  BY <1>1, CommandTyped
<1>2. ASSUME NEW f \in Paths, NEW content \in Contents \cup {Gone}, Change(f, content)
      PROVE  Typed'
  BY <1>2 DEF Change, Files, OnItsPath
<1>3. CASE Tick
  BY <1>3 DEF Tick, Times, OnItsPath
<1>4. ASSUME NEW f \in Paths, DaemonRecords(f)
      PROVE  Typed'
  <2>1. audit' \subseteq Entry
    BY <1>4, EntryTyped DEF DaemonRecords, Actions
  <2> QED
    BY <1>4, <2>1 DEF DaemonRecords, Files, OnItsPath
<1>5. CASE DaemonSaves
  BY <1>5 DEF DaemonSaves, Files, OnItsPath
<1>6. CASE UNCHANGED vars
  BY <1>6 DEF vars, OnItsPath
<1> QED
  BY <1>1, <1>2, <1>3, <1>4, <1>5, <1>6 DEF Next

LEMMA InitTyped ==
    ASSUME Init
    PROVE  Typed
<1>1. [f \in Paths |-> Gone] \in Files
  BY DEF Files
<1>2. ASSUME NEW p \in Procs
      PROVE  proc[p] \in Proc /\ proc[p].pc = "idle"
  <2>1. PICK c \in Commands :
          proc[p] = [cmd |-> c, pc |-> "idle", todo |-> Paths, wrote |-> FALSE,
                     staged |-> {}, seen |-> [f \in Paths |-> Gone], before |-> [f \in Paths |-> Gone]]
    BY DEF Init
  <2> QED
    BY <1>1, <2>1 DEF Proc
<1>3. proc \in [Procs -> Proc]
  BY <1>2 DEF Init
<1>4. OnItsPath
  BY <1>2 DEF OnItsPath, Calls
<1> QED
  BY <1>1, <1>3, <1>4 DEF Init, Typed, TypeOK, Times

(* Every reachable state is well typed, and every command makes its own    *)
(* calls only.                                                             *)
THEOREM TypeCorrect == Spec => []TypeOK
<1>1. Typed /\ [Next]_vars => Typed'
  BY TypedKept
<1>2. Typed => TypeOK
  BY DEF Typed
<1> QED
  BY <1>1, <1>2, InitTyped, PTL DEF Spec

-----------------------------------------------------------------------------
(* One --init *)

(* An --init has written exactly when it is past create; there is an admin *)
(* from then on, which is what stops the next one.                         *)
Writers == {p \in Procs : proc[p].cmd = "init" /\ proc[p].wrote}
OneWriter ==
    /\ \A p \in Procs : proc[p].cmd = "init" =>
          /\ proc[p].pc \in {"idle", "check", "create"} => ~proc[p].wrote
          /\ proc[p].pc \in {"record", "scan", "save"} => proc[p].wrote
    /\ Writers # {} => admin # NoAdmin
    /\ \A p, q \in Writers : p = q

LEMMA CommandOnce ==
    ASSUME Typed, OneWriter, NEW p \in Procs, Command(p)
    PROVE  OneWriter'
<1> USE DEF Typed, TypeOK, OneWriter, Writers, Proc
<1>p. proc[p].pc \in Calls(proc[p].cmd) /\ proc[p].cmd \in Commands
  BY DEF OnItsPath
<1>1. CASE Start(p)
  BY <1>1 DEF Start, At
<1>2. CASE CheckInitialized(p)
  BY <1>2 DEF CheckInitialized, At, Goto
<1>3. ASSUME NEW w \in Passwords, CreateAdmin(p, w)
      PROVE  OneWriter'
  <2>1. CASE admin = NoAdmin
    BY <1>3, <2>1 DEF CreateAdmin, At, Wrote
  <2>2. CASE admin # NoAdmin
    BY <1>3, <2>2 DEF CreateAdmin, At, Goto
  <2> QED
    BY <2>1, <2>2
<1>4. ASSUME NEW w \in Passwords, Authenticate(p, w)
      PROVE  OneWriter'
  <2>1. proc[p].cmd # "init"
    BY <1>4, <1>p DEF Authenticate, At, Calls
  <2> QED
    BY <1>4, <2>1 DEF Authenticate, Goto
<1>5. ASSUME NEW w \in Passwords, ChangePassword(p, w)
      PROVE  OneWriter'
  <2>1. proc[p].cmd # "init"
    BY <1>5, <1>p DEF ChangePassword, At, Calls
  <2> QED
    BY <1>5, <2>1 DEF ChangePassword, Wrote
<1>6. ASSUME NEW f \in Paths, Scan(p, f)
      PROVE  OneWriter'
  BY <1>6 DEF Scan, At
<1>7. CASE Commit(p)
  BY <1>7 DEF Commit, At, Wrote, AfterSave
<1>8. ASSUME NEW from \in Times, NEW to \in Times, Purge(p, from, to)
      PROVE  OneWriter'
  <2>1. proc[p].cmd # "init"
    BY <1>8, <1>p DEF Purge, At, Calls
  <2> QED
    BY <1>8, <2>1 DEF Purge, Wrote
<1>9. CASE Query(p)
  <2>1. proc[p].cmd # "init"
    BY <1>9, <1>p DEF Query, At, Calls
  <2> QED
    BY <1>9, <2>1 DEF Query, Goto
<1>10. CASE Record(p)
  <2>1. CASE proc[p].cmd = "init"
    BY <1>10, <2>1 DEF Record, At, Goto
  <2>2. CASE proc[p].cmd # "init"
    BY <1>10, <2>2 DEF Record, Goto
  <2> QED
    BY <2>1, <2>2
<1>11. CASE Interrupt(p)
  BY <1>11 DEF Interrupt, Goto
<1>12. ASSUME NEW f \in Paths, Upsert(p, f)
       PROVE  OneWriter'
  BY <1>12 DEF Upsert
<1> QED
  BY <1>1, <1>2, <1>3, <1>4, <1>5, <1>6, <1>7, <1>8, <1>9, <1>10, <1>11, <1>12 DEF Command

(* The one-time guard: of any number of --init at once, at most one writes *)
(* anything, wherever each of them is interrupted.                         *)
THEOREM OneInitWrites == Spec => []InitOnce
<1>1. Init => OneWriter
  BY DEF Init, OneWriter, Writers
<1>2. Typed /\ OneWriter /\ [Next]_vars => OneWriter'
  BY CommandOnce DEF Next, Change, Tick, DaemonRecords, DaemonSaves, vars, OneWriter, Writers
<1>3. Typed /\ [Next]_vars => Typed'
  BY TypedKept
<1>4. OneWriter => InitOnce
  <2> SUFFICES ASSUME OneWriter
               PROVE  Cardinality(Writers) <= 1
    BY DEF InitOnce, Writers
  <2>1. CASE Writers = {}
    BY <2>1, FS_EmptySet
  <2>2. ASSUME NEW p \in Writers
        PROVE  Cardinality(Writers) <= 1
    <3>1. Writers = {p}
      BY <2>2 DEF OneWriter
    <3>2. Cardinality({p}) = 1
      BY FS_Singleton
    <3> QED
      BY <3>1, <3>2
  <2> QED
    BY <2>1, <2>2
<1> QED
  BY <1>1, <1>2, <1>3, <1>4, InitTyped, PTL DEF Spec

-----------------------------------------------------------------------------
(* What a purge leaves *)

(* Only a purge deletes, and it is then between its deletion and its       *)
(* record; any other step keeps what the log tells.                        *)
Told == \E e \in audit : e.action = "PURGE_LOGS"
Telling(p) ==
    proc[p].cmd = "purge" /\ proc[p].wrote /\ proc[p].pc \in {"record", "ended"}

LEMMA PurgeKept ==
    ASSUME Typed, PurgeLeavesTrace, [Next]_vars
    PROVE  PurgeLeavesTrace'
<1> USE DEF Typed, TypeOK, Proc, PurgeLeavesTrace
<1>1. ASSUME NEW p \in Procs, NEW from \in Times, NEW to \in Times, Purge(p, from, to)
      PROVE  PurgeLeavesTrace'
  <2>1. proc[p].cmd = "purge"
    BY <1>1 DEF Purge, At, OnItsPath, Calls, Commands
  <2>2. Telling(p)'
    BY <1>1, <2>1 DEF Purge, Wrote, Telling
  <2> QED
    BY <2>2 DEF Telling
<1>2. ASSUME NEW p \in Procs, Record(p)
      PROVE  PurgeLeavesTrace'
  <2>1. audit \subseteq audit' /\ proc' \in [Procs -> Proc]
    BY <1>2, CommandTyped DEF Record, NewEntry, Command
  <2>2. CASE Telling(p)
    <3>1. AuditAction(proc[p].cmd) = "PURGE_LOGS"
      BY <2>2 DEF Telling, AuditAction
    <3>2. [timestamp |-> clock, action |-> "PURGE_LOGS"] \in audit'
      BY <1>2, <3>1 DEF Record, NewEntry
    <3> QED
      BY <3>2
  <2>3. CASE ~Telling(p)
    <3>1. ASSUME NEW q \in Procs
          PROVE  /\ proc'[q].cmd = proc[q].cmd /\ proc'[q].wrote = proc[q].wrote
                 /\ Telling(q) => Telling(q)'
      <4>1. PICK pc : proc' = [proc EXCEPT ![p].pc = pc]
        BY <1>2 DEF Record, Goto
      <4> QED
        BY <2>3, <4>1 DEF Telling
    <3> QED
      BY <2>1, <3>1 DEF Telling
  <2> QED
    BY <2>2, <2>3
<1>3. ASSUME audit \subseteq audit',
             \A q \in Procs :
                /\ proc'[q].cmd = proc[q].cmd
                /\ Telling(q) => Telling(q)'
                /\ proc'[q].cmd = "purge" /\ proc'[q].wrote => proc[q].wrote
      PROVE  PurgeLeavesTrace'
  BY <1>3 DEF Telling
<1>4. ASSUME NEW p \in Procs, Command(p), ~Record(p),
             ~ \E from, to \in Times : Purge(p, from, to)
      PROVE  PurgeLeavesTrace'
  <2>1. audit' = audit
    BY <1>4 DEF Command, Start, CheckInitialized, CreateAdmin, Authenticate,
                ChangePassword, Scan, Upsert, Commit, Query, Interrupt
  <2>2. proc[p].cmd = "purge" =>
           proc[p].pc \notin {"create", "change", "scan", "save", "query"}
    BY DEF OnItsPath, Calls
  <2> DEFINE Quiet == /\ \A q \in Procs \ {p} : proc'[q] = proc[q]
                      /\ proc'[p].cmd = proc[p].cmd
                      /\ Telling(p) => proc'[p].pc \in {"record", "ended"} /\ proc'[p].wrote
                      /\ proc[p].cmd = "purge" => proc'[p].wrote = proc[p].wrote
  <2>3. ASSUME NEW pc \in {"ended"}, Goto(p, pc)
        PROVE  Quiet
    BY <2>3 DEF Goto, Telling
  <2>4. ASSUME NEW pc, Goto(p, pc), proc[p].pc \in {"check", "create", "password", "query"}
        PROVE  Quiet
    BY <2>4 DEF Goto, Telling
  <2>5. ASSUME NEW pc, Wrote(p, pc), proc[p].pc \in {"create", "change", "save"}
        PROVE  Quiet
    BY <2>2, <2>5 DEF Wrote, Telling
  <2>6. ASSUME Start(p)
        PROVE  Quiet
    BY <2>6 DEF Start, At, Telling
  <2>7. ASSUME NEW f \in Paths, Scan(p, f)
        PROVE  Quiet
    BY <2>2, <2>7 DEF Scan, At, Telling
  <2>8. ASSUME NEW f \in Paths, Upsert(p, f)
        PROVE  Quiet
    BY <2>8 DEF Upsert, Telling
  <2> HIDE DEF Quiet
  <2>9. ASSUME \/ CheckInitialized(p) \/ Query(p) \/ Interrupt(p)
               \/ \E w \in Passwords : Authenticate(p, w)
        PROVE  Quiet
    BY <2>3, <2>4, <2>9 DEF CheckInitialized, Authenticate, Query, Interrupt, At
  <2>10. ASSUME \/ Commit(p)
               \/ \E w \in Passwords : CreateAdmin(p, w) \/ ChangePassword(p, w)
        PROVE  Quiet
    BY <2>3, <2>5, <2>10 DEF Commit, CreateAdmin, ChangePassword, At
  <2>11. Quiet
    BY <1>4, <2>6, <2>7, <2>8, <2>9, <2>10 DEF Command
  <2> QED
    BY <1>3, <2>1, <2>11 DEF Quiet, Telling
<1>5. CASE UNCHANGED vars \/ Tick \/ DaemonSaves
           \/ (\E f \in Paths, content \in Contents \cup {Gone} : Change(f, content))
           \/ (\E f \in Paths : DaemonRecords(f))
  <2>1. proc' = proc /\ audit \subseteq audit'
    BY <1>5 DEF vars, Tick, DaemonSaves, Change, DaemonRecords, NewEntry
  <2> QED
    BY <2>1
<1> QED
  BY <1>1, <1>2, <1>4, <1>5 DEF Next, Command

(* However many purges interleave: once one has deleted, the log tells of  *)
(* a purge, unless one is about to record itself or was cut off there.     *)
THEOREM PurgeTold == Spec => []PurgeLeavesTrace
<1>1. Init => PurgeLeavesTrace
  BY DEF Init, PurgeLeavesTrace
<1>2. Typed /\ PurgeLeavesTrace /\ [Next]_vars => PurgeLeavesTrace'
  BY PurgeKept
<1>3. Typed /\ [Next]_vars => Typed'
  BY TypedKept
<1> QED
  BY <1>1, <1>2, <1>3, InitTyped, PTL DEF Spec

-----------------------------------------------------------------------------
(* An undisturbed --init or --update *)

CurrentRows == \A f \in Paths : disk[f] # Gone => rows[f] = disk[f]

(* It has seen what it has scanned as it still is, so that the one         *)
(* transaction that saves leaves all the rows current; a step that comes   *)
(* after it finds them so, one that comes before leaves them as they were. *)
Seen(p) == \A f \in Paths \ proc[p].todo : proc[p].seen[f] = disk[f]
Past(p) == \/ proc[p].cmd = "update" /\ proc[p].pc = "record"
           \/ proc[p].cmd \in {"init", "update"} /\ proc[p].pc = "done"
Undisturbed(p) ==
    /\ proc[p].pc # "idle"
    /\ Seen(p)
    /\ proc[p].pc = "save" => proc[p].todo = {}
    /\ rows = proc[p].before \/ CurrentRows
    /\ Past(p) => CurrentRows
Unstarted == \A p \in Procs : proc[p].pc = "idle" => proc[p].todo = Paths
AllOrNothing == Unstarted /\ \A p \in alone : Undisturbed(p)

(* A step that touches neither rows nor disk, and of the commands only the *)
(* program counter of one, which it does not bring past its save.          *)
LEMMA GotoKeeps ==
    ASSUME Typed, AllOrNothing, NEW p \in Procs, NEW pc,
           \/ Goto(p, pc) \/ Wrote(p, pc),
           UNCHANGED <<rows, disk, alone>>,
           pc \notin {"idle", "save"}, Past(p)' => Past(p)
    PROVE  AllOrNothing'
<1>1. \A q \in Procs : /\ proc'[q].todo = proc[q].todo /\ proc'[q].seen = proc[q].seen
                       /\ proc'[q].before = proc[q].before /\ proc'[q].cmd = proc[q].cmd
                       /\ proc'[q].pc = IF q = p THEN pc ELSE proc[q].pc
  BY DEF Goto, Wrote, Typed, TypeOK, Proc
<1>2. Unstarted'
  BY <1>1 DEF AllOrNothing, Unstarted
<1>3. ASSUME NEW q \in alone
      PROVE  Undisturbed(q)'
  <2>1. q \in Procs /\ Undisturbed(q)
    BY DEF Typed, TypeOK, AllOrNothing
  <2>2. CurrentRows' <=> CurrentRows
    BY DEF CurrentRows
  <2>3. Past(q)' => Past(q)
    BY <1>1, <2>1 DEF Past
  <2> QED
    BY <1>1, <2>1, <2>2, <2>3 DEF Undisturbed, Seen
<1> QED
  BY <1>2, <1>3 DEF AllOrNothing

LEMMA CommandAllOrNothing ==
    ASSUME Typed, AllOrNothing, NEW p \in Procs, Command(p)
    PROVE  AllOrNothing'
<1>p. proc[p] \in Proc /\ proc[p].cmd \in Commands /\ proc[p].pc \in Calls(proc[p].cmd)
  BY DEF Typed, TypeOK, OnItsPath, Proc
<1>1. ASSUME NEW pc, Goto(p, pc) \/ Wrote(p, pc), UNCHANGED <<rows, disk, alone>>,
             pc \notin {"idle", "save", "done"},
             proc[p].cmd = "update" => pc # "record"
      PROVE  AllOrNothing'
  <2>1. proc'[p].pc = pc /\ proc'[p].cmd = proc[p].cmd
    BY <1>1 DEF Goto, Wrote, Typed, TypeOK, Proc
  <2>2. ~Past(p)'
    BY <1>1, <2>1 DEF Past
  <2> QED
    BY <1>1, <2>2, GotoKeeps
<1>2. CASE Start(p)
  <2>1. proc' = [proc EXCEPT ![p] = [proc[p] EXCEPT !.pc = "check", !.before = rows]]
    BY <1>2 DEF Start
  <2>2. \A q \in Procs \ {p} : proc'[q] = proc[q]
    BY <2>1 DEF Typed, TypeOK
  <2>3. /\ proc'[p].pc = "check" /\ proc'[p].before = rows
        /\ proc'[p].todo = Paths /\ proc'[p].seen = proc[p].seen
    BY <1>2, <1>p, <2>1 DEF Start, At, AllOrNothing, Unstarted, Typed, TypeOK, Proc
  <2>4. UNCHANGED <<rows, disk>> /\ alone' \subseteq alone \cup {p}
    BY <1>2 DEF Start
  <2>5. Undisturbed(p)'
    BY <2>3, <2>4 DEF Undisturbed, Seen, Past
  <2>6. ASSUME NEW q \in alone \ {p}
        PROVE  Undisturbed(q)'
    BY <2>2, <2>4 DEF AllOrNothing, Undisturbed, Seen, Past, CurrentRows, Typed, TypeOK
  <2>7. Unstarted'
    BY <2>2, <2>3 DEF AllOrNothing, Unstarted
  <2> QED
    BY <2>4, <2>5, <2>6, <2>7 DEF AllOrNothing
<1>3. CASE CheckInitialized(p)
  <2>1. \E pc \in {"ended", "create", "password"} :
           Goto(p, pc) /\ UNCHANGED <<rows, disk, alone>>
    BY <1>3 DEF CheckInitialized
  <2> QED
    BY <1>1, <2>1
<1>4. ASSUME NEW w \in Passwords, CreateAdmin(p, w)
      PROVE  AllOrNothing'
  <2>1. proc[p].cmd # "update"
    BY <1>4, <1>p DEF CreateAdmin, At, Calls
  <2> QED
    BY <1>1, <1>4, <2>1 DEF CreateAdmin
<1>5. ASSUME NEW w \in Passwords, Authenticate(p, w)
      PROVE  AllOrNothing'
  <2>1. \E pc \in {"ended", "scan", "change", "delete", "query"} :
           Goto(p, pc) /\ UNCHANGED <<rows, disk, alone>>
    BY <1>5, <1>p DEF Authenticate, At, Calls, Commands
  <2> QED
    BY <1>1, <2>1
<1>6. ASSUME NEW w \in Passwords, ChangePassword(p, w)
      PROVE  AllOrNothing'
  <2>1. proc[p].cmd # "update"
    BY <1>6, <1>p DEF ChangePassword, At, Calls
  <2> QED
    BY <1>1, <1>6, <2>1 DEF ChangePassword
<1>7. ASSUME NEW from \in Times, NEW to \in Times, Purge(p, from, to)
      PROVE  AllOrNothing'
  <2>1. proc[p].cmd # "update"
    BY <1>7, <1>p DEF Purge, At, Calls
  <2> QED
    BY <1>1, <1>7, <2>1 DEF Purge
<1>8. CASE Query(p)
  <2>1. proc[p].cmd # "update"
    BY <1>8, <1>p DEF Query, At, Calls
  <2> QED
    BY <1>1, <1>8, <2>1 DEF Query
<1>9. CASE Interrupt(p)
  BY <1>1, <1>9 DEF Interrupt
<1>10. CASE Record(p)
  <2>1. CASE proc[p].cmd = "init"
    BY <1>1, <1>10, <2>1 DEF Record
  <2>2. CASE proc[p].cmd # "init"
    <3>1. proc[p].pc = "record" /\ Goto(p, "done") /\ UNCHANGED <<rows, disk, alone>>
      BY <1>10, <2>2 DEF Record, At
    <3>2. proc'[p].cmd = proc[p].cmd
      BY <3>1 DEF Goto, Typed, TypeOK, Proc
    <3>3. Past(p)' => Past(p)
      BY <2>2, <3>1, <3>2 DEF Past
    <3> QED
      BY <3>1, <3>3, GotoKeeps
  <2> QED
    BY <2>1, <2>2
<1>11. ASSUME NEW f \in Paths, Scan(p, f)
       PROVE  AllOrNothing'
  <2>1. proc' = [proc EXCEPT ![p] =
          [proc[p] EXCEPT !.todo = proc[p].todo \ {f},
                          !.seen = [proc[p].seen EXCEPT ![f] = disk[f]],
                          !.pc = IF proc[p].todo = {f} THEN "save" ELSE proc[p].pc]]
        /\ proc[p].pc = "scan" /\ UNCHANGED <<rows, disk, alone>>
    BY <1>11 DEF Scan, At
  <2>2. \A q \in Procs \ {p} : proc'[q] = proc[q]
    BY <2>1 DEF Typed, TypeOK
  <2>3. /\ proc'[p].todo = proc[p].todo \ {f}
        /\ proc'[p].seen = [proc[p].seen EXCEPT ![f] = disk[f]]
        /\ proc'[p].pc = IF proc[p].todo = {f} THEN "save" ELSE "scan"
        /\ proc'[p].before = proc[p].before
    BY <1>p, <2>1 DEF Typed, TypeOK, Proc
  <2>4. ASSUME p \in alone
        PROVE  Undisturbed(p)'
    <3>1. Undisturbed(p)
      BY <2>4 DEF AllOrNothing
    <3>2. Seen(p)'
      BY <1>p, <2>1, <2>3, <3>1 DEF Undisturbed, Seen, Proc, Files
    <3>3. ~Past(p)' /\ (CurrentRows' <=> CurrentRows)
      BY <2>1, <2>3 DEF Past, CurrentRows
    <3> QED
      BY <2>1, <2>3, <3>1, <3>2, <3>3 DEF Undisturbed
  <2>5. ASSUME NEW q \in alone \ {p}
        PROVE  Undisturbed(q)'
    BY <2>1, <2>2 DEF AllOrNothing, Undisturbed, Seen, Past, CurrentRows, Typed, TypeOK
  <2>6. Unstarted'
    BY <2>2, <2>3 DEF AllOrNothing, Unstarted
  <2> QED
    BY <2>1, <2>4, <2>5, <2>6 DEF AllOrNothing
<1>12. CASE Commit(p)
  <2>1. /\ proc[p].pc = "save" /\ disk' = disk /\ alone' = alone \cap {p}
        /\ rows' = [f \in Paths |->
                      IF f \in Batch(p) THEN proc[p].seen[f] ELSE rows[f]]
        /\ Wrote(p, AfterSave(p))
    BY <1>12 DEF Commit, At
  <2>2. /\ \A q \in Procs \ {p} : proc'[q] = proc[q]
        /\ proc'[p].todo = proc[p].todo /\ proc'[p].seen = proc[p].seen
        /\ proc'[p].pc \in {"done", "record"}
    BY <2>1, <1>p DEF Wrote, AfterSave, Typed, TypeOK, Proc
  <2>3. ASSUME p \in alone
        PROVE  Undisturbed(p)'
    <3>1. Undisturbed(p)
      BY <2>3 DEF AllOrNothing
    <3>2. \A f \in Paths : proc[p].seen[f] = disk[f]
      BY <2>1, <3>1 DEF Undisturbed, Seen
    <3>3. CurrentRows'
      BY <2>1, <3>2 DEF CurrentRows, Batch
    <3> QED
      BY <2>1, <2>2, <3>2, <3>3 DEF Undisturbed, Seen
  <2>4. Unstarted'
    BY <2>2 DEF AllOrNothing, Unstarted
  <2> QED
    BY <2>1, <2>3, <2>4 DEF AllOrNothing
<1>13. ASSUME NEW f \in Paths, Upsert(p, f)
       PROVE  AllOrNothing'
  <2>1. proc' = [proc EXCEPT ![p] = [proc[p] EXCEPT !.staged = proc[p].staged \cup {f}]]
        /\ UNCHANGED <<rows, disk, alone>>
    BY <1>13 DEF Upsert
  <2>2. \A q \in Procs : /\ proc'[q].pc = proc[q].pc /\ proc'[q].cmd = proc[q].cmd
                         /\ proc'[q].todo = proc[q].todo /\ proc'[q].seen = proc[q].seen
                         /\ proc'[q].before = proc[q].before
    BY <1>p, <2>1 DEF Typed, TypeOK, Proc
  <2>3. Unstarted'
    BY <2>2 DEF AllOrNothing, Unstarted
  <2>4. ASSUME NEW q \in alone
        PROVE  Undisturbed(q)'
    <3>1. q \in Procs /\ Undisturbed(q)
      BY DEF Typed, TypeOK, AllOrNothing
    <3> QED
      BY <2>1, <2>2, <3>1 DEF Undisturbed, Seen, Past, CurrentRows
  <2> QED
    BY <2>1, <2>3, <2>4 DEF AllOrNothing
<1> QED
  BY <1>2, <1>3, <1>4, <1>5, <1>6, <1>7, <1>8, <1>9, <1>10, <1>11, <1>12, <1>13 DEF Command

(* For any files, any number of commands and interruptions between any two *)
(* statements: while nobody disturbs an --init or --update, the rows are   *)
(* those it found or the whole disk as it is.                              *)
THEOREM BaselineSavedWhole == Spec => []BaselineAllOrNothing
<1>1. Init => AllOrNothing
  <2> SUFFICES ASSUME Init
               PROVE  \A p \in Procs : proc[p].todo = Paths
    BY DEF Init, AllOrNothing, Unstarted
  <2> QED
    BY DEF Init
<1>2. Typed /\ AllOrNothing /\ [Next]_vars => AllOrNothing'
  <2> SUFFICES ASSUME Typed, AllOrNothing, [Next]_vars
               PROVE  AllOrNothing'
    OBVIOUS
  <2>1. CASE \E p \in Procs : Command(p)
    BY <2>1, CommandAllOrNothing
  <2>2. CASE UNCHANGED <<rows, disk, proc, alone>>
    BY <2>2 DEF AllOrNothing, Unstarted, Undisturbed, Seen, Past, CurrentRows
  <2>3. CASE proc' = proc /\ alone' = {}
    BY <2>3 DEF AllOrNothing, Unstarted
  <2> QED
    BY <2>1, <2>2, <2>3 DEF Next, Tick, Change, DaemonRecords, DaemonSaves, vars
<1>3. Typed /\ [Next]_vars => Typed'
  BY TypedKept
<1>4. AllOrNothing => BaselineAllOrNothing
  BY DEF AllOrNothing, Undisturbed, Past, CurrentRows, BaselineAllOrNothing
<1> QED
  BY <1>1, <1>2, <1>3, <1>4, InitTyped, PTL DEF Spec
=============================================================================
