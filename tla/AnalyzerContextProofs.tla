------------------------ MODULE AnalyzerContextProofs ------------------------
(***************************************************************************)
(* The package check of AnalyzerContext, for any lock files, managers and  *)
(* installer names, and whatever the managers do between two looks: it     *)
(* never overlooks what was to be seen all the time, and never sees what   *)
(* was not there at all.  Then the session context, for any time to live   *)
(* and whoever comes and goes while it is read: what it names and what it  *)
(* leaves out is true as of less than a time to live ago.                  *)
(***************************************************************************)
EXTENDS AnalyzerContext, TLAPS, FiniteSetTheorems

Stages == {"none", "file", "locks", "open", "drop", "list", "procs", "done"}

Shapes ==
    /\ lock \in [Managers -> LockFiles \cup {NoLock}]
    /\ running \subseteq Managers
    /\ check \in [at : Stages, file : Nat \ {0}, todo : SUBSET Managers,
                  active : BOOLEAN]

(* Who holds a lock runs, uses that file, and has made it if it is not the *)
(* kernel's lock that counts.                                              *)
LocksHeld ==
    \A m \in Managers : lock[m] # NoLock =>
        /\ m \in running
        /\ lock[m] \in Uses[m]
        /\ Style[m] # "exist" => lock[m] \in exists

Witnessed == throughout \subseteq Signs /\ running \subseteq glimpsed

(* What has been visible all the time lies ahead of the check.             *)
FilesAhead ==
    \A m \in Managers, f \in LockFiles :
        <<m, f>> \in throughout /\ check.at \in Stages \ {"none", "done"} =>
            /\ check.at \in {"file", "locks", "open", "drop"}
            /\ check.file <= f
            /\ check.at = "open" => check.file < f \/ Style[m] = "flock"
            /\ check.at = "drop" => check.file < f
ProcessesAhead ==
    \A m \in Managers :
        <<m, NoLock>> \in throughout /\ check.at = "procs" => m \in check.todo

Managing == Shapes /\ LocksHeld /\ Witnessed
Ahead == FilesAhead /\ ProcessesAhead
Answered == QuietWhenIdle /\ (check.active => glimpsed # {})

IInv == Managing /\ Ahead /\ Answered

-----------------------------------------------------------------------------
LEMMA ConstantShapes ==
    /\ NoLock \notin LockFiles
    /\ \A f \in LockFiles : f \in Nat /\ 1 <= f
    /\ \A f \in Nat \ {0} : f \notin LockFiles => \A g \in LockFiles : g < f
BY PackageAssumption DEF LockFiles, NoLock

(* A sign is a lock that can be seen, or a process with a known name.      *)
LEMMA SignShapes ==
    ASSUME Shapes, NEW s \in Signs
    PROVE  \E m \in Managers :
             \/ lock[m] \in LockFiles /\ s = <<m, lock[m]>> /\ Visible(m)
             \/ s = <<m, NoLock>> /\ m \in running \cap Installers
BY PackageAssumption, ConstantShapes DEF Signs, Shapes

LEMMA FileSigns ==
    ASSUME Managing, NEW m \in Managers, NEW f \in LockFiles, <<m, f>> \in throughout
    PROVE  lock[m] = f /\ f \in exists
           /\ (Style[m] = "flock" \/ (Style[m] = "posix" /\ readable))
<1>1. <<m, f>> \in Signs
  BY DEF Managing, Witnessed
<1>2. lock[m] = f /\ Visible(m)
  BY <1>1, SignShapes, ConstantShapes DEF Managing
<1> QED
  BY <1>2, ConstantShapes DEF Managing, LocksHeld, Visible

LEMMA ProcessSigns ==
    ASSUME Managing, NEW m \in Managers, <<m, NoLock>> \in throughout
    PROVE  m \in running \cap Installers
BY SignShapes, ConstantShapes DEF Managing, Witnessed

-----------------------------------------------------------------------------
(* The package managers *)

LEMMA ManagersKeep ==
    ASSUME IInv, ManagersChange, UNCHANGED checkVars
    PROVE  IInv'
<1> USE PackageAssumption, ConstantShapes
<1>1. Witness
  BY DEF ManagersChange, StartManager, AcquireLock, ReleaseLock, ExitManager
<1>2. Shapes'
  BY DEF IInv, Managing, Shapes, checkVars, ManagersChange,
         StartManager, AcquireLock, ReleaseLock, ExitManager
<1>3. LocksHeld'
  <2>1. ASSUME NEW m \in Managers, StartManager(m)
        PROVE  LocksHeld'
    BY <2>1 DEF StartManager, IInv, Managing, LocksHeld
  <2>2. ASSUME NEW m \in Managers, NEW f \in LockFiles, AcquireLock(m, f)
        PROVE  LocksHeld'
    BY <2>2 DEF AcquireLock, IInv, Managing, Shapes, LocksHeld
  <2>3. ASSUME NEW m \in Managers, ReleaseLock(m)
        PROVE  LocksHeld'
    BY <2>3 DEF ReleaseLock, IInv, Managing, Shapes, LocksHeld
  <2>4. ASSUME NEW m \in Managers, ExitManager(m)
        PROVE  LocksHeld'
    BY <2>4 DEF ExitManager, IInv, Managing, Shapes, LocksHeld
  <2> QED
    BY <2>1, <2>2, <2>3, <2>4 DEF ManagersChange
<1>4. Witnessed' /\ throughout' \subseteq throughout /\ glimpsed \subseteq glimpsed'
  BY <1>1 DEF Witness, Witnessed
<1>5. Ahead'
  BY <1>4 DEF IInv, Ahead, FilesAhead, ProcessesAhead, checkVars
<1>6. Answered'
  BY <1>4 DEF IInv, Answered, QuietWhenIdle, checkVars
<1> QED
  BY <1>2, <1>3, <1>4, <1>5, <1>6 DEF IInv, Managing

-----------------------------------------------------------------------------
(* The check *)

(* No step of the check changes what the managers do.                      *)
LEMMA Looking ==
    ASSUME Managing, UNCHANGED managerVars, check' \in
             [at : Stages, file : Nat \ {0}, todo : SUBSET Managers, active : BOOLEAN]
    PROVE  Managing'
BY DEF managerVars, Managing, Shapes, LocksHeld, Witnessed, Signs, Visible

LEMMA BeginKeeps ==
    ASSUME IInv, BeginCheck
    PROVE  IInv'
<1> USE PackageAssumption, ConstantShapes
<1>1. /\ check' = [at |-> IF Enabled THEN "file" ELSE "done", file |-> 1,
                   todo |-> {}, active |-> FALSE]
      /\ UNCHANGED <<exists, running, lock, readable>>
      /\ throughout' = Signs /\ glimpsed' = running
  BY DEF BeginCheck, NoCheck
<1>2. Managing'
  BY <1>1 DEF IInv, Managing, Shapes, Stages, LocksHeld, Witnessed, Signs, Visible
<1>3. Ahead' /\ Answered'
  BY <1>1 DEF Ahead, FilesAhead, ProcessesAhead, Answered, QuietWhenIdle
<1> QED
  BY <1>2, <1>3 DEF IInv

(* A look at a file that finds nothing to answer: what was visible of it   *)
(* throughout must lie further on.                                         *)
LEMMA FileLooks ==
    ASSUME IInv,
           \/ FileMissing \/ FileExists \/ ProbeFails \/ ProbeTaken \/ ProbeDropped
    PROVE  IInv'
<1> USE PackageAssumption, ConstantShapes
<1>1. UNCHANGED managerVars
  BY DEF FileMissing, FileExists, ProbeFails, ProbeTaken, ProbeDropped
<1>2. /\ check'.at \in {"file", "locks", "drop"}
      /\ check'.file \in {check.file, check.file + 1}
      /\ check'.todo = check.todo /\ check'.active = check.active
      /\ check' \in [at : Stages, file : Nat \ {0}, todo : SUBSET Managers,
                     active : BOOLEAN]
  <2>1. check \in [at : Stages, file : Nat \ {0}, todo : SUBSET Managers,
                  active : BOOLEAN]
    BY DEF IInv, Managing, Shapes
  <2>2. CASE LookAt("locks") \/ LookAt("drop")
    BY <2>1, <2>2 DEF LookAt, Stages
  <2>3. CASE NextFile
    <3>1. check' = [check EXCEPT !.at = "file", !.file = check.file + 1]
      BY <2>3 DEF NextFile
    <3>2. check.file + 1 \in Nat \ {0}
      BY <2>1
    <3> QED
      BY <2>1, <3>1, <3>2 DEF Stages
  <2> QED
    BY <2>2, <2>3 DEF FileMissing, FileExists, ProbeFails, ProbeTaken, ProbeDropped
<1>3. Managing'
  BY <1>1, <1>2, Looking DEF IInv
<1>4. ASSUME NEW m \in Managers, NEW f \in LockFiles, <<m, f>> \in throughout'
      PROVE  check'.file <= f /\ (check'.at = "drop" => check'.file < f)
  <2>1. /\ <<m, f>> \in throughout
        /\ lock[m] = f /\ f \in exists
        /\ Style[m] = "flock" \/ (Style[m] = "posix" /\ readable)
    BY <1>1, <1>4, FileSigns DEF managerVars, IInv
  <2>2. check.file \in Nat /\ f \in Nat
    BY DEF IInv, Managing, Shapes
  <2>3. CASE FileMissing
    <3>1. check.at = "file" /\ check.file \notin exists /\ check.file <= f
      BY <2>1, <2>3 DEF FileMissing, IInv, Ahead, FilesAhead, Stages
    <3> QED
      BY <2>1, <2>2, <2>3, <3>1 DEF FileMissing, NextFile, IInv, Managing, Shapes
  <2>4. CASE FileExists
    BY <2>1, <2>2, <2>4 DEF FileExists, LookAt, IInv, Managing, Shapes, Ahead,
                            FilesAhead, Stages
  <2>5. CASE ProbeFails
    <3>1. check.at = "open" /\ check.file \notin exists /\ check.file <= f
      BY <2>1, <2>5 DEF ProbeFails, IInv, Ahead, FilesAhead, Stages
    <3> QED
      BY <2>1, <2>2, <2>5, <3>1 DEF ProbeFails, NextFile, IInv, Managing, Shapes
  <2>6. CASE ProbeTaken
    <3>1. check.at = "open" /\ (check.file < f \/ Style[m] = "flock") /\ check.file <= f
      BY <2>1, <2>6 DEF ProbeTaken, IInv, Ahead, FilesAhead, Stages
    <3>2. check.file # f
      BY <2>1, <2>6, <3>1 DEF ProbeTaken, Flocked, Holders
    <3> QED
      BY <2>2, <2>6, <3>1, <3>2 DEF ProbeTaken, LookAt, IInv, Managing, Shapes
  <2>7. CASE ProbeDropped
    <3>1. check.at = "drop" /\ check.file < f
      BY <2>1, <2>7 DEF ProbeDropped, IInv, Ahead, FilesAhead, Stages
    <3> QED
      BY <2>2, <2>7, <3>1 DEF ProbeDropped, NextFile, IInv, Managing, Shapes
  <2> QED
    BY <2>3, <2>4, <2>5, <2>6, <2>7
<1>5. Ahead'
  BY <1>2, <1>4 DEF Ahead, FilesAhead, ProcessesAhead
<1>6. Answered'
  BY <1>1, <1>2 DEF IInv, Answered, QuietWhenIdle, managerVars
<1> QED
  BY <1>3, <1>5, <1>6 DEF IInv

(* Someone at work is seen only when someone runs.                         *)
LEMMA AnsweredYes ==
    ASSUME IInv, UNCHANGED managerVars, running # {}, Answer(TRUE)
    PROVE  IInv'
<1>1. check' = [check EXCEPT !.at = "done", !.active = TRUE]
  BY DEF Answer
<1>2. Managing' /\ check'.at = "done" /\ check'.active = TRUE
  BY <1>1, Looking DEF IInv, Managing, Shapes, Stages
<1>3. Ahead'
  BY <1>2 DEF Ahead, FilesAhead, ProcessesAhead
<1>4. Answered'
  BY <1>2 DEF IInv, Managing, Witnessed, Answered, QuietWhenIdle, managerVars
<1> QED
  BY <1>2, <1>3, <1>4 DEF IInv

LEMMA LocksLooks ==
    ASSUME IInv, ReadLocks \/ ProbeRefused
    PROVE  IInv'
<1> USE PackageAssumption, ConstantShapes
<1>1. UNCHANGED managerVars
  BY DEF ReadLocks, ProbeRefused
<1>2. CASE Answer(TRUE)
  <2>1. \E m \in Managers : lock[m] = check.file /\ check.file # NoLock
    BY ZenonT(30), <1>2 DEF ReadLocks, ProbeRefused, Answer, LookAt, Locked, Flocked, Holders,
                IInv, Managing, Shapes, Stages, NoLock
  <2>2. running # {}
    BY <2>1 DEF IInv, Managing, LocksHeld
  <2> QED
    BY <1>1, <1>2, <2>2, AnsweredYes
<1>3. CASE ReadLocks /\ LookAt("open") /\ ~(readable /\ Locked(check.file))
  <2>1. /\ check.at = "locks"
        /\ check' = [check EXCEPT !.at = "open"]
    BY <1>3 DEF ReadLocks, LookAt
  <2>2. /\ check'.at = "open" /\ check'.file = check.file
        /\ check'.active = check.active
        /\ Managing'
    BY <1>1, <2>1, Looking DEF IInv, Managing, Shapes, Stages
  <2>3. ASSUME NEW m \in Managers, NEW f \in LockFiles, <<m, f>> \in throughout'
        PROVE  check.file <= f /\ (check.file < f \/ Style[m] = "flock")
    <3>1. /\ <<m, f>> \in throughout
          /\ lock[m] = f
          /\ Style[m] = "flock" \/ (Style[m] = "posix" /\ readable)
      BY <1>1, <2>3, FileSigns DEF managerVars, IInv
    <3>2. check.file <= f /\ check.file \in Nat /\ f \in Nat
      BY <2>1, <3>1 DEF IInv, Managing, Shapes, Ahead, FilesAhead, Stages
    <3>3. check.file # f \/ Style[m] = "flock"
      BY <1>3, <3>1 DEF Locked, Holders
    <3> QED
      BY <3>2, <3>3
  <2>4. Ahead'
    BY <2>2, <2>3 DEF Ahead, FilesAhead, ProcessesAhead
  <2>5. Answered'
    BY <1>1, <2>2 DEF IInv, Answered, QuietWhenIdle, managerVars
  <2> QED
    BY <2>2, <2>4, <2>5 DEF IInv
<1> QED
  BY <1>2, <1>3 DEF ReadLocks, ProbeRefused

LEMMA ProcessLooks ==
    ASSUME IInv,
           FilesDone \/ ListProcesses \/ NoneRunning \/ \E m \in Managers : ReadComm(m)
    PROVE  IInv'
<1> USE PackageAssumption, ConstantShapes
<1>1. UNCHANGED managerVars
  BY DEF FilesDone, ListProcesses, NoneRunning, ReadComm
<1>2. CASE FilesDone
  <2>1. check.at = "file" /\ check.file \notin LockFiles
        /\ check' = [check EXCEPT !.at = "list"]
    BY <1>2 DEF FilesDone, LookAt
  <2>2. /\ check'.at = "list" /\ check'.active = check.active
        /\ Managing'
    BY <1>1, <2>1, Looking DEF IInv, Managing, Shapes, Stages
  <2>3. \A m \in Managers, f \in LockFiles : <<m, f>> \notin throughout
    <3> SUFFICES ASSUME NEW m \in Managers, NEW f \in LockFiles, <<m, f>> \in throughout
                 PROVE  FALSE
      OBVIOUS
    <3>1. check.file \in Nat \ {0}
      BY DEF IInv, Managing, Shapes
    <3>2. f \in Nat /\ f < check.file
      BY <2>1, <3>1
    <3>3. check.file <= f
      BY <2>1 DEF IInv, Ahead, FilesAhead, Stages
    <3> HIDE PackageAssumption
    <3> QED
      BY <3>1, <3>2, <3>3
  <2> QED
    BY <1>1, <2>2, <2>3 DEF IInv, Ahead, FilesAhead, ProcessesAhead, Answered,
                            QuietWhenIdle, managerVars
<1>3. CASE ListProcesses
  <2>1. check.at = "list" /\ check' = [check EXCEPT !.at = "procs", !.todo = running]
    BY <1>3 DEF ListProcesses
  <2>2. /\ check'.at = "procs" /\ check'.active = check.active /\ check'.todo = running
        /\ Managing'
    BY <1>1, <2>1, Looking DEF IInv, Managing, Shapes, Stages
  <2>3. \A m \in Managers, f \in LockFiles : <<m, f>> \notin throughout
    BY <2>1 DEF IInv, Ahead, FilesAhead, Stages
  <2>4. \A m \in Managers : <<m, NoLock>> \in throughout => m \in running
    BY ProcessSigns DEF IInv
  <2> QED
    BY <1>1, <2>2, <2>3, <2>4 DEF IInv, Ahead, FilesAhead, ProcessesAhead, Answered,
                                  QuietWhenIdle, managerVars
<1>4. CASE NoneRunning
  <2>1. check.at = "procs" /\ check.todo = {}
        /\ check' = [check EXCEPT !.at = "done", !.active = FALSE]
    BY <1>4 DEF NoneRunning, Answer
  <2>2. /\ check'.at = "done" /\ check'.active = FALSE
        /\ Managing'
    BY <1>1, <2>1, Looking DEF IInv, Managing, Shapes, Stages
  <2>3. \A m \in Managers, f \in LockFiles : <<m, f>> \notin throughout
    BY <2>1 DEF IInv, Ahead, FilesAhead, Stages
  <2>4. \A m \in Managers : <<m, NoLock>> \notin throughout
    BY <2>1 DEF IInv, Ahead, ProcessesAhead
  <2>5. throughout = {}
    BY <2>3, <2>4, SignShapes DEF IInv, Managing, Witnessed
  <2> QED
    BY <1>1, <2>2, <2>5 DEF IInv, Ahead, FilesAhead, ProcessesAhead, Answered,
                            QuietWhenIdle, managerVars
<1>5. ASSUME NEW m \in Managers, ReadComm(m)
      PROVE  IInv'
  <2>1. CASE m \in running \cap Installers
    BY <1>1, <1>5, <2>1, AnsweredYes DEF ReadComm
  <2>2. CASE m \notin running \cap Installers
    <3>1. check.at = "procs" /\ check' = [check EXCEPT !.todo = @ \ {m}]
      BY <1>5, <2>2 DEF ReadComm
    <3>2. /\ check'.at = "procs" /\ check'.active = check.active
          /\ check'.todo = check.todo \ {m}
          /\ Managing'
      BY <1>1, <3>1, Looking DEF IInv, Managing, Shapes, Stages
    <3>3. \A n \in Managers, f \in LockFiles : <<n, f>> \notin throughout
      BY <3>1 DEF IInv, Ahead, FilesAhead, Stages
    <3>4. \A n \in Managers : <<n, NoLock>> \in throughout => n \in check.todo \ {m}
      BY <2>2, <3>1, ProcessSigns DEF IInv, Ahead, ProcessesAhead
    <3> QED
      BY <1>1, <3>2, <3>3, <3>4 DEF IInv, Ahead, FilesAhead, ProcessesAhead, Answered,
                                    QuietWhenIdle, managerVars
  <2> QED
    BY <2>1, <2>2
<1> QED
  BY <1>2, <1>3, <1>4, <1>5

-----------------------------------------------------------------------------
LEMMA InitKeeps ==
    ASSUME Init
    PROVE  IInv
BY PackageAssumption, ConstantShapes
   DEF Init, PackageInit, NoCheck, IInv, Managing, Shapes, Stages, LocksHeld, Witnessed,
       Ahead, FilesAhead, ProcessesAhead, Answered, QuietWhenIdle

(* Everything that touches neither the managers nor the check.             *)
LEMMA ElsewhereKeeps ==
    ASSUME IInv, UNCHANGED packageVars
    PROVE  IInv'
BY DEF packageVars, managerVars, checkVars, IInv, Managing, Shapes, LocksHeld, Witnessed,
       Signs, Visible, Ahead, FilesAhead, ProcessesAhead, Answered, QuietWhenIdle

LEMMA HandledKeeps ==
    ASSUME IInv, EventHandled
    PROVE  IInv'
<1>1. check' = NoCheck /\ UNCHANGED managerVars
  BY DEF EventHandled
<1>2. Managing' /\ check'.at = "none" /\ check'.active = FALSE
  BY <1>1, Looking DEF IInv, NoCheck, Stages
<1> QED
  BY <1>2 DEF IInv, Ahead, FilesAhead, ProcessesAhead, Answered, QuietWhenIdle

LEMMA StepKeeps ==
    ASSUME IInv, [Next]_vars
    PROVE  IInv'
<1>1. CASE PackageManagers
  BY <1>1, ManagersKeep DEF PackageManagers
<1>2. CASE HandleEvent
  BY <1>2, BeginKeeps DEF HandleEvent
<1>3. CASE CheckPackages
  BY <1>3, FileLooks, LocksLooks, ProcessLooks DEF CheckPackages, CheckStep
<1>4. CASE EventHandled
  BY <1>4, HandledKeeps
<1>5. CASE Sessions \/ Clock \/ AskContext \/ ReadSources \/ ContextKnown \/ TickEnds
  BY <1>5, ElsewhereKeeps DEF Sessions, Clock, AskContext, ReadSources, ContextKnown, TickEnds
<1>6. CASE UNCHANGED vars
  BY <1>6, ElsewhereKeeps DEF vars
<1> QED
  BY <1>1, <1>2, <1>3, <1>4, <1>5, <1>6 DEF Next

(* A check that finds nobody has overlooked no lock it can see and no      *)
(* process with a name it knows that were there from its first look to its *)
(* last, whichever way others came and went in between.                    *)
THEOREM NobodyOverlooked == Spec => []QuietWhenIdle
<1>1. Init => IInv
  BY InitKeeps
<1>2. IInv /\ [Next]_vars => IInv'
  BY StepKeeps
<1>3. IInv => QuietWhenIdle
  BY DEF IInv, Answered
<1> QED
  BY <1>1, <1>2, <1>3, PTL DEF Spec

(* A check that finds someone at work is right that a package manager ran  *)
(* at some time during it.                                                 *)
THEOREM NobodyImagined == Spec => []ActiveWhenSeen
<1>1. Init => IInv
  BY InitKeeps
<1>2. IInv /\ [Next]_vars => IInv'
  BY StepKeeps
<1>3. IInv => ActiveWhenSeen
  BY DEF IInv, Answered, ActiveWhenSeen
<1> QED
  BY <1>1, <1>2, <1>3, PTL DEF Spec

-----------------------------------------------------------------------------
(* The sessions.  What a reading has found, what the cache keeps and what  *)
(* the tick was told are answers as of some time, and stay so whoever      *)
(* comes and goes: a name in the answer was shown at that time or later,   *)
(* and who is missing from it came, or came back, at that time or later.   *)

ShownSince(n, since) == \E t \in shown[n] : since <= t
Seen(names, since) == \A n \in names : ShownSince(n, since)
Covers(names, since) ==
    \A p \in Procs : environ[p] # Nobody /\ held[p] < since => environ[p] \in names
NoneOpen(tables, since) ==
    \A c \in open : c.table \in tables /\ IsSshSession(c) => since <= opened[c]
Answers(names, since) ==
    /\ Seen(names, since)
    /\ Covers(names, since)
    /\ names = {} => NoneOpen({4, 6}, since)

(* The part of the loop over /proc that is done.                           *)
CoversRead ==
    \A p \in Procs :
        p < inspect.proc /\ environ[p] # Nobody /\ held[p] < asked
            => environ[p] \in inspect.found

SessionShapes ==
    /\ SessionTypeOK
    /\ phase \in {"sleep", "ask", "drain", "check"}
    /\ phase = "ask" <=> inspect.at # "idle"
    /\ asked <= now
    /\ refreshed = {} \/ \E t \in 0 .. MaxTime : t <= now /\ refreshed = {t}
    /\ \A n \in NamesIn(environ, open) : shown[n] = {now}

ReadingInv ==
    /\ inspect.at = "environ" => Seen(inspect.found, asked) /\ CoversRead
    /\ inspect.at = "tcp" => Covers({}, asked)
    /\ inspect.at = "tcp6" => Covers({}, asked) /\ NoneOpen({4}, asked)
    /\ inspect.at = "found" => Answers(inspect.found, asked)
CacheInv == \A t \in refreshed : Answers(sessions, t)
ContextInv ==
    phase # "ask" =>
        \E since \in 0 .. asked : asked < since + Ttl /\ Answers(context, since)

SInv == SessionShapes /\ ReadingInv /\ CacheInv /\ ContextInv

-----------------------------------------------------------------------------
LEMMA NameShapes ==
    ASSUME SessionTypeOK
    PROVE  /\ \A p \in Procs : environ[p] # Nobody =>
                 environ[p] \in Names /\ environ[p] \in NamesIn(environ, open)
           /\ \A c \in open : c.peer \in Names
           /\ \A c \in open : IsSshSession(c) => c.peer \in NamesIn(environ, open)
BY DEF SessionTypeOK, Names, NamesIn

(* What the world may do to what a reading goes by.                        *)
LEMMA WorldMoves ==
    ASSUME SessionShapes,
           \/ SessionsChange /\ UNCHANGED <<cacheVars, phase>>
           \/ Elapse /\ UNCHANGED <<cacheVars, phase>>
    PROVE  /\ SessionShapes'
           /\ \A n \in Names, s \in Nat : s <= now /\ ShownSince(n, s) =>
                 \E t \in shown'[n] : s <= t
           /\ \A p \in Procs :
                 \/ environ'[p] = environ[p] /\ held'[p] = held[p]
                 \/ held'[p] = now
           /\ \A c \in open' :
                 \/ c \in open /\ opened'[c] = opened[c]
                 \/ opened'[c] = now
<1> USE SessionAssumption
<1>1. /\ now \in 0 .. MaxTime /\ asked \in 0 .. MaxTime /\ asked <= now
      /\ environ \in [Procs -> Origins \cup {Nobody}]
      /\ held \in [Procs -> 0 .. MaxTime] /\ opened \in [Connections -> 0 .. MaxTime]
      /\ open \subseteq Connections
      /\ \A n \in Names : shown[n] \subseteq 0 .. MaxTime
      /\ \A n \in NamesIn(environ, open) : shown[n] = {now}
  BY DEF SessionShapes, SessionTypeOK
<1>2. ASSUME NEW p \in Procs, NEW who \in Origins \cup {Nobody}, SetEnviron(p, who)
      PROVE  /\ now' = now /\ open' = open /\ opened' = opened
             /\ environ' \in [Procs -> Origins \cup {Nobody}]
             /\ held' \in [Procs -> 0 .. MaxTime]
             /\ \A q \in Procs : \/ environ'[q] = environ[q] /\ held'[q] = held[q]
                                 \/ held'[q] = now
             /\ \A n \in Names : shown'[n] = {now} \/ shown'[n] = shown[n]
             /\ \A n \in Names \cap NamesIn(environ', open') : shown'[n] = {now}
  BY <1>1, <1>2 DEF SetEnviron, Note
<1>3. ASSUME NEW c \in Connections, Connect(c) \/ Disconnect(c)
      PROVE  /\ now' = now /\ environ' = environ /\ held' = held
             /\ open' \subseteq Connections
             /\ opened' \in [Connections -> 0 .. MaxTime]
             /\ \A d \in open' : \/ d \in open /\ opened'[d] = opened[d]
                                 \/ opened'[d] = now
             /\ \A n \in Names : shown'[n] = {now} \/ shown'[n] = shown[n]
             /\ \A n \in Names \cap NamesIn(environ', open') : shown'[n] = {now}
  <2>1. CASE Connect(c)
    BY <1>1, <2>1 DEF Connect, Note
  <2>2. CASE Disconnect(c)
    <3>1. NamesIn(environ, open \ {c}) \subseteq NamesIn(environ, open)
      BY DEF NamesIn
    <3>2. /\ now' = now /\ environ' = environ /\ held' = held /\ open' = open \ {c}
          /\ opened' = [opened EXCEPT ![c] = now]
          /\ shown' = [n \in Names |-> IF n \in NamesIn(environ, open)
                                          THEN {now} ELSE shown[n]]
      BY <2>2 DEF Disconnect, Note
    <3>3. \A n \in Names \cap NamesIn(environ', open') : shown'[n] = {now}
      BY <3>1, <3>2
    <3> QED
      BY <1>1, <3>2, <3>3
  <2> QED
    BY <1>3, <2>1, <2>2
<1>4. ASSUME Elapse
      PROVE  /\ now' = now + 1 /\ now' \in 0 .. MaxTime
             /\ environ' = environ /\ held' = held /\ open' = open /\ opened' = opened
             /\ \A n \in Names : shown'[n] = {now'} \/ shown'[n] = shown[n]
             /\ \A n \in Names \cap NamesIn(environ', open') : shown'[n] = {now'}
  BY <1>1, <1>4 DEF Elapse, sourceVars
<1>5. /\ now <= now' /\ now' \in 0 .. MaxTime
      /\ environ' \in [Procs -> Origins \cup {Nobody}]
      /\ held' \in [Procs -> 0 .. MaxTime]
      /\ open' \subseteq Connections
      /\ opened' \in [Connections -> 0 .. MaxTime]
      /\ \A n \in Names : shown'[n] = {now'} \/ shown'[n] = shown[n]
      /\ \A n \in Names \cap NamesIn(environ', open') : shown'[n] = {now'}
      /\ \A q \in Procs : \/ environ'[q] = environ[q] /\ held'[q] = held[q]
                          \/ held'[q] = now
      /\ \A d \in open' : \/ d \in open /\ opened'[d] = opened[d]
                          \/ opened'[d] = now
  <2>1. CASE SessionsChange
    BY <1>1, <1>2, <1>3, <2>1 DEF SessionsChange
  <2>2. CASE Elapse
    BY <1>1, <1>4, <2>2
  <2> QED
    BY <2>1, <2>2
<1>6. UNCHANGED <<sessions, refreshed, inspect, context, asked, phase>>
  BY DEF cacheVars
<1>7. NamesIn(environ', open') \subseteq Names
  BY <1>5 DEF NamesIn, Names
<1>8. \A n \in Names : shown'[n] \subseteq 0 .. MaxTime
  BY <1>1, <1>5
<1>9. SessionTypeOK'
  BY <1>5, <1>6, <1>8 DEF SessionShapes, SessionTypeOK
<1>10. SessionShapes'
  <2>1. \A t \in 0 .. MaxTime : t <= now => t <= now'
    BY <1>1, <1>5
  <2> QED
    BY <1>1, <1>5, <1>6, <1>7, <1>9, <2>1 DEF SessionShapes
<1>11. \A n \in Names, s \in Nat : s <= now /\ ShownSince(n, s) =>
          \E t \in shown'[n] : s <= t
  BY <1>1, <1>5 DEF ShownSince
<1> QED
  BY <1>5, <1>10, <1>11

(* So an answer as of some time stays one.                                 *)
LEMMA WorldKeeps ==
    ASSUME SInv,
           \/ SessionsChange /\ UNCHANGED <<cacheVars, phase>>
           \/ Elapse /\ UNCHANGED <<cacheVars, phase>>
    PROVE  SInv'
<1> USE SessionAssumption
<1>1. /\ SessionShapes /\ SessionShapes'
      /\ \A n \in Names, s \in Nat : s <= now /\ ShownSince(n, s) =>
            \E t \in shown'[n] : s <= t
      /\ \A p \in Procs :
            \/ environ'[p] = environ[p] /\ held'[p] = held[p]
            \/ held'[p] = now
      /\ \A c \in open' :
            \/ c \in open /\ opened'[c] = opened[c]
            \/ opened'[c] = now
  BY WorldMoves DEF SInv
<1>2. UNCHANGED <<sessions, refreshed, inspect, context, asked, phase>>
  BY DEF cacheVars
<1>3. /\ now \in Nat /\ asked \in Nat /\ asked <= now
      /\ refreshed \subseteq 0 .. now
      /\ sessions \subseteq Names /\ context \subseteq Names
      /\ inspect.found \subseteq Names
      /\ held \in [Procs -> Nat] /\ opened \in [Connections -> Nat]
      /\ open \subseteq Connections
  <2>1. held \in [Procs -> Nat] /\ opened \in [Connections -> Nat]
    BY <1>1 DEF SessionShapes, SessionTypeOK
  <2> QED
    BY <1>1, <2>1 DEF SessionShapes, SessionTypeOK
<1>4. ASSUME NEW names \in SUBSET Names, NEW s \in Nat, s <= now, Seen(names, s)
      PROVE  \A n \in names : \E t \in shown'[n] : s <= t
  BY <1>1, <1>4 DEF Seen
<1>5. ASSUME NEW names \in SUBSET Names, NEW s \in Nat, s <= now, Covers(names, s)
      PROVE  \A p \in Procs : environ'[p] # Nobody /\ held'[p] < s => environ'[p] \in names
  BY <1>1, <1>3, <1>5 DEF Covers
<1>6. ASSUME NEW tables, NEW s \in Nat, s <= now, NoneOpen(tables, s)
      PROVE  \A c \in open' : c.table \in tables /\ IsSshSession(c) => s <= opened'[c]
  BY <1>1, <1>3, <1>6 DEF NoneOpen
<1>7. ASSUME NEW names \in SUBSET Names, NEW s \in Nat, s <= now, Answers(names, s)
      PROVE  /\ \A n \in names : \E t \in shown'[n] : s <= t
             /\ \A p \in Procs : environ'[p] # Nobody /\ held'[p] < s
                                     => environ'[p] \in names
             /\ names = {} => \A c \in open' :
                    c.table \in {4, 6} /\ IsSshSession(c) => s <= opened'[c]
  BY <1>4, <1>5, <1>6, <1>7 DEF Answers
<1>8. ReadingInv'
  <2>1. CASE inspect.at = "environ"
    <3>1. \A n \in inspect.found : \E t \in shown'[n] : asked <= t
      BY <1>3, <1>4, <2>1 DEF SInv, ReadingInv
    <3>2. \A p \in Procs :
             p < inspect.proc /\ environ'[p] # Nobody /\ held'[p] < asked
                 => environ'[p] \in inspect.found
      BY <1>1, <1>3, <2>1 DEF SInv, ReadingInv, CoversRead
    <3> QED
      BY <1>2, <2>1, <3>1, <3>2 DEF ReadingInv, Seen, ShownSince, CoversRead
  <2>2. CASE inspect.at \in {"tcp", "tcp6"}
    <3>1. \A p \in Procs : environ'[p] # Nobody /\ held'[p] < asked => environ'[p] \in {}
      BY <1>3, <1>5, <2>2 DEF SInv, ReadingInv
    <3>2. CASE inspect.at = "tcp"
      BY <1>2, <3>1, <3>2 DEF ReadingInv, Covers
    <3>3. CASE inspect.at = "tcp6"
      <4>1. \A c \in open' : c.table \in {4} /\ IsSshSession(c) => asked <= opened'[c]
        BY <1>3, <1>6, <3>3 DEF SInv, ReadingInv
      <4> QED
        BY <1>2, <3>1, <3>3, <4>1 DEF ReadingInv, Covers, NoneOpen
    <3> QED
      BY <2>2, <3>2, <3>3
  <2>3. CASE inspect.at = "found"
    BY <1>2, <1>3, <1>7, <2>3 DEF SInv, ReadingInv, Answers, Seen, ShownSince, Covers, NoneOpen
  <2>4. CASE inspect.at \notin {"environ", "tcp", "tcp6", "found"}
    BY <1>2, <2>4 DEF ReadingInv
  <2> QED
    BY <2>1, <2>2, <2>3, <2>4
<1>9. CacheInv'
  <2>1. ASSUME NEW t \in refreshed
        PROVE  t \in Nat /\ t <= now /\ Answers(sessions, t)
    <3>1. Answers(sessions, t)
      BY DEF SInv, CacheInv
    <3>2. t \in 0 .. now
      BY <1>3
    <3> QED
      BY <1>3, <3>1, <3>2
  <2> QED
    BY <1>2, <1>3, <1>7, <2>1 DEF CacheInv, Answers, Seen, ShownSince, Covers, NoneOpen
<1>10. ContextInv'
  <2> SUFFICES ASSUME phase # "ask"
               PROVE  \E since \in 0 .. asked :
                          asked < since + Ttl /\ Answers(context, since)'
    BY <1>2 DEF ContextInv, Answers, Seen, ShownSince, Covers, NoneOpen
  <2>1. PICK since \in 0 .. asked : asked < since + Ttl /\ Answers(context, since)
    BY DEF SInv, ContextInv
  <2>2. since \in Nat /\ since <= now
    BY <1>3
  <2>3. Answers(context, since)'
    BY <1>2, <1>3, <1>7, <2>1, <2>2 DEF Answers, Seen, ShownSince, Covers, NoneOpen
  <2> QED
    BY <2>1, <2>3
<1> QED
  BY <1>1, <1>8, <1>9, <1>10 DEF SInv

-----------------------------------------------------------------------------
(* The cache *)

LEMMA SessionInitKeeps ==
    ASSUME Init
    PROVE  SInv
<1> USE SessionAssumption
<1>1. /\ now = 0 /\ asked = 0 /\ context = {} /\ refreshed = {} /\ sessions = {}
      /\ environ = [p \in Procs |-> Nobody] /\ open = {} /\ inspect = Idle
      /\ held = [p \in Procs |-> 0] /\ opened = [c \in Connections |-> 0]
      /\ shown = [n \in Names |-> {}] /\ phase = "sleep"
  BY DEF Init, SessionInit
<1>2. SessionTypeOK
  BY <1>1, FS_EmptySet DEF SessionTypeOK, Idle
<1>3. NamesIn(environ, open) = {}
  BY <1>1 DEF NamesIn, Procs
<1>4. Answers({}, 0)
  BY <1>1 DEF Answers, Seen, Covers, NoneOpen
<1>5. ContextInv
  BY <1>1, <1>4 DEF ContextInv
<1> QED
  BY <1>1, <1>2, <1>3, <1>5 DEF SInv, SessionShapes, ReadingInv, CacheInv, Idle

(* A fresh answer is as old as the time of its question; one from the      *)
(* cache is younger than a time to live.                                   *)
LEMMA AskKeeps ==
    ASSUME SInv, AskContext
    PROVE  SInv'
<1> USE SessionAssumption
<1>1. /\ UNCHANGED <<now, environ, open, held, opened, shown, sessions, refreshed>>
      /\ phase = "sleep" /\ inspect.at = "idle" /\ asked' = now
  BY DEF AskContext, Loop, AskCached, AskStale, sourceVars
<1>2. /\ SessionShapes /\ SessionTypeOK /\ CacheInv
      /\ now \in 0 .. MaxTime
  BY DEF SInv, SessionShapes, SessionTypeOK
<1>3. CacheInv'
  BY <1>1, <1>2 DEF CacheInv, Answers, Seen, ShownSince, Covers, NoneOpen
<1>4. CASE AskCached /\ Loop("sleep", "drain")
  <2>1. ~Stale /\ context' = sessions /\ inspect' = inspect /\ phase' = "drain"
    BY <1>4 DEF AskCached, Loop
  <2>2. PICK t \in 0 .. MaxTime : t <= now /\ refreshed = {t}
    BY <1>2, <2>1 DEF SessionShapes, Stale
  <2>3. now < t + Ttl /\ Answers(sessions, t)
    <3>1. ~(now - t >= Ttl)
      BY <2>1, <2>2 DEF Stale
    <3>2. now < t + Ttl
      BY <1>2, <2>2, <3>1
    <3> QED
      BY <1>2, <2>2, <3>2 DEF CacheInv
  <2>4. SessionShapes'
    BY <1>1, <1>2, <2>1 DEF SessionShapes, SessionTypeOK, NamesIn
  <2>5. Answers(context, t)'
    BY <1>1, <2>1, <2>3 DEF Answers, Seen, ShownSince, Covers, NoneOpen
  <2>6. t \in 0 .. asked' /\ asked' < t + Ttl
    BY <1>1, <1>2, <2>2, <2>3
  <2> QED
    BY <1>1, <1>3, <2>1, <2>4, <2>5, <2>6 DEF SInv, ReadingInv, ContextInv
<1>5. CASE AskStale /\ Loop("sleep", "ask")
  <2>1. /\ inspect' = [at |-> "environ", proc |-> 1, found |-> {}]
        /\ context' = context /\ phase' = "ask"
    BY <1>5 DEF AskStale, Loop, Idle
  <2>2. SessionShapes'
    BY <1>1, <1>2, <2>1 DEF SessionShapes, SessionTypeOK, NamesIn
  <2> QED
    BY <1>1, <1>3, <2>1, <2>2
       DEF SInv, ReadingInv, ContextInv, Seen, CoversRead, Procs
<1> QED
  BY <1>4, <1>5 DEF AskContext

(* Who is named while the reading passes is in what it finds; who is not   *)
(* found was not there, or came after the question.                        *)
LEMMA ReadKeeps ==
    ASSUME SInv, ReadSources
    PROVE  SInv'
<1> USE SessionAssumption
<1>1. /\ UNCHANGED <<now, environ, open, held, opened, shown, sessions, refreshed,
                     context, asked, phase>>
      /\ phase = "ask"
  BY DEF ReadSources, Loop, ReadEnviron, EnvironRead, ReadTcp, ReadTcp6, sourceVars
<1>2. /\ SessionShapes /\ SessionTypeOK /\ CacheInv /\ ReadingInv
      /\ now \in 0 .. MaxTime /\ asked \in 0 .. MaxTime /\ asked <= now
      /\ environ \in [Procs -> Origins \cup {Nobody}]
      /\ open \subseteq Connections /\ inspect.at # "idle"
      /\ inspect \in [at : {"idle", "environ", "tcp", "tcp6", "found"},
                      proc : 1 .. NumProcs + 1, found : SUBSET Names]
      /\ \A n \in NamesIn(environ, open) : shown[n] = {now}
      /\ held \in [Procs -> Nat] /\ opened \in [Connections -> Nat]
  <2>1. held \in [Procs -> Nat] /\ opened \in [Connections -> Nat]
    BY DEF SInv, SessionShapes, SessionTypeOK
  <2> QED
    BY <1>1, <2>1 DEF SInv, SessionShapes, SessionTypeOK
<1>3. CacheInv'
  BY <1>1, <1>2 DEF CacheInv, Answers, Seen, ShownSince, Covers, NoneOpen
<1>4. /\ \A n \in NamesIn(environ, open) : ShownSince(n, asked)
      /\ \A table : Peers(table) \subseteq Names \cap NamesIn(environ, open)
  BY <1>2, NameShapes DEF ShownSince, Peers
<1>5. ASSUME inspect' \in [at : {"environ", "tcp", "tcp6", "found"},
                           proc : 1 .. NumProcs + 1, found : SUBSET Names]
      PROVE  SessionShapes' /\ ContextInv'
  BY <1>1, <1>2, <1>5 DEF SessionShapes, SessionTypeOK, NamesIn, ContextInv
<1>6. CASE ReadEnviron
  <2> DEFINE p == inspect.proc
             read == {environ[p]} \ {Nobody}
  <2>1. /\ inspect.at = "environ" /\ p \in Procs
        /\ inspect' = [inspect EXCEPT !.proc = p + 1, !.found = inspect.found \cup read]
    BY <1>6 DEF ReadEnviron
  <2>2. read \subseteq Names \cap NamesIn(environ, open)
    BY <1>2, <2>1, NameShapes
  <2>3. /\ inspect'.at = "environ" /\ inspect'.proc = p + 1
        /\ inspect'.found = inspect.found \cup read
        /\ inspect' \in [at : {"environ", "tcp", "tcp6", "found"},
                         proc : 1 .. NumProcs + 1, found : SUBSET Names]
    <3>1. p + 1 \in 1 .. NumProcs + 1
      BY <2>1 DEF Procs
    <3> HIDE DEF p, read
    <3> QED
      BY <1>2, <2>1, <2>2, <3>1
  <2>4. Seen(inspect.found, asked) /\ CoversRead
    BY <1>2, <2>1 DEF ReadingInv
  <2>5. \A n \in inspect.found \cup read : ShownSince(n, asked)
    BY <1>4, <2>2, <2>4 DEF Seen
  <2>6. \A q \in Procs : q < p + 1 /\ environ[q] # Nobody /\ held[q] < asked
                            => environ[q] \in inspect.found \cup read
    <3>1. \A q \in Procs : q < p + 1 => q < p \/ q = p
      BY <2>1 DEF Procs
    <3> QED
      BY <2>4, <3>1 DEF CoversRead
  <2>7. ReadingInv'
    BY <1>1, <2>3, <2>5, <2>6 DEF ReadingInv, Seen, ShownSince, CoversRead
  <2> QED
    BY <1>3, <1>5, <2>3, <2>7 DEF SInv
<1>7. CASE EnvironRead
  <2>1. /\ inspect.at = "environ" /\ inspect.proc \notin Procs
        /\ inspect'.found = inspect.found
        /\ inspect'.at = IF inspect.found = {} THEN "tcp" ELSE "found"
        /\ inspect' \in [at : {"environ", "tcp", "tcp6", "found"},
                         proc : 1 .. NumProcs + 1, found : SUBSET Names]
    BY <1>2, <1>7 DEF EnvironRead
  <2>2. Seen(inspect.found, asked) /\ CoversRead
    BY <1>2, <2>1 DEF ReadingInv
  <2>3. Covers(inspect.found, asked)
    <3>1. \A q \in Procs : q < inspect.proc
      BY <1>2, <2>1 DEF Procs
    <3> QED
      BY <2>2, <3>1 DEF CoversRead, Covers
  <2>4. ASSUME inspect.found = {}
        PROVE  ReadingInv'
    BY <1>1, <2>1, <2>3, <2>4 DEF ReadingInv, Covers
  <2>5. ASSUME inspect.found # {}
        PROVE  ReadingInv'
    BY <1>1, <2>1, <2>2, <2>3, <2>5 DEF ReadingInv, Answers, Covers, Seen, ShownSince
  <2>6. ReadingInv'
    BY <2>4, <2>5
  <2> QED
    BY <1>3, <1>5, <2>1, <2>6 DEF SInv
<1>8. CASE ReadTcp
  <2>1. /\ inspect.at = "tcp"
        /\ inspect'.found = Peers(4)
        /\ inspect'.at = IF Peers(4) = {} THEN "tcp6" ELSE "found"
        /\ inspect' \in [at : {"environ", "tcp", "tcp6", "found"},
                         proc : 1 .. NumProcs + 1, found : SUBSET Names]
    BY <1>2, <1>4, <1>8 DEF ReadTcp
  <2>2. Covers({}, asked)
    BY <1>2, <2>1 DEF ReadingInv
  <2>3. ASSUME Peers(4) = {}
        PROVE  ReadingInv'
    <3>1. NoneOpen({4}, asked)
      BY <2>3 DEF Peers, NoneOpen
    <3> QED
      BY <1>1, <2>1, <2>2, <2>3, <3>1 DEF ReadingInv, Covers, NoneOpen
  <2>4. ASSUME Peers(4) # {}
        PROVE  ReadingInv'
    <3>1. Seen(Peers(4), asked)
      BY <1>4 DEF Seen
    <3>2. inspect'.at = "found" /\ inspect'.found # {}
      BY <2>1, <2>4
    <3> QED
      BY <1>1, <2>1, <2>2, <3>1, <3>2 DEF ReadingInv, Answers, Covers, Seen, ShownSince
  <2>5. ReadingInv'
    BY <2>3, <2>4
  <2> QED
    BY <1>3, <1>5, <2>1, <2>5 DEF SInv
<1>9. CASE ReadTcp6
  <2>1. /\ inspect.at = "tcp6"
        /\ inspect'.found = Peers(6) /\ inspect'.at = "found"
        /\ inspect' \in [at : {"environ", "tcp", "tcp6", "found"},
                         proc : 1 .. NumProcs + 1, found : SUBSET Names]
    BY <1>2, <1>4, <1>9 DEF ReadTcp6
  <2>2. Covers({}, asked) /\ NoneOpen({4}, asked)
    BY <1>2, <2>1 DEF ReadingInv
  <2>3. Seen(Peers(6), asked)
    BY <1>4 DEF Seen
  <2>4. Peers(6) = {} => NoneOpen({4, 6}, asked)
    BY <2>2 DEF Peers, NoneOpen
  <2>5. ReadingInv'
    BY <1>1, <2>1, <2>2, <2>3, <2>4
       DEF ReadingInv, Answers, Covers, Seen, ShownSince, NoneOpen
  <2> QED
    BY <1>3, <1>5, <2>1, <2>5 DEF SInv
<1> QED
  BY <1>6, <1>7, <1>8, <1>9 DEF ReadSources

LEMMA RefreshKeeps ==
    ASSUME SInv, ContextKnown
    PROVE  SInv'
<1> USE SessionAssumption
<1>1. /\ UNCHANGED <<now, environ, open, held, opened, shown, asked>>
      /\ phase' = "drain" /\ inspect' = Idle /\ inspect.at = "found"
      /\ sessions' = inspect.found /\ context' = inspect.found /\ refreshed' = {asked}
  BY DEF ContextKnown, Loop, Refresh, sourceVars
<1>2. /\ SessionShapes /\ SessionTypeOK
      /\ Answers(inspect.found, asked)
      /\ asked \in 0 .. MaxTime /\ asked <= now
  BY <1>1 DEF SInv, SessionShapes, SessionTypeOK, ReadingInv
<1>3. SessionShapes'
  <2>1. inspect'.at = "idle"
        /\ inspect' \in [at : {"idle", "environ", "tcp", "tcp6", "found"},
                         proc : 1 .. NumProcs + 1, found : SUBSET Names]
    BY <1>1 DEF Idle
  <2>2. Cardinality(refreshed') <= 1
    <3>1. Cardinality({asked}) = 1
      BY FS_Singleton, Zenon
    <3> QED
      BY <1>1, <3>1
  <2>3. inspect.found \subseteq Names
    BY <1>2 DEF SessionTypeOK
  <2>4. SessionTypeOK'
    BY <1>1, <1>2, <2>1, <2>2, <2>3 DEF SessionTypeOK
  <2> QED
    BY <1>1, <1>2, <2>1, <2>4 DEF SessionShapes, NamesIn
<1>4. \A names : Answers(names, asked) =>
         /\ \A n \in names : \E t \in shown'[n] : asked <= t
         /\ \A p \in Procs : environ'[p] # Nobody /\ held'[p] < asked
                                 => environ'[p] \in names
         /\ names = {} => \A c \in open' :
                c.table \in {4, 6} /\ IsSshSession(c) => asked <= opened'[c]
  BY <1>1 DEF Answers, Seen, ShownSince, Covers, NoneOpen
<1>5. CacheInv'
  BY <1>1, <1>2, <1>4 DEF CacheInv, Answers, Seen, ShownSince, Covers, NoneOpen
<1>6. Answers(context, asked)'
  BY <1>1, <1>2, <1>4 DEF Answers, Seen, ShownSince, Covers, NoneOpen
<1>7. asked' \in 0 .. asked' /\ asked' < asked' + Ttl
  BY <1>1, <1>2
<1>8. ContextInv'
  BY <1>6, <1>7 DEF ContextInv
<1> QED
  BY <1>1, <1>3, <1>5, <1>8 DEF SInv, ReadingInv, Idle

(* Everything else the loop does leaves the context as it is.              *)
LEMMA LoopKeeps ==
    ASSUME SInv,
           UNCHANGED <<now, environ, open, held, opened, shown, cacheVars>>,
           phase' \in {"sleep", "ask", "drain", "check"},
           phase' = "ask" <=> phase = "ask"
    PROVE  SInv'
<1>1. UNCHANGED <<sessions, refreshed, inspect, context, asked>>
  BY DEF cacheVars
<1>2. SessionShapes'
  BY <1>1 DEF SInv, SessionShapes, SessionTypeOK, NamesIn
<1>3. ReadingInv'
  BY <1>1 DEF SInv, ReadingInv, CoversRead, Answers, Seen, ShownSince, Covers, NoneOpen
<1>4. CacheInv' /\ ContextInv'
  BY <1>1 DEF SInv, CacheInv, ContextInv, Answers, Seen, ShownSince, Covers, NoneOpen
<1> QED
  BY <1>2, <1>3, <1>4 DEF SInv

LEMMA SessionStepKeeps ==
    ASSUME SInv, [Next]_vars
    PROVE  SInv'
<1>1. CASE Sessions \/ Clock
  BY <1>1, WorldKeeps DEF Sessions, Clock
<1>2. CASE AskContext \/ ReadSources \/ ContextKnown
  BY <1>2, AskKeeps, ReadKeeps, RefreshKeeps
<1>3. CASE PackageManagers \/ UNCHANGED vars
  <2>1. phase \in {"sleep", "ask", "drain", "check"}
    BY DEF SInv, SessionShapes
  <2> QED
    BY <1>3, <2>1, LoopKeeps DEF PackageManagers, sessionVars, sourceVars, vars
<1>4. CASE HandleEvent \/ CheckPackages \/ EventHandled \/ TickEnds
  BY <1>4, LoopKeeps
     DEF HandleEvent, CheckPackages, EventHandled, TickEnds, Loop, sourceVars
<1> QED
  BY <1>1, <1>2, <1>3, <1>4 DEF Next

(* Whoever the context of a tick names was logged in less than a time to   *)
(* live before the tick asked for it, although the answer may come from    *)
(* the cache and the sources are read while users come and go.             *)
THEOREM NobodyLongGone == Spec => []ContextRecent
<1>1. Init => SInv
  BY SessionInitKeeps
<1>2. SInv /\ [Next]_vars => SInv'
  BY SessionStepKeeps
<1>3. SInv => ContextRecent
  <2> SUFFICES ASSUME SInv, phase = "drain", NEW n \in context
               PROVE  \E t \in shown[n] : t + Ttl > asked
    BY DEF ContextRecent
  <2>1. PICK since \in 0 .. asked : asked < since + Ttl /\ Answers(context, since)
    BY DEF SInv, ContextInv
  <2>2. PICK t \in shown[n] : since <= t
    BY <2>1 DEF Answers, Seen, ShownSince
  <2>3. n \in Names /\ shown[n] \subseteq 0 .. MaxTime
    BY DEF SInv, SessionShapes, SessionTypeOK
  <2>4. asked \in Nat /\ t \in Nat
    BY <2>2, <2>3 DEF SInv, SessionShapes, SessionTypeOK
  <2>5. t + Ttl > asked
    BY <2>1, <2>2, <2>4, SessionAssumption
  <2> QED
    BY <2>2, <2>5
<1> QED
  BY <1>1, <1>2, <1>3, PTL DEF Spec

(* Whoever has been logged in for a whole time to live is named, and when  *)
(* nobody is named no SSH connection has been open that long: the cache    *)
(* and the order in which the sources are read hide no settled session.    *)
THEOREM NobodySettledMissing == Spec => []ContextComplete
<1>1. Init => SInv
  BY SessionInitKeeps
<1>2. SInv /\ [Next]_vars => SInv'
  BY SessionStepKeeps
<1>3. SInv => ContextComplete
  <2> SUFFICES ASSUME SInv, phase = "drain"
               PROVE  /\ \A p \in Procs : environ[p] # Nobody /\ Long(held[p])
                                              => environ[p] \in context
                      /\ context = {} =>
                            \A c \in open : ~(IsSshSession(c) /\ Long(opened[c]))
    BY DEF ContextComplete
  <2>1. PICK since \in 0 .. asked : asked < since + Ttl /\ Answers(context, since)
    BY DEF SInv, ContextInv
  <2>2. /\ asked \in Nat /\ Ttl \in Nat
        /\ \A p \in Procs : held[p] \in Nat
        /\ open \subseteq Connections
        /\ \A c \in Connections : opened[c] \in Nat /\ c.table \in {4, 6}
    BY SessionAssumption DEF SInv, SessionShapes, SessionTypeOK
  <2>3. \A s \in Nat : Long(s) => s < since
    BY <2>1, <2>2 DEF Long
  <2>4. \A p \in Procs : environ[p] # Nobody /\ Long(held[p]) => environ[p] \in context
    BY <2>1, <2>2, <2>3 DEF Answers, Covers
  <2>5. ASSUME context = {}, NEW c \in open, IsSshSession(c), Long(opened[c])
        PROVE  FALSE
    <3>1. since <= opened[c]
      BY <2>1, <2>2, <2>5 DEF Answers, NoneOpen
    <3>2. opened[c] < since
      BY <2>2, <2>3, <2>5
    <3> QED
      BY <2>1, <2>2, <3>1, <3>2
  <2> QED
    BY <2>4, <2>5
<1> QED
  BY <1>1, <1>2, <1>3, PTL DEF Spec

-----------------------------------------------------------------------------
(* The check stays among its files, which the probe alone touches.         *)
PackageShapes ==
    /\ PackageTypeOK
    /\ check.at \in {"locks", "open", "drop"} => check.file \in LockFiles

LEMMA PackageStepTypes ==
    ASSUME IInv, PackageShapes, [Next]_vars
    PROVE  PackageShapes'
<1> USE PackageAssumption, ConstantShapes
<1>1. IInv'
  BY StepKeeps
<1>2. /\ running' \subseteq Managers /\ lock' \in [Managers -> LockFiles \cup {NoLock}]
      /\ \A m \in Managers : lock'[m] # NoLock => m \in running'
      /\ check' \in [at : Stages, file : Nat \ {0}, todo : SUBSET Managers,
                     active : BOOLEAN]
      /\ throughout' \subseteq Signs'
  BY <1>1 DEF IInv, Managing, Shapes, LocksHeld, Witnessed
<1>3. Signs' \subseteq Managers \X (LockFiles \cup {NoLock})
  BY <1>2 DEF Signs
<1>4. ASSUME exists' \subseteq LockFiles, readable' \in BOOLEAN,
             glimpsed' \subseteq Managers, probe' \in LockFiles \cup {NoLock},
             check'.file \in 1 .. NumFiles + 1,
             check'.at \in {"locks", "open", "drop"} => check'.file \in LockFiles
      PROVE  PackageShapes'
  BY <1>2, <1>3, <1>4 DEF PackageShapes, PackageTypeOK, Stages
<1>5. CASE PackageManagers
  <2>1. UNCHANGED <<probe, check, readable>> /\ exists' \subseteq LockFiles
        /\ glimpsed' \subseteq Managers
    BY <1>2, <1>5 DEF PackageManagers, checkVars, ManagersChange, StartManager, AcquireLock,
                ReleaseLock, ExitManager, Witness, PackageShapes, PackageTypeOK
  <2> QED
    BY <1>4, <2>1 DEF PackageShapes, PackageTypeOK
<1>6. CASE HandleEvent
  BY <1>2, <1>4, <1>6 DEF HandleEvent, BeginCheck, NoCheck, PackageShapes, PackageTypeOK
<1>7. CASE CheckPackages
  <2>1. CheckStep /\ UNCHANGED managerVars
    BY <1>7 DEF CheckPackages, CheckStep, FileMissing, FileExists, ReadLocks, ProbeFails,
                ProbeRefused, ProbeTaken, ProbeDropped, FilesDone, ListProcesses,
                NoneRunning, ReadComm
  <2>2. check \in [at : Stages, file : Nat \ {0}, todo : SUBSET Managers, active : BOOLEAN]
    BY DEF IInv, Managing, Shapes
  <2>3. /\ probe' \in LockFiles \cup {NoLock} /\ check'.file \in 1 .. NumFiles + 1
        /\ check'.at \in {"locks", "open", "drop"} => check'.file \in LockFiles
    <3>1. CASE NextFile /\ check.file \in LockFiles /\ probe' \in {probe, NoLock}
      BY <2>2, <3>1 DEF NextFile, PackageShapes, PackageTypeOK, LockFiles
    <3>2. CASE /\ check'.file = check.file /\ probe' \in LockFiles \cup {probe}
               /\ check'.at \in {"locks", "open", "drop"} => check.file \in LockFiles
      BY <3>2 DEF PackageShapes, PackageTypeOK
    <3>3. CASE FileMissing \/ ProbeFails \/ ProbeDropped
      BY <3>1, <3>3 DEF FileMissing, ProbeFails, ProbeDropped, PackageShapes
    <3>4. CASE FileExists \/ ProbeTaken \/ FilesDone
      BY <2>2, <3>2, <3>4 DEF FileExists, ProbeTaken, FilesDone, LookAt, PackageShapes
    <3>5. CASE ReadLocks \/ ProbeRefused \/ NoneRunning
      <4>1. /\ probe' = probe /\ check'.file = check.file
            /\ check'.at = "done" \/ (check'.at = "open" /\ check.at = "locks")
        BY ZenonT(60), <2>2, <3>5 DEF ReadLocks, ProbeRefused, NoneRunning, LookAt, Answer
      <4> QED
        BY <3>2, <4>1 DEF PackageShapes
    <3>6. CASE ListProcesses \/ \E m \in Managers : ReadComm(m)
      <4>1. probe' = probe /\ check'.file = check.file /\ check'.at \in {"procs", "done"}
        <5>1. CASE ListProcesses
          BY <2>2, <5>1 DEF ListProcesses
        <5>2. ASSUME NEW m \in Managers, ReadComm(m)
              PROVE  /\ probe' = probe /\ check'.file = check.file
                     /\ check'.at \in {"procs", "done"}
          <6>1. CASE Answer(TRUE)
            BY <2>2, <5>2, <6>1 DEF ReadComm, Answer
          <6>2. CASE check' = [check EXCEPT !.todo = @ \ {m}]
            <7>1. check.at = "procs" /\ probe' = probe
              BY <5>2 DEF ReadComm
            <7> QED
              BY <2>2, <6>2, <7>1
          <6> QED
            BY <5>2, <6>1, <6>2 DEF ReadComm
        <5> QED
          BY <3>6, <5>1, <5>2
      <4> QED
        BY <3>2, <4>1
    <3> QED
      BY <2>1, <3>3, <3>4, <3>5, <3>6 DEF CheckStep
  <2> QED
    BY <1>4, <2>1, <2>3 DEF managerVars, PackageShapes, PackageTypeOK
<1>8. CASE EventHandled
  BY <1>2, <1>4, <1>8 DEF EventHandled, NoCheck, managerVars, PackageShapes, PackageTypeOK
<1>9. CASE UNCHANGED packageVars
  BY <1>4, <1>9 DEF packageVars, managerVars, checkVars, PackageShapes, PackageTypeOK
<1> QED
  BY <1>5, <1>6, <1>7, <1>8, <1>9
     DEF Next, Sessions, Clock, AskContext, ReadSources, ContextKnown, TickEnds, vars

(* The types of everything the analyzer keeps, of the sessions and of the  *)
(* package check alike.                                                    *)
THEOREM ContextTypes == Spec => []TypeOK
<1> DEFINE Inv == IInv /\ SInv /\ PackageShapes /\ budget \in [Kinds -> Nat]
<1>1. Init => Inv
  <2> SUFFICES ASSUME Init
               PROVE  PackageShapes /\ budget \in [Kinds -> Nat]
    BY InitKeeps, SessionInitKeeps
  <2> QED
    BY PackageAssumption, ContextAssumption
       DEF Init, PackageInit, NoCheck, PackageShapes, PackageTypeOK
<1>2. Inv /\ [Next]_vars => Inv'
  <2> SUFFICES ASSUME Inv, [Next]_vars
               PROVE  budget' \in [Kinds -> Nat]
    BY StepKeeps, SessionStepKeeps, PackageStepTypes
  <2>1. \A kind \in Kinds : Spend(kind) => budget' \in [Kinds -> Nat]
    BY DEF Spend
  <2> QED
    BY <2>1 DEF Next, Sessions, PackageManagers, Clock, AskContext, ReadSources,
                ContextKnown, HandleEvent, CheckPackages, EventHandled, TickEnds, vars, Kinds
<1>3. Inv => TypeOK
  BY DEF SInv, SessionShapes, PackageShapes, TypeOK
<1> QED
  BY <1>1, <1>2, <1>3, PTL DEF Spec
=============================================================================
