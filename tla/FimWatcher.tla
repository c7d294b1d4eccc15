----------------------------- MODULE FimWatcher -----------------------------
(***************************************************************************)
(* The real-time half of FimEngine (src/src/fim/engine.rs): the file       *)
(* system, the notify backend that reports what happens to it, and the     *)
(* watcher thread that turns every raw notification into FimEvents.        *)
(*                                                                         *)
(* The thread is late by nature.  A raw event says only which path was     *)
(* touched; what the FimEvent carries (hash, mode, owner) is read from     *)
(* disk when the thread gets to it, by which time the path may have been   *)
(* changed again or be gone.  Events leave through a bounded tokio channel *)
(* one blocking_send at a time.                                            *)
(*                                                                         *)
(* Data abstractions: a fingerprint is its hash; modes (already masked     *)
(* with 0o777) and (uid, gid) pairs are two attributes ranging over Vals.  *)
(* The reads a handler makes for one raw event are one atomic read.        *)
(***************************************************************************)
EXTENDS Naturals, Sequences, FiniteSets

CONSTANTS
    Files,      \* paths that name regular files
    Dirs,       \* paths that name (leaf) directories
    Excluded,   \* the paths check_excluded answers TRUE for
    DbFiles,    \* the files whose path contains "/sauron.db"
    Hashes,     \* file contents, by hash
    Vals,       \* values of an attribute: a mode, or a (uid, gid) pair
    Absent,     \* nothing there: no file, no row, no entry in a map
    IsDir,      \* what stands at a directory's path
    OpKinds,    \* BOUND: the file-system operations a run explores
    MaxOps,     \* BOUND: how many of them happen
    ChanCap     \* capacity of the FimEvent channel (2048 in handle_run)

Paths == Files \cup Dirs

AllOps == {"create", "mkdir", "write", "setattr", "move", "remove"}

ASSUME PathsAssumption ==
    /\ Paths # {}
    /\ Files \cap Dirs = {}
    /\ Excluded \subseteq Paths
    /\ DbFiles \subseteq Files
    /\ OpKinds \subseteq AllOps

ASSUME ValuesAssumption ==
    /\ Absent \notin Hashes \cup Vals
    /\ IsDir \notin Hashes \cup {Absent}

ASSUME BoundsAssumption ==
    /\ MaxOps \in Nat
    /\ ChanCap \in Nat \ {0}

(* The two attributes an inode has beside its content. *)
Attrs == {"perm", "owner"}
Meta == [Attrs -> Vals]
NoMeta == [a \in Attrs |-> Absent]
MetaOrNone == Meta \cup {NoMeta}

VARIABLES
    disk,      \* path -> hash, IsDir or Absent
    meta,      \* path -> its attributes, NoMeta where nothing stands
    watching,  \* the notify watches are registered
    raw,       \* std_mpsc queue of notify events (unbounded)
    outbox,    \* FimEvents of the raw event in hand, not yet sent
    chan,      \* tokio channel from the watcher thread to the main loop
    ops        \* file-system operations so far (bounded by MaxOps)

fsVars == <<disk, meta, ops>>
watchVars == <<watching, raw, outbox, chan>>
watcherVars == <<disk, meta, watching, raw, outbox, chan, ops>>

-----------------------------------------------------------------------------
(* Events *)

RawKinds == {"create", "modify", "metadata", "from", "to", "both", "remove"}
RawEvent == [kind : RawKinds, path : Paths, to : Paths]
Raw(kind, p) == [kind |-> kind, path |-> p, to |-> p]

EventKinds == {"Created", "DirectoryCreated", "Modified", "Deleted",
               "FileRenamed", "DirectoryRenamed", "perm", "owner"}

(* "perm" and "owner" are PermissionsChanged and OwnershipChanged. *)
FimEvent == [kind : EventKinds, path : Paths, to : Paths,
             hash : Hashes \cup {Absent}, meta : MetaOrNone]

PathEvent(kind, p) ==
    [kind |-> kind, path |-> p, to |-> p, hash |-> Absent, meta |-> NoMeta]
RenameEvent(kind, p, q) == [PathEvent(kind, p) EXCEPT !.to = q]
HashEvent(kind, p) == [PathEvent(kind, p) EXCEPT !.hash = disk[p]]
MetaEvent(kind, p) == [PathEvent(kind, p) EXCEPT !.meta = meta[p]]

-----------------------------------------------------------------------------
(* The file system.  Every operation leaves its notifications in the raw   *)
(* queue, in inotify's order, while the watches are registered.            *)

FsInit ==
    /\ disk \in [Paths -> Hashes \cup {IsDir, Absent}]
    /\ \A f \in Files : disk[f] # IsDir
    /\ \A d \in Dirs : disk[d] \notin Hashes
    /\ meta \in [Paths -> MetaOrNone]
    /\ \A p \in Paths : (meta[p] = NoMeta) <=> (disk[p] = Absent)
    /\ ops = 0

WatcherInit ==
    /\ FsInit
    /\ watching = FALSE
    /\ raw = <<>>
    /\ outbox = <<>>
    /\ chan = <<>>

FsOp(kind, evs) ==
    /\ kind \in OpKinds
    /\ ops < MaxOps
    /\ ops' = ops + 1
    /\ raw' = IF watching THEN raw \o evs ELSE raw
    /\ UNCHANGED <<watching, outbox, chan>>

CreateFile(f, h, m) ==
    /\ disk[f] = Absent
    /\ disk' = [disk EXCEPT ![f] = h]
    /\ meta' = [meta EXCEPT ![f] = m]
    /\ FsOp("create", <<Raw("create", f)>>)

MakeDir(d, m) ==
    /\ disk[d] = Absent
    /\ disk' = [disk EXCEPT ![d] = IsDir]
    /\ meta' = [meta EXCEPT ![d] = m]
    /\ FsOp("mkdir", <<Raw("create", d)>>)

WriteFile(f, h) ==
    /\ disk[f] # Absent
    /\ disk' = [disk EXCEPT ![f] = h]
    /\ UNCHANGED meta
    /\ FsOp("write", <<Raw("modify", f)>>)

(* chmod, chown or touch: IN_ATTRIB does not say which, and the value may   *)
(* stay the same once masked with 0o777.                                   *)
SetAttr(p, a, v) ==
    /\ disk[p] # Absent
    /\ meta' = [meta EXCEPT ![p][a] = v]
    /\ UNCHANGED disk
    /\ FsOp("setattr", <<Raw("metadata", p)>>)

(* rename(2).  A file may replace a file; inotify reports the two halves   *)
(* and notify adds the pair.                                               *)
Move(p, q) ==
    /\ p # q
    /\ disk[p] # Absent
    /\ \/ p \in Files /\ q \in Files
       \/ p \in Dirs /\ q \in Dirs /\ disk[q] = Absent
    /\ disk' = [disk EXCEPT ![q] = disk[p], ![p] = Absent]
    /\ meta' = [meta EXCEPT ![q] = meta[p], ![p] = NoMeta]
    /\ FsOp("move", <<Raw("from", p), Raw("to", q),
                      [kind |-> "both", path |-> p, to |-> q]>>)

RemovePath(p) ==
    /\ disk[p] # Absent
    /\ disk' = [disk EXCEPT ![p] = Absent]
    /\ meta' = [meta EXCEPT ![p] = NoMeta]
    /\ FsOp("remove", <<Raw("remove", p)>>)

FsNext ==
    \/ \E f \in Files, h \in Hashes, m \in Meta : CreateFile(f, h, m)
    \/ \E d \in Dirs, m \in Meta : MakeDir(d, m)
    \/ \E f \in Files, h \in Hashes : WriteFile(f, h)
    \/ \E p \in Paths, a \in Attrs, v \in Vals : SetAttr(p, a, v)
    \/ \E p, q \in Paths : Move(p, q)
    \/ \E p \in Paths : RemovePath(p)

-----------------------------------------------------------------------------
(* The watcher thread: handle_fs_event, one action per event kind.         *)

(* Take the oldest raw event once the previous one's FimEvents are sent. *)
Handle(kind, events) ==
    /\ watching
    /\ outbox = <<>>
    /\ raw # <<>>
    /\ Head(raw).kind = kind
    /\ outbox' = events
    /\ raw' = Tail(raw)
    /\ UNCHANGED <<disk, meta, ops, watching, chan>>

(* A path that appeared: Created or DirectoryCreated, nothing when it is   *)
(* excluded or gone again.                                                 *)
Appeared(e) ==
    CASE e.path \in Excluded \/ disk[e.path] = Absent -> <<>>
      [] disk[e.path] = IsDir -> <<MetaEvent("DirectoryCreated", e.path)>>
      [] OTHER -> <<HashEvent("Created", e.path)>>

Disappeared(e) ==
    IF e.path \in Excluded THEN <<>> ELSE <<PathEvent("Deleted", e.path)>>

(* IN_ATTRIB reaches notify as MetadataKind::Any: both events are sent from *)
(* one stat, the main loop finds out which attribute changed.              *)
MetadataTouched(e) ==
    IF e.path \in Excluded \/ disk[e.path] = Absent
    THEN <<>>
    ELSE <<MetaEvent("perm", e.path), MetaEvent("owner", e.path)>>

ContentTouched(e) ==
    IF e.path \in DbFiles \cup Excluded \/ disk[e.path] \notin Hashes
    THEN <<>>
    ELSE <<HashEvent("Modified", e.path)>>

Renamed(e) ==
    CASE {e.path, e.to} \subseteq Excluded \/ disk[e.to] = Absent -> <<>>
      [] disk[e.to] = IsDir -> <<RenameEvent("DirectoryRenamed", e.path, e.to)>>
      [] OTHER -> <<RenameEvent("FileRenamed", e.path, e.to)>>

HandleCreate == Handle("create", Appeared(Head(raw)))
HandleNameTo == Handle("to", Appeared(Head(raw)))
HandleNameFrom == Handle("from", Disappeared(Head(raw)))
HandleRemove == Handle("remove", Disappeared(Head(raw)))
HandleMetadata == Handle("metadata", MetadataTouched(Head(raw)))
HandleModify == Handle("modify", ContentTouched(Head(raw)))
HandleNameBoth == Handle("both", Renamed(Head(raw)))

(* Mutants: a send that ignores the capacity, and a try_send that drops    *)
(* the event when the channel is full.                                     *)
SendRegardless ==
    /\ outbox # <<>>
    /\ chan' = Append(chan, Head(outbox))
    /\ outbox' = Tail(outbox)
    /\ UNCHANGED <<disk, meta, ops, watching, raw>>
TrySend ==
    /\ outbox # <<>>
    /\ chan' = IF Len(chan) < ChanCap THEN Append(chan, Head(outbox)) ELSE chan
    /\ outbox' = Tail(outbox)
    /\ UNCHANGED <<disk, meta, ops, watching, raw>>

(* event_tx.blocking_send: waits for room in the channel. *)
BlockingSend ==
    /\ outbox # <<>>
    /\ Len(chan) < ChanCap
    /\ chan' = Append(chan, Head(outbox))
    /\ outbox' = Tail(outbox)
    /\ UNCHANGED <<disk, meta, ops, watching, raw>>

WatcherThread ==
    \/ HandleCreate \/ HandleNameTo \/ HandleNameFrom \/ HandleRemove
    \/ HandleMetadata \/ HandleModify \/ HandleNameBoth
    \/ BlockingSend

-----------------------------------------------------------------------------
WatcherTypeOK ==
    /\ disk \in [Paths -> Hashes \cup {IsDir, Absent}]
    /\ \A f \in Files : disk[f] # IsDir
    /\ \A d \in Dirs : disk[d] \notin Hashes
    /\ meta \in [Paths -> MetaOrNone]
    /\ \A p \in Paths : (meta[p] = NoMeta) <=> (disk[p] = Absent)
    /\ watching \in BOOLEAN
    /\ raw \in Seq(RawEvent)
    /\ outbox \in Seq(FimEvent)
    /\ chan \in Seq(FimEvent)
    /\ Len(chan) <= ChanCap
    /\ ops \in 0 .. MaxOps
=============================================================================
