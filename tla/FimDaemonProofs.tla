--------------------------- MODULE FimDaemonProofs ---------------------------
(***************************************************************************)
(* Theorems about FimDaemon, for every value of its constants.             *)
(***************************************************************************)
EXTENDS FimDaemon, TLAPS

USE PathsAssumption, ValuesAssumption, BoundsAssumption, DaemonAssumption

-----------------------------------------------------------------------------
(* Type correctness *)

LEMMA NoMetaIsNoMeta == NoMeta \in MetaOrNone /\ NoMeta \notin Meta
BY DEF NoMeta, MetaOrNone, Meta, Attrs

LEMMA EventType ==
    ASSUME WatcherTypeOK, NEW p \in Paths, NEW q \in Paths, NEW k \in EventKinds
    PROVE  /\ PathEvent(k, p) \in FimEvent
           /\ RenameEvent(k, p, q) \in FimEvent
           /\ disk[p] \in Hashes => HashEvent(k, p) \in FimEvent
           /\ MetaEvent(k, p) \in FimEvent
BY NoMetaIsNoMeta
   DEF WatcherTypeOK, PathEvent, RenameEvent, HashEvent, MetaEvent, FimEvent

LEMMA FsOpType ==
    ASSUME WatcherTypeOK, NEW k, NEW evs \in Seq(RawEvent), FsOp(k, evs)
    PROVE  /\ raw' \in Seq(RawEvent)
           /\ ops' \in 0 .. MaxOps
           /\ UNCHANGED <<watching, outbox, chan>>
BY DEF WatcherTypeOK, FsOp

LEMMA FsNextType ==
    ASSUME WatcherTypeOK, FsNext
    PROVE  WatcherTypeOK' /\ UNCHANGED watching
<1> USE NoMetaIsNoMeta DEF WatcherTypeOK
<1>1. ASSUME NEW f \in Files, NEW h \in Hashes, NEW m \in Meta, CreateFile(f, h, m)
      PROVE  WatcherTypeOK' /\ UNCHANGED watching
  <2>1. <<Raw("create", f)>> \in Seq(RawEvent)
    BY DEF Raw, RawEvent, RawKinds, Paths
  <2>2. m # NoMeta /\ m \in MetaOrNone
    BY DEF MetaOrNone
  <2> QED BY <1>1, <2>1, <2>2, FsOpType DEF CreateFile, Paths
<1>2. ASSUME NEW d \in Dirs, NEW m \in Meta, MakeDir(d, m)
      PROVE  WatcherTypeOK' /\ UNCHANGED watching
  <2>1. <<Raw("create", d)>> \in Seq(RawEvent)
    BY DEF Raw, RawEvent, RawKinds, Paths
  <2>2. m # NoMeta /\ m \in MetaOrNone
    BY DEF MetaOrNone
  <2> QED BY <1>2, <2>1, <2>2, FsOpType DEF MakeDir, Paths
<1>3. ASSUME NEW f \in Files, NEW h \in Hashes, WriteFile(f, h)
      PROVE  WatcherTypeOK' /\ UNCHANGED watching
  <2>1. <<Raw("modify", f)>> \in Seq(RawEvent)
    BY DEF Raw, RawEvent, RawKinds, Paths
  <2> QED BY <1>3, <2>1, FsOpType DEF WriteFile, Paths
<1>4. ASSUME NEW p \in Paths, NEW a \in Attrs, NEW v \in Vals, SetAttr(p, a, v)
      PROVE  WatcherTypeOK' /\ UNCHANGED watching
  <2>1. <<Raw("metadata", p)>> \in Seq(RawEvent)
    BY DEF Raw, RawEvent, RawKinds
  <2>2. meta[p] \in Meta
    BY <1>4 DEF SetAttr, MetaOrNone
  <2>3. [meta[p] EXCEPT ![a] = v] \in Meta
    BY <2>2 DEF Meta
  <2>4. meta' = [meta EXCEPT ![p] = [meta[p] EXCEPT ![a] = v]]
    BY <1>4 DEF SetAttr
  <2>5. meta' \in [Paths -> MetaOrNone]
        /\ \A x \in Paths : (meta'[x] = NoMeta) <=> (meta[x] = NoMeta)
    BY <2>2, <2>3, <2>4 DEF MetaOrNone
  <2> QED BY <1>4, <2>1, <2>5, FsOpType DEF SetAttr
<1>5. ASSUME NEW p \in Paths, NEW q \in Paths, Move(p, q)
      PROVE  WatcherTypeOK' /\ UNCHANGED watching
  <2>1. <<Raw("from", p), Raw("to", q),
          [kind |-> "both", path |-> p, to |-> q]>> \in Seq(RawEvent)
    BY DEF Raw, RawEvent, RawKinds
  <2> QED BY <1>5, <2>1, FsOpType DEF Move, Paths
<1>6. ASSUME NEW p \in Paths, RemovePath(p)
      PROVE  WatcherTypeOK' /\ UNCHANGED watching
  <2>1. <<Raw("remove", p)>> \in Seq(RawEvent)
    BY DEF Raw, RawEvent, RawKinds
  <2>2. /\ disk' = [disk EXCEPT ![p] = Absent]
        /\ meta' = [meta EXCEPT ![p] = NoMeta]
    BY <1>6 DEF RemovePath
  <2>3. /\ raw' \in Seq(RawEvent)
        /\ ops' \in 0 .. MaxOps
        /\ UNCHANGED <<watching, outbox, chan>>
    BY <1>6, <2>1, FsOpType DEF RemovePath
  <2> QED BY <2>2, <2>3
<1> QED BY <1>1, <1>2, <1>3, <1>4, <1>5, <1>6 DEF FsNext

LEMMA HandleType ==
    ASSUME WatcherTypeOK, NEW k, NEW evs, Handle(k, evs),
           Head(raw) \in RawEvent => evs \in Seq(FimEvent)
    PROVE  WatcherTypeOK' /\ UNCHANGED watching
<1>1. Head(raw) \in RawEvent /\ Tail(raw) \in Seq(RawEvent)
  BY DEF Handle, WatcherTypeOK
<1> QED BY <1>1 DEF Handle, WatcherTypeOK

LEMMA WatcherThreadType ==
    ASSUME WatcherTypeOK, WatcherThread
    PROVE  WatcherTypeOK' /\ UNCHANGED watching
<1>1. ASSUME NEW e \in RawEvent
      PROVE  /\ Appeared(e) \in Seq(FimEvent)
             /\ Disappeared(e) \in Seq(FimEvent)
             /\ MetadataTouched(e) \in Seq(FimEvent)
             /\ ContentTouched(e) \in Seq(FimEvent)
             /\ Renamed(e) \in Seq(FimEvent)
  <2> DEFINE p == e.path
  <2>1. p \in Paths /\ e.to \in Paths
    BY <1>1 DEF RawEvent
  <2>2. disk[p] \in Hashes \cup {IsDir, Absent}
    BY <2>1 DEF WatcherTypeOK
  <2>3. {"Created", "DirectoryCreated", "Modified", "Deleted", "FileRenamed",
         "DirectoryRenamed", "perm", "owner"} \subseteq EventKinds
    BY DEF EventKinds
  <2>4. Appeared(e) \in Seq(FimEvent)
    BY <2>1, <2>2, <2>3, EventType DEF Appeared
  <2>5. Disappeared(e) \in Seq(FimEvent)
    BY <2>1, <2>3, EventType DEF Disappeared
  <2>6. MetadataTouched(e) \in Seq(FimEvent)
    BY <2>1, <2>3, EventType DEF MetadataTouched
  <2>7. ContentTouched(e) \in Seq(FimEvent)
    BY <2>1, <2>3, EventType DEF ContentTouched
  <2>8. Renamed(e) \in Seq(FimEvent)
    BY <2>1, <2>3, EventType DEF Renamed
  <2> QED BY <2>4, <2>5, <2>6, <2>7, <2>8
<1>2. CASE BlockingSend
  <2>1. Head(outbox) \in FimEvent /\ Tail(outbox) \in Seq(FimEvent)
    BY <1>2 DEF BlockingSend, WatcherTypeOK
  <2>2. chan' \in Seq(FimEvent) /\ Len(chan') = Len(chan) + 1
    BY <1>2, <2>1 DEF BlockingSend, WatcherTypeOK
  <2> QED BY <1>2, <2>1, <2>2 DEF BlockingSend, WatcherTypeOK
<1>3. CASE HandleCreate BY <1>3, <1>1, HandleType DEF HandleCreate
<1>4. CASE HandleNameTo BY <1>4, <1>1, HandleType DEF HandleNameTo
<1>5. CASE HandleNameFrom BY <1>5, <1>1, HandleType DEF HandleNameFrom
<1>6. CASE HandleRemove BY <1>6, <1>1, HandleType DEF HandleRemove
<1>7. CASE HandleMetadata BY <1>7, <1>1, HandleType DEF HandleMetadata
<1>8. CASE HandleModify BY <1>8, <1>1, HandleType DEF HandleModify
<1>9. CASE HandleNameBoth BY <1>9, <1>1, HandleType DEF HandleNameBoth
<1> QED
  BY <1>2, <1>3, <1>4, <1>5, <1>6, <1>7, <1>8, <1>9 DEF WatcherThread

(* A reported value fits in a record. *)
LEMMA RecType ==
    ASSUME NEW act \in Actions, NEW p \in Paths, NEW x \in Facts
    PROVE  Rec(act, p, x) \in Record
BY DEF Rec, Record

LEMMA KeyType ==
    ASSUME NEW k \in KeyKinds, NEW p \in Paths, NEW x \in Facts
    PROVE  K(k, p, x) \in Key
BY DEF K, Key

Main == [pc : Pcs, ev : FimEvent, rec : Record, register : BOOLEAN]

LEMMA NoRecordType == NoRecord \in Record /\ SomePath \in Paths
<1>1. SomePath \in Paths
  BY DEF SomePath
<1>2. "FILE_CREATED" \in Actions /\ Absent \in Facts
  BY DEF Actions, Facts
<1> QED BY <1>1, <1>2, RecType DEF NoRecord

LEMMA MainType ==
    ASSUME NEW e \in FimEvent, NEW r \in Record, NEW pc \in Pcs
    PROVE  /\ Auditing(e, r) \in Main
           /\ At(pc, e) \in Main
           /\ [At(pc, e) EXCEPT !.register = TRUE] \in Main
           /\ Idle \in Main
<1>1. PathEvent("Deleted", SomePath) \in FimEvent
  BY NoRecordType, NoMetaIsNoMeta DEF PathEvent, FimEvent, EventKinds
<1> QED BY <1>1, NoRecordType DEF Auditing, At, Idle, Main, Pcs

LEMMA IdleType == Idle \in Main
<1>1. PathEvent("Deleted", SomePath) \in FimEvent
  BY NoRecordType, NoMetaIsNoMeta DEF PathEvent, FimEvent, EventKinds
<1> QED BY <1>1, NoRecordType, MainType DEF Pcs

(* What every handler of an event starts from. *)
LEMMA ReceiveType ==
    ASSUME TypeOK, NEW k, Receive(k)
    PROVE  /\ WatcherTypeOK'
           /\ Head(chan) \in FimEvent /\ Head(chan).kind = k
           /\ UNCHANGED <<watching, phase, db, audit, stops>>
<1>1. Head(chan) \in FimEvent /\ Tail(chan) \in Seq(FimEvent) /\ Len(Tail(chan)) <= ChanCap
  BY DEF Receive, TypeOK, WatcherTypeOK
<1>2. UNCHANGED <<disk, meta, ops, watching, raw, outbox>> /\ chan' = Tail(chan)
  BY DEF Receive, fsVars
<1> QED BY <1>1, <1>2 DEF Receive, TypeOK, WatcherTypeOK

DecisionType == recent' \subseteq Key /\ alerts' \subseteq Record /\ main' \in Main

LEMMA QuietlyType ==
    ASSUME TypeOK, NEW m \in Main, Quietly(m)
    PROVE  DecisionType
BY DEF Quietly, TypeOK, DecisionType, Main

LEMMA DebouncedType ==
    ASSUME TypeOK, NEW m \in Main, NEW key, Debounced(key, m)
    PROVE  DecisionType
BY QuietlyType DEF Debounced

LEMMA ReportType ==
    ASSUME TypeOK, NEW e \in FimEvent, NEW key \in Key, NEW r \in Record,
           Report(e, key, r)
    PROVE  DecisionType
BY MainType DEF Report, TypeOK, DecisionType, Pcs

LEMMA ReportChangeType ==
    ASSUME TypeOK, NEW e \in FimEvent, ReportChange(e)
    PROVE  DecisionType
<1> DEFINE key == K("modified", e.path, e.hash)
<1>1. e.path \in Paths /\ e.hash \in Facts
  BY DEF FimEvent, Facts
<1>2. key \in Key
  BY <1>1, KeyType DEF KeyKinds
<1>3. CASE Debounced(key, At("save", e))
  BY <1>3, MainType, NoRecordType, DebouncedType DEF Pcs
<1>4. ASSUME NEW pkg \in PkgSamples,
             LET r == Rec(IF pkg THEN "PACKAGE_UPDATE" ELSE "FILE_TAMPERING",
                          e.path, e.hash)
             IN  IF pkg /\ ~NotifyLegit
                 THEN /\ recent' = recent \cup {key}
                      /\ main' = Auditing(e, r)
                      /\ UNCHANGED alerts
                 ELSE Report(e, key, r)
      PROVE  DecisionType
  <2> DEFINE r == Rec(IF pkg THEN "PACKAGE_UPDATE" ELSE "FILE_TAMPERING",
                      e.path, e.hash)
  <2>1. r \in Record
    BY <1>1, RecType DEF Actions
  <2>2. CASE pkg /\ ~NotifyLegit
    <3>1. recent' = recent \cup {key} /\ main' = Auditing(e, r) /\ UNCHANGED alerts
      BY <1>4, <2>2
    <3>2. main' \in Main
      BY <2>1, <3>1, MainType DEF Pcs
    <3> QED BY <1>2, <3>1, <3>2 DEF TypeOK, DecisionType
  <2>3. CASE ~(pkg /\ ~NotifyLegit)
    BY <1>2, <1>4, <2>1, <2>3, ReportType
  <2> QED BY <2>2, <2>3
<1> QED BY <1>3, <1>4 DEF ReportChange

(* The state maps keep their type when an entry is replaced. *)
LEMMA EnteredType ==
    ASSUME TypeOK, NEW p \in Paths, NEW m \in MetaOrNone
    PROVE  Entered(p, m) \in [Attrs -> [Paths -> Vals \cup {Absent}]]
<1>1. \A a \in Attrs : m[a] \in Vals \cup {Absent}
  BY DEF MetaOrNone, Meta, NoMeta
<1> QED BY <1>1 DEF Entered, TypeOK

KnownType ==
    /\ known' \in [Attrs -> [Paths -> Vals \cup {Absent}]]
    /\ knownDirs' \subseteq Paths
    /\ unwatched' \subseteq Paths
    /\ unsynced' \subseteq Paths

LEMMA RegisterDirType ==
    ASSUME TypeOK, NEW e \in FimEvent, RegisterDir(e)
    PROVE  KnownType
<1>1. e.path \in Paths /\ e.meta \in MetaOrNone
  BY DEF FimEvent
<1> QED BY <1>1, EnteredType DEF RegisterDir, TypeOK, KnownType

(* Each handler keeps the types. *)
LEMMA HandlerType ==
    ASSUME TypeOK, TakeEvent
    PROVE  DecisionType /\ KnownType
<1> DEFINE e == Head(chan)
<1>0. ASSUME NEW k, Receive(k), k \in EventKinds
      PROVE  /\ e \in FimEvent /\ e.kind = k
             /\ e.path \in Paths /\ e.to \in Paths
             /\ e.hash \in Facts /\ e.path \in Facts /\ e.to \in Facts
             /\ e.meta \in MetaOrNone
             /\ Absent \in Facts
  <2>1. e \in FimEvent /\ e.kind = k
    BY <1>0, ReceiveType
  <2> QED BY <2>1 DEF FimEvent, Facts
<1>1. CASE OnModified
  <2>1. Receive("Modified") BY <1>1 DEF OnModified
  <2>2. e \in FimEvent BY <2>1, <1>0 DEF EventKinds
  <2>3. DecisionType
    BY <1>1, <2>2, QuietlyType, ReportChangeType, MainType, NoRecordType
       DEF OnModified, Pcs
  <2> QED BY <1>1, <2>3 DEF OnModified, TypeOK, KnownType, historyVars
<1>2. CASE OnCreated
  <2>1. Receive("Created") BY <1>2 DEF OnCreated
  <2> DEFINE unreported == [At("save", e) EXCEPT !.register = TRUE]
             key == K("created", e.path, Absent)
             r == Rec("FILE_CREATED", e.path, e.hash)
  <2>2. e \in FimEvent /\ key \in Key /\ r \in Record
    BY <2>1, <1>0, KeyType, RecType DEF EventKinds, KeyKinds, Actions
  <2>3. unreported \in Main /\ At("save", e) \in Main
    BY <2>2, MainType, NoRecordType DEF Pcs
  <2>4. ASSUME Quietly(unreported) PROVE DecisionType
    BY <2>3, <2>4, QuietlyType
  <2>5. ASSUME ReportChange(e) PROVE DecisionType
    BY <2>2, <2>5, ReportChangeType
  <2>6. ASSUME Debounced(key, At("save", e)) PROVE DecisionType
    BY <2>3, <2>6, DebouncedType
  <2>7. ASSUME Report(e, key, r) PROVE DecisionType
    BY <2>2, <2>7, ReportType
  <2>8. DecisionType
    BY <1>2, <2>4, <2>5, <2>6, <2>7 DEF OnCreated
  <2> QED BY <1>2, <2>8 DEF OnCreated, TypeOK, KnownType, historyVars
<1>3. CASE OnDirectoryCreated
  <2>1. Receive("DirectoryCreated") BY <1>3 DEF OnDirectoryCreated
  <2> DEFINE key == K("created_dir", e.path, Absent)
             r == Rec("DIR_CREATED", e.path, Absent)
  <2>2. e \in FimEvent /\ key \in Key /\ r \in Record /\ e.path \in Paths
    BY <2>1, <1>0, KeyType, RecType DEF EventKinds, KeyKinds, Actions
  <2>3. Idle \in Main
    BY <2>2, MainType, NoRecordType DEF Pcs
  <2>4. CASE Quietly(Idle) /\ RegisterDir(e)
    BY <2>2, <2>3, <2>4, QuietlyType, RegisterDirType
  <2>5. CASE /\ Debounced(key, Idle)
             /\ unsynced' = unsynced \cup {e.path}
             /\ UNCHANGED <<known, knownDirs, unwatched>>
    <3>1. DecisionType BY <2>3, <2>5, DebouncedType
    <3> QED BY <2>2, <2>5, <3>1 DEF TypeOK, KnownType
  <2>6. CASE /\ Report(e, key, r)
             /\ UNCHANGED <<known, knownDirs, historyVars>>
    <3>1. DecisionType BY <2>2, <2>6, ReportType
    <3> QED BY <2>6, <3>1 DEF TypeOK, KnownType, historyVars
  <2> QED BY <1>3, <2>4, <2>5, <2>6 DEF OnDirectoryCreated
<1>4. CASE OnDirectoryRenamed
  <2>1. Receive("DirectoryRenamed") BY <1>4 DEF OnDirectoryRenamed
  <2> DEFINE key == K("renamed_dir", e.path, e.to)
             r == Rec("DIR_RENAMED", e.path, e.to)
  <2>2. e \in FimEvent /\ key \in Key /\ r \in Record
    BY <2>1, <1>0, KeyType, RecType DEF EventKinds, KeyKinds, Actions
  <2>3. Idle \in Main
    BY <2>2, MainType, NoRecordType DEF Pcs
  <2>4. ASSUME Quietly(Idle) PROVE DecisionType
    BY <2>3, <2>4, QuietlyType
  <2>5. ASSUME Debounced(key, Idle) PROVE DecisionType
    BY <2>3, <2>5, DebouncedType
  <2>6. ASSUME Report(e, key, r) PROVE DecisionType
    BY <2>2, <2>6, ReportType
  <2>7. DecisionType
    BY <1>4, <2>4, <2>5, <2>6 DEF OnDirectoryRenamed
  <2> QED BY <1>4, <2>7 DEF OnDirectoryRenamed, TypeOK, KnownType, historyVars
<1>5. CASE OnFileRenamed
  <2>1. Receive("FileRenamed") BY <1>5 DEF OnFileRenamed
  <2> DEFINE key == K("renamed_file", e.path, e.to)
             keys == {key, K("deleted", e.path, Absent), K("created", e.to, Absent)}
             r == Rec("FILE_RENAMED", e.path, e.to)
  <2>2. e \in FimEvent /\ keys \subseteq Key /\ r \in Record
    BY <2>1, <1>0, KeyType, RecType DEF EventKinds, KeyKinds, Actions
  <2>3. Idle \in Main /\ At("delete", e) \in Main /\ Auditing(e, r) \in Main
    BY <2>2, MainType, NoRecordType DEF Pcs
  <2>4. ASSUME Quietly(At("delete", e)) PROVE DecisionType
    BY <2>3, <2>4, QuietlyType
  <2>5. ASSUME Debounced(key, Idle) PROVE DecisionType
    BY <2>3, <2>5, DebouncedType
  <2>6. ASSUME /\ recent' = recent \cup keys
               /\ alerts' = alerts \cup {r}
               /\ main' = Auditing(e, r)
        PROVE  DecisionType
    BY <2>2, <2>3, <2>6 DEF TypeOK, DecisionType
  <2>7. DecisionType
    BY <1>5, <2>4, <2>5, <2>6 DEF OnFileRenamed
  <2> QED BY <1>5, <2>7 DEF OnFileRenamed, TypeOK, KnownType, historyVars
<1>6. CASE OnDeleted
  <2>1. Receive("Deleted") BY <1>6 DEF OnDeleted
  <2> DEFINE isDir == e.path \in knownDirs
             key == K("deleted", e.path, Absent)
             rest == IF isDir THEN Idle ELSE At("delete", e)
             r == Rec(IF isDir THEN "DIR_DELETED" ELSE "FILE_DELETED", e.path, Absent)
  <2>2. e \in FimEvent /\ key \in Key /\ r \in Record /\ e.path \in Paths
    BY <2>1, <1>0, KeyType, RecType DEF EventKinds, KeyKinds, Actions
  <2>3. rest \in Main
    BY <2>2, MainType, NoRecordType DEF Pcs
  <2>4. ASSUME Quietly(rest) PROVE DecisionType
    BY <2>3, <2>4, QuietlyType
  <2>5. ASSUME Debounced(key, rest) PROVE DecisionType
    BY <2>3, <2>5, DebouncedType
  <2>6. ASSUME Report(e, key, r) PROVE DecisionType
    BY <2>2, <2>6, ReportType
  <2>7. DecisionType
    BY <1>6, <2>4, <2>5, <2>6 DEF OnDeleted
  <2>8. KnownType
    BY <1>6, <2>2, EnteredType, NoMetaIsNoMeta DEF OnDeleted, TypeOK, KnownType
  <2> QED BY <2>7, <2>8
<1>7. ASSUME NEW a \in Attrs, OnAttrChanged(a)
      PROVE  DecisionType /\ KnownType
  <2>1. Receive(a) BY <1>7 DEF OnAttrChanged
  <2> DEFINE v == e.meta[a]
             key == K(a, e.path, v)
             r == Rec(AttrAction(a), e.path, v)
  <2>2. /\ e \in FimEvent /\ e.path \in Paths
        /\ a \in KeyKinds /\ AttrAction(a) \in Actions
    BY <2>1, <1>0 DEF EventKinds, KeyKinds, Actions, AttrAction, Attrs
  <2>3. v \in Vals \cup {Absent}
    <3>1. e.meta \in MetaOrNone
      BY <2>2 DEF FimEvent
    <3> QED BY <3>1 DEF MetaOrNone, Meta, NoMeta
  <2>4. v \in Facts /\ key \in Key /\ r \in Record
    BY <2>2, <2>3, KeyType, RecType DEF Facts
  <2>5. Idle \in Main
    BY <2>2, MainType, NoRecordType DEF Pcs
  <2>6. ASSUME Quietly(Idle) PROVE DecisionType
    BY <2>5, <2>6, QuietlyType
  <2>7. ASSUME Debounced(key, Idle) PROVE DecisionType
    BY <2>5, <2>7, DebouncedType
  <2>8. ASSUME Report(e, key, r) PROVE DecisionType
    BY <2>2, <2>4, <2>8, ReportType
  <2>9. DecisionType
    BY <1>7, <2>6, <2>7, <2>8 DEF OnAttrChanged
  <2>10. known' = known \/ known' = [known EXCEPT ![a][e.path] = v]
    BY <1>7 DEF OnAttrChanged
  <2>11. known' \in [Attrs -> [Paths -> Vals \cup {Absent}]]
    BY <2>2, <2>3, <2>10 DEF TypeOK
  <2>12. /\ unsynced' \subseteq unsynced \cup {e.path}
         /\ UNCHANGED <<knownDirs, unwatched>>
    BY <1>7 DEF OnAttrChanged
  <2> QED BY <2>2, <2>9, <2>11, <2>12 DEF TypeOK, KnownType
<1> QED
  BY <1>1, <1>2, <1>3, <1>4, <1>5, <1>6, <1>7 DEF TakeEvent

LEMMA TakeEventType ==
    ASSUME TypeOK, TakeEvent
    PROVE  TypeOK'
<1>1. PICK k : Receive(k)
  BY DEF TakeEvent, OnModified, OnCreated, OnDirectoryCreated,
         OnDirectoryRenamed, OnFileRenamed, OnDeleted, OnAttrChanged
<1>2. WatcherTypeOK' /\ UNCHANGED <<watching, phase, db, audit, stops>>
  BY <1>1, ReceiveType
<1> QED
  BY <1>2, HandlerType DEF TypeOK, DecisionType, KnownType, Main

LEMMA FinishType ==
    ASSUME TypeOK, Finish
    PROVE  TypeOK'
<1>1. /\ UNCHANGED <<watching, phase, recent, alerts, stops>>
      /\ WatcherTypeOK'
  BY DEF Finish, RecordAuditLog, DeleteFingerprint, SaveFingerprint,
         mainUnchanged, watcherVars, TypeOK, WatcherTypeOK
<1>2. main \in Main /\ Idle \in Main
  BY IdleType DEF TypeOK, Main
<1>3. /\ main.ev \in FimEvent /\ main.rec \in Record
      /\ main.ev.path \in Paths /\ main.ev.to \in Paths
  BY <1>2 DEF Main, FimEvent
<1>4. CASE RecordAuditLog
  <2>1. audit' \subseteq Record /\ UNCHANGED db
    BY <1>3, <1>4 DEF RecordAuditLog, Logged, TypeOK
  <2>2. AfterAudit \in Main
    BY <1>2 DEF AfterAudit, Main, Pcs
  <2>3. KnownType
    <3>1. CASE RegisterDir(main.ev)
      BY <1>3, <3>1, RegisterDirType
    <3>2. CASE UNCHANGED <<known, knownDirs, historyVars>>
      BY <3>2 DEF TypeOK, KnownType, historyVars
    <3> QED BY <1>4, <3>1, <3>2 DEF RecordAuditLog
  <2>4. main' \in Main
    BY <1>4, <2>2 DEF RecordAuditLog
  <2> QED BY <1>1, <2>1, <2>3, <2>4 DEF TypeOK, KnownType, Main
<1>5. CASE DeleteFingerprint
  <2>1. db' \in [Paths -> Hashes \cup {Absent}]
    BY <1>5 DEF DeleteFingerprint, TypeOK
  <2>2. main' \in Main
    BY <1>2, <1>5 DEF DeleteFingerprint, Main, Pcs
  <2>3. /\ UNCHANGED <<audit, known, knownDirs, unsynced>>
        /\ unwatched' \subseteq Paths
    BY <1>5 DEF DeleteFingerprint, TypeOK
  <2> QED BY <1>1, <2>1, <2>2, <2>3 DEF TypeOK, Main
<1>6. CASE SaveFingerprint
  <2>1. SavedPath \in Paths
    BY <1>3 DEF SavedPath
  <2>2. db' \in [Paths -> Hashes \cup {Absent}]
    BY <1>6, <2>1 DEF SaveFingerprint, TypeOK
  <2>3. known' \in [Attrs -> [Paths -> Vals \cup {Absent}]]
    <3>1. Entered(SavedPath, meta[SavedPath]) \in [Attrs -> [Paths -> Vals \cup {Absent}]]
      BY <2>1, EnteredType DEF TypeOK, WatcherTypeOK
    <3> QED BY <1>6, <3>1 DEF SaveFingerprint, RegisterFile, TypeOK
  <2>4. unsynced' \subseteq Paths /\ unwatched' \subseteq Paths
    BY <1>6, <2>1 DEF SaveFingerprint, RegisterFile, TypeOK
  <2>5. main' = Idle /\ UNCHANGED <<audit, knownDirs>>
    BY <1>6 DEF SaveFingerprint
  <2> QED BY <1>1, <1>2, <2>2, <2>3, <2>4, <2>5 DEF TypeOK, Main
<1> QED BY <1>4, <1>5, <1>6 DEF Finish

LEMMA InitType ==
    ASSUME Init
    PROVE  TypeOK
<1>1. Idle \in Main
  BY IdleType
<1>2. WatcherTypeOK
  <2>1. raw = <<>> /\ outbox = <<>> /\ chan = <<>> /\ ops = 0 /\ watching = FALSE /\ FsInit
    BY DEF Init, WatcherInit, FsInit
  <2>2. raw \in Seq(RawEvent) /\ outbox \in Seq(FimEvent) /\ chan \in Seq(FimEvent)
        /\ Len(chan) <= ChanCap /\ ops \in 0 .. MaxOps
    BY <2>1
  <2> QED BY <2>1, <2>2 DEF FsInit, WatcherTypeOK
<1>3. phase = "stopped" /\ watching = FALSE
  BY DEF Init, WatcherInit
<1>4. known \in [Attrs -> [Paths -> Vals \cup {Absent}]]
  BY DEF Init, EmptyMap
<1>5. main \in Main /\ stops \in 0 .. MaxStops
  BY <1>1 DEF Init
<1> QED BY <1>2, <1>3, <1>4, <1>5 DEF Init, TypeOK, Main

LEMMA LifecycleType ==
    ASSUME NEW act \in {"DAEMON_START", "DAEMON_STOP"}
    PROVE  Lifecycle(act) \in Record
BY NoRecordType, RecType DEF Lifecycle, Actions, Facts

LEMMA StartStopType ==
    ASSUME TypeOK, Startup \/ Stop
    PROVE  TypeOK'
<1>1. CASE Preload
  <2>1. WatcherTypeOK' /\ UNCHANGED watching
    BY <1>1 DEF Preload, watcherVars, TypeOK, WatcherTypeOK
  <2>2. \A a \in Attrs, p \in Paths : meta[p][a] \in Vals \cup {Absent}
    BY DEF TypeOK, WatcherTypeOK, MetaOrNone, Meta, NoMeta
  <2>3. known' \in [Attrs -> [Paths -> Vals \cup {Absent}]]
    BY <1>1, <2>2 DEF Preload
  <2>4. audit' \subseteq Record /\ alerts' \subseteq Record
    BY <1>1, LifecycleType DEF Preload, Logged, TypeOK
  <2> QED BY <1>1, <2>1, <2>3, <2>4 DEF Preload, TypeOK, historyVars
<1>2. CASE StartWatcher
  <2>1. WatcherTypeOK' /\ watching' = TRUE
    BY <1>2 DEF StartWatcher, fsVars, TypeOK, WatcherTypeOK
  <2> QED BY <1>2, <2>1 DEF StartWatcher, TypeOK, Paths
<1>3. CASE Stop
  <2>0. Exit
    BY <1>3 DEF Stop, Crash, Terminate
  <2>1. WatcherTypeOK' /\ watching' = FALSE
    <3>1. /\ raw' = <<>> /\ outbox' = <<>> /\ chan' = <<>> /\ watching' = FALSE
          /\ UNCHANGED <<disk, meta, ops>>
      BY <2>0 DEF Exit, fsVars
    <3>2. raw' \in Seq(RawEvent) /\ outbox' \in Seq(FimEvent)
          /\ chan' \in Seq(FimEvent) /\ Len(chan') <= ChanCap
      BY <3>1
    <3> QED BY <3>1, <3>2 DEF TypeOK, WatcherTypeOK
  <2>2. Idle \in Main
    BY IdleType
  <2>3. known' \in [Attrs -> [Paths -> Vals \cup {Absent}]]
    BY <2>0 DEF Exit, EmptyMap
  <2>4. stops' \in 0 .. MaxStops
    BY <2>0 DEF Exit, TypeOK
  <2>5. audit' \subseteq Record
    BY <1>3, LifecycleType DEF Stop, Crash, Terminate, Logged, TypeOK
  <2> QED BY <2>0, <2>1, <2>2, <2>3, <2>4, <2>5 DEF Exit, TypeOK, Main
<1> QED BY <1>1, <1>2, <1>3 DEF Startup

(* Every state variable keeps its type in every behaviour, whatever the    *)
(* paths, hashes, bounds, package-manager answers and write outcomes; in   *)
(* particular the channel never holds more than ChanCap events.            *)
THEOREM TypeCorrect == Spec => []TypeOK
<1>1. Init => TypeOK
  BY InitType
<1>2. TypeOK /\ [Next]_vars => TypeOK'
  <2> SUFFICES ASSUME TypeOK, [Next]_vars PROVE TypeOK'
    OBVIOUS
  <2>1. CASE Environment
    <3>1. WatcherTypeOK' /\ UNCHANGED watching
      BY <2>1, FsNextType DEF Environment, TypeOK
    <3> QED BY <2>1, <3>1 DEF Environment, daemonVars, historyVars, TypeOK
  <2>2. CASE Watcher
    <3>1. WatcherTypeOK' /\ UNCHANGED watching
      BY <2>2, WatcherThreadType DEF Watcher, TypeOK
    <3> QED BY <2>2, <3>1 DEF Watcher, daemonVars, historyVars, TypeOK
  <2>3. CASE MainLoop
    BY <2>3, TakeEventType, FinishType DEF MainLoop
  <2>4. CASE Startup \/ Stop
    BY <2>4, StartStopType
  <2>5. CASE UNCHANGED vars
    BY <2>5 DEF vars, watcherVars, daemonVars, historyVars, TypeOK, WatcherTypeOK
  <2> QED BY <2>1, <2>2, <2>3, <2>4, <2>5 DEF Next
<1> QED BY <1>1, <1>2, PTL DEF Spec

-----------------------------------------------------------------------------
(* No new baseline without an audit record.                                *)
(*                                                                         *)
(* RebaselineAudited speaks of the step that writes the row; what makes it *)
(* true happened earlier.  A hash that is about to replace a row was       *)
(* recorded by this handler, or is being recorded, or was debounced: then  *)
(* its key is in recent, and a key enters recent together with the         *)
(* decision to write the record.  A stop between the two writes empties    *)
(* recent, so the argument starts afresh with the next key.                *)

ChangeActions == {"FILE_TAMPERING", "PACKAGE_UPDATE"}

Audited(p, x) == \E act \in ChangeActions : Rec(act, p, x) \in audit

BeingAudited(p, x) ==
    /\ main.pc = "audit"
    /\ main.rec.action \in ChangeActions
    /\ main.rec.path = p /\ main.rec.fact = x

DebouncedAreAudited ==
    \A k \in recent :
        k.kind = "modified" =>
            Audited(k.path, k.fact) \/ BeingAudited(k.path, k.fact)

ChangeInHand == main.pc \in {"audit", "save"} /\ main.ev.kind \in {"Modified", "Created"}

ChangeInHandAudited ==
    ChangeInHand =>
        \/ db[main.ev.path] \in {Absent, main.ev.hash}
        \/ Audited(main.ev.path, main.ev.hash)
        \/ BeingAudited(main.ev.path, main.ev.hash)

(* What the handler's pc says of the event and the record in hand. *)
HandlerShape ==
    /\ main.pc = "save" => main.ev.kind \in {"Modified", "Created", "FileRenamed"}
    /\ main.pc = "audit" =>
         /\ main.rec.action \in ChangeActions \cup {"FILE_CREATED"}
              => main.ev.kind \in {"Modified", "Created"}
         /\ main.rec.action \in {"FILE_RENAMED", "FILE_DELETED"}
              => main.ev.kind \in {"FileRenamed", "Deleted"}
    /\ main.pc = "delete" => main.ev.kind \in {"FileRenamed", "Deleted"}

AuditInv == HandlerShape /\ DebouncedAreAudited /\ ChangeInHandAudited

(* A decision without an alert: nothing enters recent. *)
LEMMA QuietStep ==
    ASSUME AuditInv, main.pc = "idle", UNCHANGED <<db, audit>>,
           NEW m, Quietly(m),
           \/ m.pc = "idle"
           \/ m.pc = "delete" /\ m.ev.kind \in {"FileRenamed", "Deleted"}
           \/ /\ m.pc = "save"
              /\ m.ev.kind \in {"Modified", "Created"}
              /\ \/ db[m.ev.path] \in {Absent, m.ev.hash}
                 \/ Audited(m.ev.path, m.ev.hash)
    PROVE  AuditInv'
<1>1. main' = m /\ recent' = recent
  BY DEF Quietly
<1>2. \A p, x : Audited(p, x)' <=> Audited(p, x)
  BY DEF Audited
<1>3. HandlerShape'
  BY <1>1 DEF HandlerShape
<1>4. DebouncedAreAudited'
  BY <1>1, <1>2 DEF AuditInv, DebouncedAreAudited, BeingAudited
<1>5. ChangeInHandAudited'
  BY <1>1, <1>2 DEF ChangeInHandAudited, ChangeInHand
<1> QED BY <1>3, <1>4, <1>5 DEF AuditInv

(* The keys a report enters are covered by its record; the record fits the *)
(* event it reports.                                                       *)
Covers(r, keys) ==
    \A k \in keys : k.kind = "modified" =>
        r.action \in ChangeActions /\ r.path = k.path /\ r.fact = k.fact

Fits(r, e) ==
    /\ r.action \in ChangeActions \cup {"FILE_CREATED"}
         => e.kind \in {"Modified", "Created"}
    /\ r.action \in {"FILE_RENAMED", "FILE_DELETED"}
         => e.kind \in {"FileRenamed", "Deleted"}
    /\ e.kind \in {"Modified", "Created"} =>
         \/ db[e.path] \in {Absent, e.hash}
         \/ r.action \in ChangeActions /\ r.path = e.path /\ r.fact = e.hash

Decides(e, r, keys) == recent' = recent \cup keys /\ main' = Auditing(e, r)

(* A decision to write the record r. *)
LEMMA ReportStep ==
    ASSUME AuditInv, main.pc = "idle", UNCHANGED <<db, audit>>,
           NEW e, NEW r, NEW keys,
           Decides(e, r, keys), Covers(r, keys), Fits(r, e)
    PROVE  AuditInv'
<1> USE DEF Decides, Covers, Fits
<1>1. main'.pc = "audit" /\ main'.ev = e /\ main'.rec = r
  BY DEF Auditing
<1>2. \A p, x : Audited(p, x)' <=> Audited(p, x)
  BY DEF Audited
<1>3. HandlerShape'
  BY <1>1 DEF HandlerShape
<1>4. DebouncedAreAudited'
  BY <1>1, <1>2 DEF AuditInv, DebouncedAreAudited, BeingAudited
<1>5. ChangeInHandAudited'
  BY <1>1, <1>2 DEF ChangeInHandAudited, ChangeInHand, BeingAudited
<1> QED BY <1>3, <1>4, <1>5 DEF AuditInv

LEMMA ReportChangeStep ==
    ASSUME TypeOK, AuditInv, main.pc = "idle", UNCHANGED <<db, audit>>,
           NEW e, e.kind \in {"Modified", "Created"}, ReportChange(e)
    PROVE  AuditInv'
<1> DEFINE key == K("modified", e.path, e.hash)
<1>1. ASSUME Debounced(key, At("save", e)) PROVE AuditInv'
  <2>1. key.kind = "modified" /\ key.path = e.path /\ key.fact = e.hash
    BY DEF K
  <2>2. Audited(e.path, e.hash)
    BY <1>1, <2>1 DEF Debounced, AuditInv, DebouncedAreAudited, BeingAudited
  <2>3. Quietly(At("save", e))
    BY <1>1 DEF Debounced
  <2>4. At("save", e).pc = "save" /\ At("save", e).ev = e
    BY DEF At
  <2> QED BY <2>2, <2>3, <2>4, QuietStep
<1>2. ASSUME NEW act \in ChangeActions, NEW r, r = Rec(act, e.path, e.hash),
             recent' = recent \cup {key}, main' = Auditing(e, r)
      PROVE  AuditInv'
  <2>1. r.action = act /\ r.path = e.path /\ r.fact = e.hash
    BY <1>2 DEF Rec
  <2>2. key.path = e.path /\ key.fact = e.hash
    BY DEF K
  <2>3. act \notin {"FILE_RENAMED", "FILE_DELETED"}
    BY DEF ChangeActions
  <2>4. Decides(e, r, {key}) /\ Covers(r, {key}) /\ Fits(r, e)
    BY <1>2, <2>1, <2>2, <2>3 DEF Decides, Covers, Fits
  <2> QED BY <2>4, ReportStep
<1>3. ASSUME NEW pkg \in PkgSamples,
             LET r == Rec(IF pkg THEN "PACKAGE_UPDATE" ELSE "FILE_TAMPERING",
                          e.path, e.hash)
             IN  IF pkg /\ ~NotifyLegit
                 THEN /\ recent' = recent \cup {key}
                      /\ main' = Auditing(e, r)
                      /\ UNCHANGED alerts
                 ELSE Report(e, key, r)
      PROVE  AuditInv'
  <2> DEFINE act == IF pkg THEN "PACKAGE_UPDATE" ELSE "FILE_TAMPERING"
  <2>1. act \in ChangeActions
    BY DEF ChangeActions
  <2>2. recent' = recent \cup {key} /\ main' = Auditing(e, Rec(act, e.path, e.hash))
    BY <1>3 DEF Report
  <2> QED BY <1>2, <2>1, <2>2
<1> QED BY <1>1, <1>3 DEF ReportChange

LEMMA TakeEventAuditInv ==
    ASSUME TypeOK, AuditInv, TakeEvent
    PROVE  AuditInv'
<1> DEFINE e == Head(chan)
<1>0. ASSUME NEW k, Receive(k)
      PROVE  main.pc = "idle" /\ UNCHANGED <<db, audit>> /\ e.kind = k
  BY <1>0 DEF Receive
<1>a. ASSUME NEW k \in {"DirectoryCreated", "DirectoryRenamed", "FileRenamed",
                         "Deleted", "perm", "owner"}, Receive(k), Quietly(Idle)
      PROVE  AuditInv'
  BY <1>a, <1>0, QuietStep DEF Idle
<1>b. ASSUME NEW k \in {"FileRenamed", "Deleted"}, Receive(k), Quietly(At("delete", e))
      PROVE  AuditInv'
  <2>1. At("delete", e).pc = "delete" /\ At("delete", e).ev = e
    BY DEF At
  <2> QED BY <1>b, <2>1, <1>0, QuietStep
<1>c. ASSUME NEW k \in {"DirectoryCreated", "DirectoryRenamed", "Deleted", "perm", "owner"},
             Receive(k),
             NEW act \in {"DIR_CREATED", "DIR_RENAMED", "DIR_DELETED",
                          "PERMISSIONS_CHANGED", "OWNERSHIP_CHANGED"},
             NEW kind \in KeyKinds \ {"modified"}, NEW x, NEW y,
             Report(e, K(kind, e.path, x), Rec(act, e.path, y))
      PROVE  AuditInv'
  <2>1. Rec(act, e.path, y).action = act /\ K(kind, e.path, x).kind = kind
    BY DEF Rec, K
  <2>2. /\ recent' = recent \cup {K(kind, e.path, x)}
        /\ main' = Auditing(e, Rec(act, e.path, y))
    BY <1>c DEF Report
  <2>3. e.kind \notin {"Modified", "Created"}
    BY <1>c, <1>0
  <2>4. act \notin ChangeActions \cup {"FILE_CREATED", "FILE_RENAMED", "FILE_DELETED"}
    BY <1>c DEF ChangeActions
  <2>5. /\ Decides(e, Rec(act, e.path, y), {K(kind, e.path, x)})
        /\ Covers(Rec(act, e.path, y), {K(kind, e.path, x)})
        /\ Fits(Rec(act, e.path, y), e)
    BY <1>c, <2>1, <2>2, <2>3, <2>4 DEF Decides, Covers, Fits
  <2> QED BY <1>c, <2>5, <1>0, ReportStep
<1>1. CASE OnModified
  <2>1. Receive("Modified") BY <1>1 DEF OnModified
  <2>2. CASE Quietly(Idle)
    BY <2>1, <2>2, <1>0, QuietStep DEF Idle
  <2>3. CASE ReportChange(e)
    BY <2>1, <2>3, <1>0, ReportChangeStep
  <2> QED BY <1>1, <2>2, <2>3 DEF OnModified
<1>2. CASE OnCreated
  <2>1. Receive("Created") BY <1>2 DEF OnCreated
  <2> DEFINE unreported == [At("save", e) EXCEPT !.register = TRUE]
             key == K("created", e.path, Absent)
             r == Rec("FILE_CREATED", e.path, e.hash)
  <2>2. /\ unreported.pc = "save" /\ unreported.ev = e
        /\ At("save", e).pc = "save" /\ At("save", e).ev = e
    BY DEF At
  <2>3. ASSUME db[e.path] \in {Absent, e.hash}, Quietly(unreported)
        PROVE  AuditInv'
    BY <2>1, <2>2, <2>3, <1>0, QuietStep
  <2>4. ASSUME ReportChange(e) PROVE AuditInv'
    BY <2>1, <2>4, <1>0, ReportChangeStep
  <2>5. ASSUME db[e.path] = Absent, Debounced(key, At("save", e))
        PROVE  AuditInv'
    BY <2>1, <2>2, <2>5, <1>0, QuietStep DEF Debounced
  <2>6. ASSUME db[e.path] = Absent, Report(e, key, r)
        PROVE  AuditInv'
    <3>1. r.action = "FILE_CREATED" /\ key.kind = "created"
      BY DEF Rec, K
    <3>2. recent' = recent \cup {key} /\ main' = Auditing(e, r)
      BY <2>6 DEF Report
    <3>3. e.kind = "Created"
      BY <2>1, <1>0
    <3>4. Decides(e, r, {key}) /\ Covers(r, {key}) /\ Fits(r, e)
      BY <2>6, <3>1, <3>2, <3>3 DEF Decides, Covers, Fits
    <3> QED BY <2>1, <3>4, <1>0, ReportStep
  <2> QED BY <1>2, <2>3, <2>4, <2>5, <2>6 DEF OnCreated
<1>3. CASE OnDirectoryCreated
  <2>1. Receive("DirectoryCreated") BY <1>3 DEF OnDirectoryCreated
  <2>2. \/ Quietly(Idle)
        \/ Report(e, K("created_dir", e.path, Absent), Rec("DIR_CREATED", e.path, Absent))
    BY <1>3 DEF OnDirectoryCreated, Debounced
  <2> QED BY <2>1, <2>2, <1>a, <1>c DEF KeyKinds
<1>4. CASE OnDirectoryRenamed
  <2>1. Receive("DirectoryRenamed") BY <1>4 DEF OnDirectoryRenamed
  <2>2. \/ Quietly(Idle)
        \/ Report(e, K("renamed_dir", e.path, e.to), Rec("DIR_RENAMED", e.path, e.to))
    BY <1>4 DEF OnDirectoryRenamed, Debounced
  <2> QED BY <2>1, <2>2, <1>a, <1>c DEF KeyKinds
<1>5. CASE OnFileRenamed
  <2>1. Receive("FileRenamed") BY <1>5 DEF OnFileRenamed
  <2> DEFINE keys == {K("renamed_file", e.path, e.to), K("deleted", e.path, Absent),
                      K("created", e.to, Absent)}
             r == Rec("FILE_RENAMED", e.path, e.to)
  <2>2. ASSUME recent' = recent \cup keys, main' = Auditing(e, r)
        PROVE  AuditInv'
    <3>1. /\ r.action = "FILE_RENAMED"
          /\ \A k \in keys : k.kind # "modified"
      BY DEF Rec, K
    <3>2. r.action \notin ChangeActions
      BY <3>1 DEF ChangeActions
    <3>3. e.kind = "FileRenamed"
      BY <2>1, <1>0
    <3>4. Decides(e, r, keys) /\ Covers(r, keys) /\ Fits(r, e)
      BY <2>2, <3>1, <3>2, <3>3 DEF Decides, Covers, Fits
    <3> QED BY <2>1, <3>4, <1>0, ReportStep
  <2>3. \/ Quietly(Idle) \/ Quietly(At("delete", e))
        \/ recent' = recent \cup keys /\ main' = Auditing(e, r)
    BY <1>5 DEF OnFileRenamed, Debounced
  <2> QED BY <2>1, <2>2, <2>3, <1>a, <1>b
<1>6. CASE OnDeleted
  <2>1. Receive("Deleted") BY <1>6 DEF OnDeleted
  <2> DEFINE key == K("deleted", e.path, Absent)
  <2>2. ASSUME Report(e, key, Rec("FILE_DELETED", e.path, Absent))
        PROVE  AuditInv'
    <3>1. /\ Rec("FILE_DELETED", e.path, Absent).action = "FILE_DELETED"
          /\ key.kind = "deleted"
      BY DEF Rec, K
    <3>2. recent' = recent \cup {key} /\ main' = Auditing(e, Rec("FILE_DELETED", e.path, Absent))
      BY <2>2 DEF Report
    <3>3. "FILE_DELETED" \notin ChangeActions
      BY DEF ChangeActions
    <3>4. e.kind = "Deleted"
      BY <2>1, <1>0
    <3>5. /\ Decides(e, Rec("FILE_DELETED", e.path, Absent), {key})
          /\ Covers(Rec("FILE_DELETED", e.path, Absent), {key})
          /\ Fits(Rec("FILE_DELETED", e.path, Absent), e)
      BY <3>1, <3>2, <3>3, <3>4 DEF Decides, Covers, Fits
    <3> QED BY <2>1, <3>5, <1>0, ReportStep
  <2>3. \/ Quietly(Idle) \/ Quietly(At("delete", e))
        \/ Report(e, key, Rec("FILE_DELETED", e.path, Absent))
        \/ Report(e, key, Rec("DIR_DELETED", e.path, Absent))
    BY <1>6 DEF OnDeleted, Debounced
  <2> QED BY <2>1, <2>2, <2>3, <1>a, <1>b, <1>c DEF KeyKinds
<1>7. ASSUME NEW a \in Attrs, OnAttrChanged(a)
      PROVE  AuditInv'
  <2>1. Receive(a) BY <1>7 DEF OnAttrChanged
  <2>2. /\ a \in {"perm", "owner"} /\ a \in KeyKinds \ {"modified"}
        /\ AttrAction(a) \in {"PERMISSIONS_CHANGED", "OWNERSHIP_CHANGED"}
    BY DEF Attrs, KeyKinds, AttrAction
  <2>3. \/ Quietly(Idle)
        \/ Report(e, K(a, e.path, e.meta[a]), Rec(AttrAction(a), e.path, e.meta[a]))
    BY <1>7 DEF OnAttrChanged, Debounced
  <2> QED BY <2>1, <2>2, <2>3, <1>a, <1>c
<1> QED BY <1>1, <1>2, <1>3, <1>4, <1>5, <1>6, <1>7 DEF TakeEvent

(* The write steps.  Only here does the success of the audit write matter. *)
LEMMA FinishAuditInv ==
    ASSUME TypeOK, AuditInv, WriteOutcomes = {TRUE}, Finish
    PROVE  AuditInv'
<1>1. recent' = recent
  BY DEF Finish, RecordAuditLog, DeleteFingerprint, SaveFingerprint, mainUnchanged
<1>2. Idle.pc = "idle"
  BY DEF Idle
<1>3. CASE RecordAuditLog
  <2>1. /\ main.pc = "audit" /\ audit' = audit \cup {main.rec}
        /\ main' = AfterAudit /\ db' = db
    BY <1>3 DEF RecordAuditLog, Logged
  <2>2. main.rec = Rec(main.rec.action, main.rec.path, main.rec.fact)
    BY DEF TypeOK, Record, Rec
  <2>3. \A p, x : Audited(p, x) \/ BeingAudited(p, x) => Audited(p, x)'
    BY <2>1, <2>2 DEF Audited, BeingAudited
  <2>4. \/ /\ main.rec.action \in ChangeActions \cup {"FILE_CREATED"}
           /\ main' = [main EXCEPT !.pc = "save"]
        \/ /\ main.rec.action \in {"FILE_RENAMED", "FILE_DELETED"}
           /\ main' = [main EXCEPT !.pc = "delete"]
        \/ main' = Idle
    BY <2>1 DEF AfterAudit, ChangeActions
  <2>5. main \in Main
    BY DEF TypeOK, Main
  <2>6. HandlerShape'
    BY <1>2, <2>1, <2>4, <2>5 DEF AuditInv, HandlerShape, Main
  <2>7. DebouncedAreAudited'
    BY <1>1, <2>3 DEF AuditInv, DebouncedAreAudited
  <2>8. ChangeInHand' => ChangeInHand /\ main'.ev = main.ev
    BY <1>2, <2>1, <2>4, <2>5 DEF ChangeInHand, Main
  <2>9. ChangeInHandAudited'
    BY <2>1, <2>3, <2>8 DEF AuditInv, ChangeInHandAudited
  <2> QED BY <2>6, <2>7, <2>9 DEF AuditInv
<1>4. CASE DeleteFingerprint
  <2>1. /\ main.pc = "delete" /\ audit' = audit
        /\ \/ main' = Idle
           \/ main.ev.kind = "FileRenamed" /\ main' = [main EXCEPT !.pc = "save"]
    BY <1>4 DEF DeleteFingerprint
  <2>2. main \in Main
    BY DEF TypeOK, Main
  <2>3. HandlerShape'
    BY <1>2, <2>1, <2>2 DEF HandlerShape, Main
  <2>4. DebouncedAreAudited'
    BY <1>1, <2>1 DEF AuditInv, DebouncedAreAudited, Audited, BeingAudited
  <2>5. ~ChangeInHand'
    BY <1>2, <2>1, <2>2 DEF ChangeInHand, Main
  <2> QED BY <2>3, <2>4, <2>5 DEF AuditInv, ChangeInHandAudited
<1>5. CASE SaveFingerprint
  <2>1. main.pc = "save" /\ audit' = audit /\ main' = Idle
    BY <1>5 DEF SaveFingerprint
  <2>2. HandlerShape' /\ ~ChangeInHand'
    BY <1>2, <2>1 DEF HandlerShape, ChangeInHand
  <2>3. DebouncedAreAudited'
    BY <1>1, <2>1 DEF AuditInv, DebouncedAreAudited, Audited, BeingAudited
  <2> QED BY <2>2, <2>3 DEF AuditInv, ChangeInHandAudited
<1> QED BY <1>3, <1>4, <1>5 DEF Finish

LEMMA AuditInvKept ==
    ASSUME AuditInv, UNCHANGED <<main, recent, db>>, audit \subseteq audit'
    PROVE  AuditInv'
BY DEF AuditInv, HandlerShape, DebouncedAreAudited, ChangeInHandAudited,
       ChangeInHand, Audited, BeingAudited

LEMMA AuditInvReset ==
    ASSUME main' = Idle, recent' = {}
    PROVE  AuditInv'
<1>1. Idle.pc = "idle"
  BY DEF Idle
<1> QED
  BY <1>1 DEF AuditInv, HandlerShape, DebouncedAreAudited, ChangeInHandAudited, ChangeInHand

LEMMA NextAuditInv ==
    ASSUME TypeOK, AuditInv, WriteOutcomes = {TRUE}, [Next]_vars
    PROVE  AuditInv'
<1>1. CASE Environment \/ Watcher \/ UNCHANGED vars
  BY <1>1, AuditInvKept DEF Environment, Watcher, vars, daemonVars
<1>2. CASE MainLoop
  BY <1>2, TakeEventAuditInv, FinishAuditInv DEF MainLoop
<1>3. CASE Startup
  BY <1>3, AuditInvKept DEF Startup, Preload, StartWatcher, Logged
<1>4. CASE Stop
  BY <1>4, AuditInvReset DEF Stop, Crash, Terminate, Exit
<1> QED BY <1>1, <1>2, <1>3, <1>4 DEF Next

LEMMA InitAuditInv ==
    ASSUME Init
    PROVE  AuditInv
<1>1. main.pc = "idle" /\ recent = {}
  BY DEF Init, Idle
<1> QED
  BY <1>1 DEF AuditInv, HandlerShape, DebouncedAreAudited, ChangeInHandAudited, ChangeInHand

(* Where the database takes every write, no behaviour, stops and restarts  *)
(* included, replaces the hash of a row (other than by a rename) before    *)
(* the new hash of that path is in the audit log as tampering or as a      *)
(* package update.                                                         *)
THEOREM BaselineNeverUnrecorded ==
    ASSUME WriteOutcomes = {TRUE}
    PROVE  Spec => RebaselineAudited
<1> DEFINE Recorded ==
      \A p \in Paths :
          db[p] # Absent /\ db'[p] \notin {db[p], Absent}
          /\ main.ev.kind # "FileRenamed"
          => \E act \in {"FILE_TAMPERING", "PACKAGE_UPDATE"} :
                Rec(act, p, db'[p]) \in audit
<1>1. Init => AuditInv
  BY InitAuditInv
<1>2. TypeOK /\ AuditInv /\ [Next]_vars => AuditInv'
  BY NextAuditInv
<1>3. TypeOK /\ AuditInv /\ [Next]_vars => [Recorded]_vars
  <2> SUFFICES ASSUME TypeOK, AuditInv, Next,
                      NEW p \in Paths, db[p] # Absent,
                      db'[p] \notin {db[p], Absent}, main.ev.kind # "FileRenamed"
               PROVE  Audited(p, db'[p])
    BY DEF Audited, ChangeActions
  <2>1. CASE SaveFingerprint
    <3>1. main.pc = "save" /\ main.ev.kind \in {"Modified", "Created"}
      BY <2>1 DEF SaveFingerprint, AuditInv, HandlerShape
    <3>2. SavedPath = main.ev.path /\ SavedHash = main.ev.hash
      BY DEF SavedPath, SavedHash
    <3>3. p = main.ev.path /\ db'[p] = main.ev.hash
      BY <2>1, <3>2 DEF SaveFingerprint, TypeOK
    <3> QED
      BY <3>1, <3>3 DEF AuditInv, ChangeInHandAudited, ChangeInHand, BeingAudited
  <2>2. CASE DeleteFingerprint
    BY <2>2 DEF DeleteFingerprint, TypeOK
  <2>3. CASE Environment \/ Watcher \/ TakeEvent \/ RecordAuditLog \/ Startup \/ Stop
    <3>1. \A k : Receive(k) => db' = db
      BY DEF Receive
    <3>2. TakeEvent => db' = db
      BY <3>1 DEF TakeEvent, OnModified, OnCreated, OnDirectoryCreated,
             OnDirectoryRenamed, OnFileRenamed, OnDeleted, OnAttrChanged
    <3>3. db' = db
      BY <2>3, <3>2 DEF Environment, Watcher, daemonVars, RecordAuditLog, Startup,
             Preload, StartWatcher, Stop, Crash, Terminate, Exit
    <3> QED BY <3>3
  <2> QED BY <2>1, <2>2, <2>3 DEF Next, MainLoop, Finish
<1>4. Spec => [][Recorded]_vars
  BY <1>1, <1>2, <1>3, TypeCorrect, PTL DEF Spec
<1> QED BY <1>4 DEF RebaselineAudited
=============================================================================
