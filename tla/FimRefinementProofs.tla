------------------------- MODULE FimRefinementProofs -------------------------
(***************************************************************************)
(* Theorems about FimDaemonRefinement, for every value of the constants:   *)
(* where the database takes every write, the row of a file is right unless *)
(* an event about it is on its way, and the daemon implements Baseline.    *)
(***************************************************************************)
EXTENDS FimDaemonRefinement, FimMapsProofs

-----------------------------------------------------------------------------
(* The rows follow the disk                                                *)
(*                                                                         *)
(* For a file f with v on disk now, an event repairs the row if its        *)
(* handler will leave v there, and breaks it if its handler will leave     *)
(* something else.  The target of a rename is read when the row is         *)
(* written: such an event does neither harm nor good to it.                *)

Fixes(f, v) ==
    {e \in Event : e.path = f /\
        \/ v # Absent /\ e.kind \in {"create", "to", "modify"}
        \/ v = Absent /\ e.kind \in Vanishing
        \/ e.kind \in {"Created", "Modified"} /\ e.hash = v}

Breaks(f, v) ==
    {e \in Event : e.path = f /\
        \/ v # Absent /\ e.kind \in Vanishing \cup {"both", "FileRenamed"}
        \/ e.kind \in {"Created", "Modified"} /\ e.hash # v}

InHand(m) == IF m.pc = "idle" THEN {} ELSE {m.ev}

RowRight(f, v, row, H, c, o, r) == row = v \/ Coming(H, c, o, r, Fixes(f, v))

RowSettled(f, v, H, c, o, r) == Settled(H, c, o, r, Breaks(f, v), Fixes(f, v))

RowInv(f) ==
    /\ RowSettled(f, disk[f], InHand(main), chan, outbox, raw)
    /\ f \in unwatched \/ RowRight(f, disk[f], db[f], InHand(main), chan, outbox, raw)

RowsInv == phase = "running" => \A f \in Followed : RowInv(f)

(* An event about another path does nothing to the row of f.               *)
LEMMA OtherPath ==
    ASSUME NEW f, NEW v, NEW e, e.path # f
    PROVE  e \notin Breaks(f, v) /\ e \notin Fixes(f, v)
BY DEF Breaks, Fixes

LEMMA FileValue ==
    ASSUME TypeOK, NEW f \in Followed
    PROVE  /\ f \in Files /\ f \in Paths /\ f \notin Excluded /\ f \notin DbFiles
           /\ f \notin Dirs
           /\ disk[f] \in Hashes \cup {Absent} /\ db[f] \in Hashes \cup {Absent}
           /\ Absent \notin Hashes /\ IsDir \notin Hashes
BY PathsAssumption, ValuesAssumption DEF Followed, TypeOK, WatcherTypeOK, Paths

(* Every change of what is at f queues an event that repairs its row.      *)
LEMMA EnvironmentRow ==
    ASSUME TypeOK, PipeInv, Environment, phase = "running", NEW f \in Followed, RowInv(f)
    PROVE  RowInv(f)'
<1> DEFINE v == disk[f]
           w == disk'[f]
           H == InHand(main)
           Goal(r) ==
             /\ RowSettled(f, w, H, chan, outbox, r)
             /\ f \in unwatched \/ RowRight(f, w, db[f], H, chan, outbox, r)
<1>1. /\ watching /\ raw \in Seq(RawEvent) /\ f \in Paths /\ f \in Files
      /\ disk \in [Paths -> Hashes \cup {IsDir, Absent}]
      /\ Absent \notin Hashes /\ IsDir \notin Hashes \cup {Absent}
  BY FileValue, ValuesAssumption DEF TypeOK, WatcherTypeOK
<1>2. UNCHANGED <<main, db, unwatched>> /\ FsNext
  BY DEF Environment, daemonVars, historyVars
<1>3. ASSUME NEW kind, NEW evs, FsOp(kind, evs)
      PROVE  raw' = raw \o evs /\ UNCHANGED <<outbox, chan>>
  BY <1>1, <1>3 DEF FsOp
<1>4. \A x \in Paths, kk \in RawKinds :
        /\ Raw(kk, x) \in RawEvent /\ Raw(kk, x) \in Event
        /\ Raw(kk, x).kind = kk /\ Raw(kk, x).path = x
  BY DEF Raw, RawEvent, Event
<1>5. {"create", "modify", "metadata", "from", "to", "both", "remove"} \subseteq RawKinds
  BY DEF RawKinds
<1>6. w = v => Goal(raw)
  BY DEF RowInv
(* Queueing what repairs the row, or what does not touch it. *)
<1>7. ASSUME NEW r \in Seq(RawEvent), NEW e \in RawEvent, e \in Event, e.path = f,
             \/ w # Absent /\ e.kind \in {"create", "to", "modify"}
             \/ w = Absent /\ e.kind \in {"from", "remove"}
      PROVE  Goal(Append(r, e))
  <2>1. e \in Fixes(f, w) /\ e \notin Breaks(f, w)
    BY <1>7 DEF Fixes, Breaks, Vanishing
  <2> QED BY <1>7, <2>1, RepairArrives DEF RowSettled, RowRight, Coming
<1>8. ASSUME NEW r \in Seq(RawEvent), NEW e \in RawEvent, Goal(r),
             \/ e.path # f
             \/ e.kind = "metadata"
             \/ e.kind = "both" /\ w = Absent
      PROVE  Goal(Append(r, e))
  <2>1. e \notin Breaks(f, w)
    BY <1>8 DEF Breaks, Vanishing
  <2> QED BY <1>8, <2>1, HarmlessArrives DEF RowSettled, RowRight, Coming
<1> HIDE DEF Goal
<1>9. ASSUME NEW x \in Paths, NEW kk \in {"create", "modify", "remove"}, NEW y,
             y = Absent <=> kk = "remove",
             disk' = [disk EXCEPT ![x] = y], raw' = raw \o <<Raw(kk, x)>>
      PROVE  Goal(raw')
  <2>1. raw' = Append(raw, Raw(kk, x))
    BY <1>1, <1>4, <1>5, <1>9, AppendOne
  <2>2. Raw(kk, x) \in RawEvent /\ Raw(kk, x) \in Event
        /\ Raw(kk, x).kind = kk /\ Raw(kk, x).path = x
    BY <1>4, <1>5
  <2>3. CASE x = f
    <3>1. w = y
      BY <1>1, <1>9, <2>3
    <3> QED BY <1>1, <1>7, <1>9, <2>1, <2>2, <2>3, <3>1
  <2>4. CASE x # f
    <3>1. w = v
      BY <1>1, <1>9, <2>4
    <3>2. Goal(raw)
      BY <1>6, <3>1
    <3> QED BY <1>1, <1>8, <2>1, <2>2, <2>4, <3>2
  <2> QED BY <2>3, <2>4
<1>10. ASSUME NEW g \in Files, NEW h \in Hashes, NEW m \in Meta, CreateFile(g, h, m)
       PROVE  Goal(raw')
  BY <1>1, <1>3, <1>9, <1>10 DEF CreateFile, Paths
<1>11. ASSUME NEW d \in Dirs, NEW m \in Meta, MakeDir(d, m)
       PROVE  Goal(raw')
  BY <1>1, <1>3, <1>9, <1>11 DEF MakeDir, Paths
<1>12. ASSUME NEW g \in Files, NEW h \in Hashes, WriteFile(g, h)
       PROVE  Goal(raw')
  BY <1>1, <1>3, <1>9, <1>12 DEF WriteFile, Paths
<1>13. ASSUME NEW x \in Paths, NEW b \in Attrs, NEW u \in Vals, SetAttr(x, b, u)
       PROVE  Goal(raw')
  <2>1. raw' = raw \o <<Raw("metadata", x)>> /\ w = v
    BY <1>3, <1>13 DEF SetAttr
  <2>2. raw' = Append(raw, Raw("metadata", x)) /\ Raw("metadata", x) \in RawEvent
        /\ Raw("metadata", x).kind = "metadata"
    BY <1>1, <1>4, <1>5, <2>1, AppendOne
  <2>3. Goal(raw)
    BY <1>6, <2>1
  <2> QED BY <1>1, <1>8, <2>2, <2>3
<1>14. ASSUME NEW x \in Paths, NEW y \in Paths, Move(x, y)
       PROVE  Goal(raw')
  <2> DEFINE from == Raw("from", x)
             to == Raw("to", y)
             both == [kind |-> "both", path |-> x, to |-> y]
             r1 == Append(raw, from)
             r2 == Append(r1, to)
  <2>1. both \in RawEvent /\ both.kind = "both" /\ both.path = x
    BY DEF RawEvent, RawKinds
  <2>2. raw' = raw \o <<from, to, both>> /\ x # y /\ disk[x] # Absent
        /\ disk' = [disk EXCEPT ![y] = disk[x], ![x] = Absent]
    BY <1>3, <1>14 DEF Move
  <2>3. raw' = Append(r2, both) /\ r1 \in Seq(RawEvent) /\ r2 \in Seq(RawEvent)
    BY <1>1, <1>4, <1>5, <2>1, <2>2, AppendThree
  <2>4. /\ from \in RawEvent /\ from \in Event /\ from.kind = "from" /\ from.path = x
        /\ to \in RawEvent /\ to \in Event /\ to.kind = "to" /\ to.path = y
    BY <1>4, <1>5
  <2> HIDE DEF from, to, both, r1, r2
  <2>5. CASE y = f
    <3>1. w # Absent
      BY <1>1, <2>2, <2>5
    <3>2. Goal(r2)
      BY <2>3, <2>4, <2>5, <3>1, <1>7 DEF r2
    <3> QED BY <2>1, <2>2, <2>3, <2>5, <3>2, <1>8
  <2>6. CASE x = f
    <3>1. w = Absent
      BY <1>1, <2>2, <2>6
    <3>2. Goal(r1)
      BY <1>1, <2>3, <2>4, <2>6, <3>1, <1>7 DEF r1
    <3>3. Goal(r2)
      BY <2>2, <2>3, <2>4, <2>6, <3>2, <1>8 DEF r2
    <3> QED BY <2>1, <2>3, <3>1, <3>3, <1>8
  <2>7. CASE x # f /\ y # f
    <3>1. Goal(raw)
      BY <1>1, <1>6, <2>2, <2>7
    <3>2. Goal(r1)
      BY <1>1, <2>3, <2>4, <2>7, <3>1, <1>8 DEF r1
    <3>3. Goal(r2)
      BY <2>3, <2>4, <2>7, <3>2, <1>8 DEF r2
    <3> QED BY <2>1, <2>3, <2>7, <3>3, <1>8
  <2> QED BY <2>5, <2>6, <2>7
<1>15. ASSUME NEW x \in Paths, RemovePath(x)
       PROVE  Goal(raw')
  BY <1>1, <1>3, <1>9, <1>15 DEF RemovePath
<1>16. UNCHANGED <<outbox, chan>>
  BY <1>2, <1>3 DEF FsNext, CreateFile, MakeDir, WriteFile, SetAttr, Move, RemovePath
<1>17. Goal(raw')
  BY <1>2, <1>10, <1>11, <1>12, <1>13, <1>14, <1>15 DEF FsNext
<1> QED BY <1>2, <1>16, <1>17 DEF Goal, RowInv

(* What the watcher thread makes of a raw event is as good for the row.    *)
GoodForRow(e, evs, f, v) ==
    /\ e \in Fixes(f, v) => In(evs, Fixes(f, v))
    /\ In(evs, Breaks(f, v)) => e \in Breaks(f, v)

LEMMA EventsGoodForRow ==
    ASSUME TypeOK, NEW e \in RawEvent, NEW f \in Followed
    PROVE  LET v == disk[f] IN
           /\ e.kind \in {"create", "to"} => GoodForRow(e, Appeared(e), f, v)
           /\ e.kind \in {"from", "remove"} => GoodForRow(e, Disappeared(e), f, v)
           /\ e.kind = "metadata" => GoodForRow(e, MetadataTouched(e), f, v)
           /\ e.kind = "modify" => GoodForRow(e, ContentTouched(e), f, v)
           /\ e.kind = "both" => GoodForRow(e, Renamed(e), f, v)
<1> DEFINE v == disk[f]
           x == e.path
<1>1. x \in Paths /\ e.to \in Paths /\ e \in Event
  BY DEF RawEvent, Event
<1>2. /\ f \in Paths /\ f \notin Excluded \cup DbFiles
      /\ v \in Hashes \cup {Absent} /\ Absent \notin Hashes /\ IsDir \notin Hashes \cup {Absent}
  BY FileValue, ValuesAssumption
<1>3. WatcherTypeOK /\ disk[x] \in Hashes \cup {IsDir, Absent}
  BY <1>1 DEF TypeOK, WatcherTypeOK
<1>4. \A k \in {"Created", "Modified"} : disk[x] \in Hashes =>
        /\ HashEvent(k, x) \in Event /\ HashEvent(k, x).kind = k
        /\ HashEvent(k, x).path = x /\ HashEvent(k, x).hash = disk[x]
  BY <1>1, <1>3, EventType DEF HashEvent, PathEvent, Event, EventKinds
<1>5. \A k \in {"DirectoryCreated", "perm", "owner"} :
        MetaEvent(k, x).kind = k /\ MetaEvent(k, x).path = x
  BY DEF MetaEvent, PathEvent
<1>6. /\ PathEvent("Deleted", x) \in Event /\ PathEvent("Deleted", x).kind = "Deleted"
      /\ PathEvent("Deleted", x).path = x
  BY <1>1, <1>3, EventType DEF PathEvent, Event, EventKinds
<1>7. \A k \in {"FileRenamed", "DirectoryRenamed"} :
        RenameEvent(k, x, e.to).kind = k /\ RenameEvent(k, x, e.to).path = x
  BY DEF RenameEvent, PathEvent
<1> HIDE DEF v, x
<1> USE DEF GoodForRow
<1>8. ASSUME NEW evs, x # f,
             \/ evs = <<>>
             \/ \E d : evs = <<d>> /\ d.path = x
             \/ \E d, g : evs = <<d, g>> /\ d.path = x /\ g.path = x
      PROVE  GoodForRow(e, evs, f, v)
  BY <1>8, InEmpty, InOne, InTwo, OtherPath DEF x
<1>9. ASSUME NEW d, NEW k \in {"Created", "Modified"}, e.kind \in {"create", "to", "modify"},
             d \in Event, d.kind = k, d.path = x, d.hash = v
      PROVE  GoodForRow(e, <<d>>, f, v)
  <2>1. x = f => d \in Fixes(f, v)
    BY <1>9 DEF Fixes
  <2>2. d \notin Breaks(f, v)
    BY <1>9 DEF Breaks, Vanishing
  <2>3. x # f => e \notin Fixes(f, v)
    BY OtherPath DEF x
  <2> QED BY <2>1, <2>2, <2>3, InOne
<1>10. ASSUME e.kind \in {"create", "to"} PROVE GoodForRow(e, Appeared(e), f, v)
  <2>1. CASE x # f
    BY <1>1, <1>3, <1>4, <1>5, <1>8, <1>10, <2>1 DEF Appeared, x
  <2>2. CASE x = f /\ v = Absent
    <3>1. Appeared(e) = <<>>
      BY <1>2, <2>2 DEF Appeared, x, v
    <3>2. e \notin Fixes(f, v)
      BY <1>10, <2>2 DEF Fixes, Vanishing
    <3> QED BY <3>1, <3>2, InEmpty
  <2>3. CASE x = f /\ v # Absent
    <3>1. Appeared(e) = <<HashEvent("Created", x)>> /\ disk[x] \in Hashes /\ disk[x] = v
      BY <1>2, <2>3 DEF Appeared, x, v
    <3> QED BY <1>4, <1>9, <1>10, <3>1
  <2> QED BY <2>1, <2>2, <2>3
<1>11. ASSUME e.kind \in {"from", "remove"} PROVE GoodForRow(e, Disappeared(e), f, v)
  <2> DEFINE d == PathEvent("Deleted", x)
  <2>1. CASE x # f
    <3>1. \/ Disappeared(e) = <<>>
          \/ Disappeared(e) = <<d>> /\ d.path = x
      BY <1>6 DEF Disappeared, x
    <3> QED BY <1>8, <2>1, <3>1
  <2>2. CASE x = f
    <3>1. Disappeared(e) = <<d>>
      BY <1>2, <2>2 DEF Disappeared, x
    <3>2. d \in Event /\ d.kind = "Deleted" /\ d.path = f
      BY <1>6, <2>2
    <3> HIDE DEF d
    <3>3. CASE v = Absent
      <4>1. d \in Fixes(f, v) /\ d \notin Breaks(f, v)
        BY <3>2, <3>3 DEF Fixes, Breaks, Vanishing
      <4> QED BY <3>1, <4>1, InOne
    <3>4. CASE v # Absent
      <4>1. e \notin Fixes(f, v) /\ e \in Breaks(f, v)
        BY <1>1, <1>11, <2>2, <3>4 DEF Fixes, Breaks, Vanishing, x
      <4> QED BY <4>1
    <3> QED BY <3>3, <3>4
  <2> QED BY <2>1, <2>2
<1>12. ASSUME e.kind = "metadata" PROVE GoodForRow(e, MetadataTouched(e), f, v)
  <2> DEFINE d == MetaEvent("perm", x)
             g == MetaEvent("owner", x)
  <2>1. MetadataTouched(e) = <<>> \/ MetadataTouched(e) = <<d, g>>
    BY DEF MetadataTouched, x
  <2>2. d.kind = "perm" /\ g.kind = "owner"
    BY <1>5
  <2>3. \A y : y.kind \in {"perm", "owner", "metadata"} =>
          y \notin Fixes(f, v) /\ y \notin Breaks(f, v)
    BY DEF Fixes, Breaks, Vanishing
  <2> HIDE DEF d, g
  <2> QED BY <1>12, <2>1, <2>2, <2>3, InEmpty, InTwo
<1>13. ASSUME e.kind = "modify" PROVE GoodForRow(e, ContentTouched(e), f, v)
  <2>1. CASE x # f
    BY <1>4, <1>8, <2>1 DEF ContentTouched, x
  <2>2. CASE x = f /\ v = Absent
    <3>1. ContentTouched(e) = <<>>
      BY <1>2, <2>2 DEF ContentTouched, x, v
    <3>2. e \notin Fixes(f, v)
      BY <1>13, <2>2 DEF Fixes, Vanishing
    <3> QED BY <3>1, <3>2, InEmpty
  <2>3. CASE x = f /\ v # Absent
    <3>1. ContentTouched(e) = <<HashEvent("Modified", x)>> /\ disk[x] \in Hashes /\ disk[x] = v
      BY <1>2, <2>3 DEF ContentTouched, x, v
    <3> QED BY <1>4, <1>9, <1>13, <3>1
  <2> QED BY <2>1, <2>2, <2>3
(* The old name of a rename: its row goes, and must be made again if there *)
(* is a file of that name again.                                           *)
<1>14. ASSUME e.kind = "both" PROVE GoodForRow(e, Renamed(e), f, v)
  <2>1. e \notin Fixes(f, v)
    BY <1>14 DEF Fixes, Vanishing
  <2>2. \/ Renamed(e) = <<>>
        \/ \E k \in {"FileRenamed", "DirectoryRenamed"} :
             \E d : Renamed(e) = <<d>> /\ d.kind = k /\ d.path = x
    BY <1>7 DEF Renamed, x
  <2>3. \A d : d.kind \in {"FileRenamed", "DirectoryRenamed"} /\ d.path = x
                 /\ d \in Breaks(f, v) => e \in Breaks(f, v)
    BY <1>1, <1>14 DEF Breaks, Vanishing, x
  <2> QED BY <2>1, <2>2, <2>3, InEmpty, InOne
<1> QED BY <1>10, <1>11, <1>12, <1>13, <1>14 DEF v

LEMMA WatcherRow ==
    ASSUME TypeOK, PipeInv, Watcher, NEW f \in Followed, RowInv(f)
    PROVE  RowInv(f)'
<1> DEFINE v == disk[f]
           H == InHand(main)
           Goal ==
             /\ UNCHANGED disk
             /\ RowSettled(f, v, H, chan, outbox, raw)
                  => RowSettled(f, v, H, chan', outbox', raw')
             /\ RowRight(f, v, db[f], H, chan, outbox, raw)
                  => RowRight(f, v, db[f], H, chan', outbox', raw')
<1>1. UNCHANGED <<main, db, unwatched>> /\ WatcherThread
  BY DEF Watcher, daemonVars, historyVars
<1>2. SUFFICES Goal
  BY <1>1 DEF RowInv
<1>3. CASE BlockingSend
  <2>1. outbox \in Seq(FimEvent) /\ chan \in Seq(FimEvent) /\ outbox # <<>>
    BY <1>3 DEF BlockingSend, TypeOK, WatcherTypeOK
  <2>2. /\ chan' = Append(chan, Head(outbox)) /\ outbox' = Tail(outbox)
        /\ UNCHANGED <<disk, raw>>
    BY <1>3 DEF BlockingSend
  <2> QED BY <2>1, <2>2, Sent DEF RowSettled, RowRight, Coming
<1>4. ASSUME NEW kind, NEW evs, Handle(kind, evs),
             Head(raw).kind = kind => GoodForRow(Head(raw), evs, f, v)
      PROVE  Goal
  <2>1. /\ raw \in Seq(RawEvent) /\ raw # <<>> /\ outbox = <<>>
        /\ raw' = Tail(raw) /\ outbox' = evs /\ UNCHANGED <<disk, chan>>
    BY <1>4 DEF Handle, TypeOK, WatcherTypeOK
  <2>2. GoodForRow(Head(raw), evs, f, v)
    BY <1>4 DEF Handle
  <2> QED BY <2>1, <2>2, Converted DEF GoodForRow, RowSettled, RowRight, Coming
<1> HIDE DEF Goal, v
<1>5. ASSUME NEW kind, NEW evs, Handle(kind, evs) PROVE Head(raw) \in RawEvent
  BY <1>5, HeadTailProperties DEF Handle, TypeOK, WatcherTypeOK
<1>6. CASE HandleCreate BY <1>4, <1>5, <1>6, EventsGoodForRow DEF HandleCreate, v
<1>7. CASE HandleNameTo BY <1>4, <1>5, <1>7, EventsGoodForRow DEF HandleNameTo, v
<1>8. CASE HandleNameFrom BY <1>4, <1>5, <1>8, EventsGoodForRow DEF HandleNameFrom, v
<1>9. CASE HandleRemove BY <1>4, <1>5, <1>9, EventsGoodForRow DEF HandleRemove, v
<1>10. CASE HandleMetadata BY <1>4, <1>5, <1>10, EventsGoodForRow DEF HandleMetadata, v
<1>11. CASE HandleModify BY <1>4, <1>5, <1>11, EventsGoodForRow DEF HandleModify, v
<1>12. CASE HandleNameBoth BY <1>4, <1>5, <1>12, EventsGoodForRow DEF HandleNameBoth, v
<1> QED
  BY <1>1, <1>3, <1>6, <1>7, <1>8, <1>9, <1>10, <1>11, <1>12 DEF WatcherThread

(* An event that would repair the row stays in hand until it has, unless   *)
(* the row is right already.                                               *)
LEMMA TakeEventKeeps ==
    ASSUME TypeOK, PipeInv, TakeEvent, NEW f \in Followed,
           Head(chan) \in Fixes(f, disk[f])
    PROVE  db[f] = disk[f] \/ InHand(main') = {Head(chan)}
<1> DEFINE e == Head(chan)
           v == disk[f]
<1>1. /\ e.path = f /\ e \in FimEvent /\ f \notin Dirs
      /\ e.kind \in {"Deleted", "Created", "Modified"}
      /\ e.kind \in {"Created", "Modified"} => e.hash = v
  <2>1. e \in FimEvent
    BY TakeEventDecides, ReceiveFacts
  <2>2. e.kind \in EventKinds
    BY <2>1 DEF FimEvent
  <2>3. e.kind \in {"Deleted", "Created", "Modified"}
    BY <2>2 DEF Fixes, Vanishing, EventKinds
  <2> QED BY <2>1, <2>3, FileValue DEF Fixes, Vanishing
<1>2. Receive(e.kind)
  BY TakeEventDecides
<1>3. ASSUME NEW m, main' = m, m.pc # "idle", m.ev = e PROVE InHand(main') = {e}
  BY <1>3 DEF InHand
<1>4. /\ At("delete", e).pc = "delete" /\ At("delete", e).ev = e
      /\ At("save", e).pc = "save" /\ At("save", e).ev = e
      /\ [At("save", e) EXCEPT !.register = TRUE].pc = "save"
      /\ [At("save", e) EXCEPT !.register = TRUE].ev = e
      /\ \A r : Auditing(e, r).pc = "audit" /\ Auditing(e, r).ev = e
  BY DEF At, Auditing
<1>5. ASSUME ReportChange(e), e.kind \in {"Created", "Modified"}
      PROVE  InHand(main') = {e}
  <2>1. main'.ev = e /\ main'.pc \in {"audit", "save"}
    BY <1>5, ReportChangeFits
  <2> QED BY <2>1 DEF InHand
<1>6. CASE OnModified
  <2>1. db[e.path] = e.hash \/ ReportChange(e)
    BY <1>6 DEF OnModified
  <2>2. e.kind = "Modified"
    BY <1>6 DEF OnModified, Receive
  <2> QED BY <1>1, <1>5, <2>1, <2>2
<1>7. CASE OnCreated
  <2>1. e.kind = "Created"
    BY <1>7 DEF OnCreated, Receive
  <2>2. \/ Quietly([At("save", e) EXCEPT !.register = TRUE])
        \/ ReportChange(e)
        \/ Debounced(K("created", e.path, Absent), At("save", e))
        \/ Report(e, K("created", e.path, Absent), Rec("FILE_CREATED", e.path, e.hash))
    BY <1>7 DEF OnCreated
  <2>3. ReportChange(e) \/ (main'.pc # "idle" /\ main'.ev = e)
    BY <1>4, <2>2 DEF Quietly, Debounced, Report
  <2> QED BY <1>3, <1>5, <2>1, <2>3
<1>8. CASE OnDeleted
  <2>1. e.path \notin knownDirs
    BY <1>1 DEF PipeInv
  <2>2. \/ Quietly(At("delete", e))
        \/ Debounced(K("deleted", e.path, Absent), At("delete", e))
        \/ Report(e, K("deleted", e.path, Absent), Rec("FILE_DELETED", e.path, Absent))
    BY <1>8, <2>1 DEF OnDeleted
  <2>3. main'.pc # "idle" /\ main'.ev = e
    BY <1>4, <2>2 DEF Quietly, Debounced, Report
  <2> QED BY <1>3, <2>3
<1>9. CASE OnDirectoryCreated
  BY <1>1, <1>9 DEF OnDirectoryCreated, Receive
<1>10. CASE OnDirectoryRenamed
  BY <1>1, <1>10 DEF OnDirectoryRenamed, Receive
<1>11. CASE OnFileRenamed
  BY <1>1, <1>11 DEF OnFileRenamed, Receive
<1>12. ASSUME NEW a \in Attrs, OnAttrChanged(a) PROVE FALSE
  BY <1>1, <1>12 DEF OnAttrChanged, Receive, Attrs
<1> QED BY <1>6, <1>7, <1>8, <1>9, <1>10, <1>11, <1>12 DEF TakeEvent

LEMMA TakeEventRow ==
    ASSUME TypeOK, PipeInv, TakeEvent, NEW f \in Followed, RowInv(f)
    PROVE  RowInv(f)'
<1> DEFINE e == Head(chan)
           v == disk[f]
           G == InHand(main')
           F == Fixes(f, v)
           N == Breaks(f, v)
<1>1. /\ chan # <<>> /\ chan \in Seq(FimEvent) /\ chan' = Tail(chan)
      /\ UNCHANGED <<disk, raw, outbox, db>>
      /\ main.pc = "idle"
  BY TakeEventDecides, ReceiveFacts DEF TypeOK, WatcherTypeOK
<1>2. UNCHANGED unwatched
  BY DEF TakeEvent, OnModified, OnCreated, OnDirectoryCreated, RegisterDir,
         OnDirectoryRenamed, OnFileRenamed, OnDeleted, OnAttrChanged, historyVars
<1>3. G \subseteq {e}
  BY TakeEventDecides, IdleFits DEF Decided, InHand
<1>4. e \in F => db[f] = v \/ G = {e}
  BY TakeEventKeeps
<1> HIDE DEF e, v, G, F, N
<1>5. /\ Settled({}, chan, outbox, raw, N, F)
      /\ f \in unwatched \/ db[f] = v \/ Ahead(chan, outbox, raw, F)
  BY <1>1 DEF RowInv, RowSettled, RowRight, Coming, InHand, v, F, N
<1>6. /\ Settled(G, chan', outbox, raw, N, F)
      /\ Ahead(chan, outbox, raw, F) => e \in F \/ Ahead(chan', outbox, raw, F)
  BY <1>1, <1>3, <1>5, Taken DEF e
<1>7. f \in unwatched \/ db[f] = v \/ Coming(G, chan', outbox, raw, F)
  BY <1>4, <1>5, <1>6 DEF Coming
<1> QED BY <1>1, <1>2, <1>6, <1>7 DEF RowInv, RowSettled, RowRight, v, G, F, N

(* The write steps, where the writes succeed. *)
LEMMA FinishRow ==
    ASSUME TypeOK, PipeInv, Finish, WriteOutcomes = {TRUE}, NEW f \in Followed, RowInv(f)
    PROVE  RowInv(f)'
<1> DEFINE e == main.ev
           v == disk[f]
           G == InHand(main')
           F == Fixes(f, v)
           N == Breaks(f, v)
           A == Ahead(chan, outbox, raw, F)
<1>1. /\ UNCHANGED <<disk, chan, outbox, raw>> /\ main.pc # "idle"
      /\ e \in SoundEvent /\ e \in Event /\ HandlerFits(main)
      /\ db \in [Paths -> Hashes \cup {Absent}] /\ e.path \in Paths /\ e.to \in Paths
  BY FinishMain DEF watcherVars, PipeInv, SoundEvent, FimEvent, Event, TypeOK
<1>2. G \subseteq {e}
  BY FinishMain, IdleFits DEF InHand
<1>3. /\ f \in Paths /\ f \in Files /\ f \notin Dirs
      /\ v \in Hashes \cup {Absent} /\ Absent \notin Hashes
  BY FileValue
<1> HIDE DEF e, v, G, F, N
<1>4. /\ Settled({e}, chan, outbox, raw, N, F)
      /\ f \in unwatched \/ db[f] = v \/ e \in F \/ A
  BY <1>1 DEF RowInv, RowSettled, RowRight, Coming, InHand, e, v, F, N
<1>5. Settled(G, chan, outbox, raw, N, F) /\ (e \in N => A)
  <2>1. Settled(G, chan, outbox, raw, N, F)
    BY <1>2, <1>4, Dropped
  <2> QED BY <1>4, <2>1 DEF Settled
<1>6. SUFFICES f \in unwatched' \/ db'[f] = v \/ (G = {e} /\ e \in F) \/ A
  BY <1>1, <1>5 DEF RowInv, RowSettled, RowRight, Coming, v, G, F, N
<1>7. CASE RecordAuditLog
  <2>1. UNCHANGED <<db, unwatched>> /\ RecordFits(e, main.rec)
    BY <1>1, <1>7 DEF RecordAuditLog, RegisterDir, historyVars, HandlerFits, e
  <2>2. e \in F => G = {e}
    <3> SUFFICES ASSUME e \in F PROVE G = {e}
      OBVIOUS
    <3>1. e.path = f /\ e.kind \in {"Deleted", "Created", "Modified"}
      <4>1. e.kind \in EventKinds
        BY <1>1 DEF SoundEvent, FimEvent
      <4> QED BY <4>1 DEF F, Fixes, Vanishing, EventKinds
    <3>2. main.rec.action \in ContentActions \cup {"FILE_DELETED"}
      BY <1>3, <2>1, <3>1 DEF RecordFits, Attrs
    <3>3. PICK pc \in {"save", "delete"} : main' = [main EXCEPT !.pc = pc]
      BY <1>7, <3>2 DEF RecordAuditLog, AfterAudit, ContentActions
    <3>4. main'.pc = pc /\ main'.ev = e
      BY <3>3 DEF TypeOK, e
    <3> QED BY <3>4 DEF G, InHand
  <2> QED BY <1>4, <2>1, <2>2
<1>8. CASE DeleteFingerprint
  <2>1. /\ db' = [db EXCEPT ![e.path] = Absent]
        /\ unwatched' = unwatched \ {e.path}
        /\ e.kind \in {"Deleted", "FileRenamed"}
    BY <1>1, <1>8 DEF DeleteFingerprint, HandlerFits, e
  <2>2. CASE e.path # f
    <3>1. db'[f] = db[f] /\ e \notin F
      BY <1>1, <1>3, <2>1, <2>2, OtherPath DEF F
    <3> QED BY <1>4, <2>1, <2>2, <3>1
  <2>3. CASE e.path = f /\ v = Absent
    BY <1>1, <2>1, <2>3
  <2>4. CASE e.path = f /\ v # Absent
    <3>1. e \in N
      BY <1>1, <2>1, <2>4 DEF N, Breaks, Vanishing
    <3> QED BY <1>5, <3>1
  <2> QED BY <2>2, <2>3, <2>4
<1>9. CASE SaveFingerprint
  <2> DEFINE p == SavedPath
             h == SavedHash
  <2>1. /\ p = IF e.kind = "FileRenamed" THEN e.to ELSE e.path
        /\ h = IF e.kind = "FileRenamed" THEN disk[e.to] ELSE e.hash
    BY DEF SavedPath, SavedHash, e
  <2>2. /\ db' = IF h \in Hashes THEN [db EXCEPT ![p] = h] ELSE db
        /\ unwatched' = IF h \in Hashes THEN unwatched \ {p} ELSE unwatched
        /\ e.kind \in {"Created", "Modified", "FileRenamed"}
    BY <1>1, <1>9 DEF SaveFingerprint, HandlerFits, e
  <2> HIDE DEF p, h
  <2>3. CASE e.kind = "FileRenamed"
    <3>1. e \notin F
      BY <2>3 DEF F, Fixes, Vanishing
    <3>2. p \in Paths /\ (p = f => h = v)
      BY <1>1, <2>1, <2>3 DEF v
    <3>3. CASE p = f /\ h \in Hashes
      BY <1>1, <2>2, <3>2, <3>3
    <3>4. CASE ~(p = f /\ h \in Hashes)
      <4>1. db'[f] = db[f] /\ (f \in unwatched => f \in unwatched')
        BY <1>1, <1>3, <2>2, <3>2, <3>4
      <4> QED BY <1>4, <3>1, <4>1
    <3> QED BY <3>3, <3>4
  <2>4. CASE e.kind \in {"Created", "Modified"}
    <3>1. p = e.path /\ h = e.hash /\ h \in Hashes
      BY <1>1, <2>1, <2>4 DEF SoundEvent
    <3>2. CASE e.path = f
      <4>1. h = v \/ e \in N
        BY <1>1, <2>4, <3>1, <3>2 DEF N, Breaks
      <4>2. db'[f] = h
        BY <1>1, <1>3, <2>2, <3>1, <3>2
      <4> QED BY <1>5, <4>1, <4>2
    <3>3. CASE e.path # f
      <4>1. e \notin F /\ db'[f] = db[f] /\ (f \in unwatched => f \in unwatched')
        BY <1>1, <1>3, <2>2, <3>1, <3>3, OtherPath DEF F
      <4> QED BY <1>4, <4>1
    <3> QED BY <3>2, <3>3
  <2> QED BY <2>2, <2>3, <2>4
<1> QED BY <1>7, <1>8, <1>9 DEF Finish

LEMMA NextRows ==
    ASSUME TypeOK, PipeInv, RowsInv, WriteOutcomes = {TRUE}, [Next]_vars
    PROVE  RowsInv'
<1> SUFFICES ASSUME phase' = "running", NEW f \in Followed
             PROVE  RowInv(f)'
  BY DEF RowsInv
<1>1. phase = "running" => RowInv(f)
  BY DEF RowsInv
<1>2. CASE Environment
  BY <1>1, <1>2, EnvironmentRow DEF Environment, daemonVars
<1>3. CASE Watcher
  BY <1>1, <1>3, WatcherRow DEF Watcher, daemonVars
<1>4. CASE TakeEvent
  BY <1>1, <1>4, TakeEventRow, TakeEventDecides, ReceiveFacts
<1>5. CASE Finish
  BY <1>1, <1>5, FinishRow, FinishMain
<1>6. CASE StartWatcher
  <2>1. /\ raw' = <<>> /\ outbox' = <<>> /\ chan' = <<>>
        /\ UNCHANGED <<disk, db, main>> /\ main.pc = "idle"
        /\ unwatched' = {g \in Files : db[g] # disk[g]}
    BY <1>6 DEF StartWatcher, PipeInv, fsVars
  <2>2. f \in unwatched' \/ db[f] = disk[f]
    BY <2>1, FileValue
  <2> QED
    BY <2>1, <2>2, NothingAhead DEF RowInv, RowSettled, RowRight, InHand
<1>7. CASE Preload \/ Stop
  BY <1>7 DEF Preload, Stop, Crash, Terminate, Exit
<1>8. CASE UNCHANGED vars
  BY <1>1, <1>8 DEF vars, watcherVars, daemonVars, historyVars, RowInv
<1> QED
  BY <1>2, <1>3, <1>4, <1>5, <1>6, <1>7, <1>8 DEF Next, MainLoop, Startup

(* What repairs the row of f is an event that concerns f. *)
LEMMA FixesConcern ==
    ASSUME NEW f, NEW v, NEW e \in Fixes(f, v)
    PROVE  Concerns(e, f)
BY DEF Fixes, Vanishing, Concerns, ContentKinds

LEMMA RowsCurrent ==
    ASSUME RowsInv
    PROVE  BaselineCurrent
<1> SUFFICES ASSUME NEW f \in Followed, f \notin Behind PROVE db[f] = disk[f]
  BY DEF BaselineCurrent, B!Current
<1>1. /\ phase = "running" /\ f \notin unwatched
      /\ ~\E i \in DOMAIN raw : Concerns(raw[i], f)
      /\ ~\E i \in DOMAIN outbox : Concerns(outbox[i], f)
      /\ ~\E i \in DOMAIN chan : Concerns(chan[i], f)
      /\ main.pc # "idle" => ~Concerns(main.ev, f)
  BY DEF Behind, OnItsWay
<1>2. db[f] = disk[f] \/ Coming(InHand(main), chan, outbox, raw, Fixes(f, disk[f]))
  BY <1>1 DEF RowsInv, RowInv, RowRight
<1>3. ~Coming(InHand(main), chan, outbox, raw, Fixes(f, disk[f]))
  BY <1>1, FixesConcern DEF Coming, Ahead, In, InHand
<1> QED BY <1>2, <1>3

(* Where the database takes every write: while the daemon watches, the row *)
(* of a followed file holds the hash of what is on disk, or no hash if     *)
(* nothing is there, unless an event about the file is still queued or in  *)
(* hand or the file had drifted before anybody watched.  Each row was      *)
(* written from a fingerprint read at some earlier moment, possibly of     *)
(* another content; the fingerprint that is right is behind it in the line. *)
THEOREM BaselineAlwaysCurrent ==
    ASSUME WriteOutcomes = {TRUE}
    PROVE  Spec => []BaselineCurrent
<1>1. Init => RowsInv
  BY DEF Init, RowsInv
<1>2. TypeOK /\ PipeInv /\ RowsInv /\ [Next]_vars => RowsInv'
  BY NextRows
<1>3. RowsInv => BaselineCurrent
  BY RowsCurrent
<1> QED BY <1>1, <1>2, <1>3, PipeAlways, PTL DEF Spec

-----------------------------------------------------------------------------
(* The daemon implements Baseline                                          *)
(*                                                                         *)
(* Step by step: the file system touches files, an audit record of a       *)
(* change records, the two database writes adopt and forget rows, a stop   *)
(* loses sight, and everything else is catching up.  That a file leaves    *)
(* Behind only with a right row is BaselineCurrent in the next state; that *)
(* a row takes a recorded hash is AuditInv.                                *)

LEMMA BehindFollowed == Behind \subseteq Followed /\ Moved \subseteq Behind
BY DEF Behind, Moved, OnItsWay, MovesTo, Concerns, ContentKinds

LEMMA Settling ==
    ASSUME BaselineCurrent', Behind' \subseteq Behind, Moved' \subseteq Moved
    PROVE  B!Settles
<1>1. \A f \in Behind \ Behind' : db'[f] = disk'[f]
  BY BehindFollowed DEF BaselineCurrent, B!Current
<1>2. \A f \in Behind : f \in Followed
  BY BehindFollowed
<1> QED BY <1>1, <1>2 DEF B!Settles

LEMMA CatchingUp ==
    ASSUME BaselineCurrent', Behind' \subseteq Behind, Moved' \subseteq Moved,
           UNCHANGED disk, \A f \in Followed : db'[f] = db[f], UNCHANGED OnRecord
    PROVE  B!CatchUp
<1>1. [f \in Followed |-> db'[f]] = [f \in Followed |-> db[f]]
  OBVIOUS
<1>2. [f \in Followed |-> disk'[f]] = [f \in Followed |-> disk[f]]
  OBVIOUS
<1> QED BY <1>1, <1>2, Settling DEF B!CatchUp

(* Behind and Moved in the terms of the line of events. *)
About(f) == {e \in Event : Concerns(e, f)}
Onto(f) == {e \in Event : MovesTo(e, f)}
Sees(F) == Coming(InHand(main), chan, outbox, raw, F)

InTheLine ==
    \A f \in Followed :
        /\ f \in Behind <=> phase # "running" \/ f \in unwatched \/ Sees(About(f))
        /\ f \in Moved <=> Sees(Onto(f))

LEMMA LineSees == TypeOK => InTheLine
<1> SUFFICES ASSUME TypeOK, NEW f \in Followed
             PROVE  /\ f \in Behind <=>
                          phase # "running" \/ f \in unwatched \/ Sees(About(f))
                    /\ f \in Moved <=> Sees(Onto(f))
  BY DEF InTheLine
<1>1. /\ \A i \in DOMAIN raw : raw[i] \in Event
      /\ \A i \in DOMAIN outbox : outbox[i] \in Event
      /\ \A i \in DOMAIN chan : chan[i] \in Event
      /\ main.ev \in Event
  BY ElementOfSeq, LenProperties DEF TypeOK, WatcherTypeOK, Event
<1>2. OnItsWay(LAMBDA e : Concerns(e, f)) <=> Sees(About(f))
  BY <1>1 DEF OnItsWay, Sees, Coming, Ahead, In, InHand, About
<1>3. OnItsWay(LAMBDA e : MovesTo(e, f)) <=> Sees(Onto(f))
  BY <1>1 DEF OnItsWay, Sees, Coming, Ahead, In, InHand, Onto
<1> QED BY <1>2, <1>3 DEF Behind, Moved

LEMMA LineSeesNext == TypeOK' => InTheLine'
BY LineSees, PTL

(* What is on its way after a step was on its way before it. *)
LEMMA Shrinking ==
    ASSUME TypeOK, TypeOK', phase = "running", phase' = "running",
           unwatched' \subseteq unwatched,
           \A f \in Followed : /\ Sees(About(f))' => Sees(About(f))
                               /\ Sees(Onto(f))' => Sees(Onto(f))
    PROVE  Behind' \subseteq Behind /\ Moved' \subseteq Moved
<1>1. InTheLine /\ InTheLine'
  BY LineSees, LineSeesNext
<1>2. Behind' \subseteq Followed /\ Moved' \subseteq Followed
  BY DEF Behind, Moved
<1> QED BY <1>1, <1>2 DEF InTheLine

LEMMA CurrentNext == RowsInv' => BaselineCurrent'
<1>1. RowsInv => BaselineCurrent
  BY RowsCurrent
<1> QED BY <1>1, PTL

(* The FimEvents of a raw event are about the files it is about.           *)
NothingNew(e, evs) ==
    \A f \in Followed : /\ In(evs, About(f)) => e \in About(f)
                        /\ In(evs, Onto(f)) => e \in Onto(f)

LEMMA EventsNothingNew ==
    ASSUME NEW e \in RawEvent
    PROVE  /\ e.kind \in {"create", "to"} => NothingNew(e, Appeared(e))
           /\ e.kind \in {"from", "remove"} => NothingNew(e, Disappeared(e))
           /\ e.kind = "metadata" => NothingNew(e, MetadataTouched(e))
           /\ e.kind = "modify" => NothingNew(e, ContentTouched(e))
           /\ e.kind = "both" => NothingNew(e, Renamed(e))
<1>0. e \in Event
  BY DEF Event
<1>1. ASSUME NEW d, e.kind \in {"create", "to", "from", "remove", "modify"},
             d.path = e.path, d.to = e.path, d.kind \notin {"both", "FileRenamed"}
      PROVE  NothingNew(e, <<d>>)
  <2>1. \A f : d \notin Onto(f) /\ (d \in About(f) => e \in About(f))
    BY <1>0, <1>1 DEF About, Onto, Concerns, MovesTo, ContentKinds
  <2> QED BY <2>1, InOne DEF NothingNew
<1>2. ASSUME NEW k \in {"FileRenamed", "DirectoryRenamed"}, e.kind = "both"
      PROVE  NothingNew(e, <<RenameEvent(k, e.path, e.to)>>)
  <2> DEFINE d == RenameEvent(k, e.path, e.to)
  <2>1. d.path = e.path /\ d.to = e.to /\ d.kind = k
    BY DEF RenameEvent, PathEvent
  <2> HIDE DEF d
  <2>2. \A f : (d \in Onto(f) => e \in Onto(f)) /\ (d \in About(f) => e \in About(f))
    BY <1>0, <1>2, <2>1 DEF About, Onto, Concerns, MovesTo, ContentKinds
  <2>3. NothingNew(e, <<d>>)
    BY <2>2, InOne DEF NothingNew
  <2> QED BY <2>3 DEF d
<1>3. NothingNew(e, <<>>)
  BY InEmpty DEF NothingNew
<1>4. /\ \A k : /\ HashEvent(k, e.path).path = e.path
                /\ HashEvent(k, e.path).to = e.path /\ HashEvent(k, e.path).kind = k
      /\ \A k : /\ MetaEvent(k, e.path).path = e.path
                /\ MetaEvent(k, e.path).to = e.path /\ MetaEvent(k, e.path).kind = k
      /\ \A k : /\ PathEvent(k, e.path).path = e.path
                /\ PathEvent(k, e.path).to = e.path /\ PathEvent(k, e.path).kind = k
  BY DEF HashEvent, MetaEvent, PathEvent
<1>5. e.kind \in {"create", "to"} => NothingNew(e, Appeared(e))
  BY <1>1, <1>3, <1>4 DEF Appeared
<1>6. e.kind \in {"from", "remove"} => NothingNew(e, Disappeared(e))
  BY <1>1, <1>3, <1>4 DEF Disappeared
<1>7. NothingNew(e, MetadataTouched(e))
  <2>1. \A f, k : k \in {"perm", "owner"} =>
          MetaEvent(k, e.path) \notin About(f) /\ MetaEvent(k, e.path) \notin Onto(f)
    BY <1>4 DEF About, Onto, Concerns, MovesTo, ContentKinds
  <2>2. NothingNew(e, <<MetaEvent("perm", e.path), MetaEvent("owner", e.path)>>)
    BY <2>1, InTwo DEF NothingNew
  <2> QED BY <1>3, <2>2 DEF MetadataTouched
<1>8. e.kind = "modify" => NothingNew(e, ContentTouched(e))
  BY <1>1, <1>3, <1>4 DEF ContentTouched
<1>9. e.kind = "both" => NothingNew(e, Renamed(e))
  BY <1>2, <1>3 DEF Renamed
<1> QED BY <1>5, <1>6, <1>7, <1>8, <1>9

(* The watcher thread only passes events on. *)
LEMMA WatcherRefines ==
    ASSUME TypeOK, TypeOK', PipeInv, BaselineCurrent', Watcher
    PROVE  B!CatchUp
<1> DEFINE H == InHand(main)
           Goal == \A f \in Followed :
                     /\ Coming(H, chan', outbox', raw', About(f)) => Sees(About(f))
                     /\ Coming(H, chan', outbox', raw', Onto(f)) => Sees(Onto(f))
<1>1. UNCHANGED <<phase, main, db, audit, unwatched>> /\ WatcherThread
  BY DEF Watcher, daemonVars, historyVars
<1>2. ASSUME BlockingSend PROVE Goal /\ UNCHANGED disk /\ outbox # <<>>
  <2>1. outbox \in Seq(FimEvent) /\ chan \in Seq(FimEvent) /\ outbox # <<>>
    BY <1>2 DEF BlockingSend, TypeOK, WatcherTypeOK
  <2>2. Head(outbox) \in FimEvent
    BY <2>1, HeadTailProperties
  <2>3. /\ chan' = Append(chan, Head(outbox)) /\ outbox' = Tail(outbox)
        /\ UNCHANGED <<disk, raw>>
    BY <1>2 DEF BlockingSend
  <2>4. \A F : /\ In(chan', F) => In(chan, F) \/ Head(outbox) \in F
               /\ In(outbox, F) <=> Head(outbox) \in F \/ In(outbox', F)
    BY <2>1, <2>2, <2>3, InAppend, InTail
  <2>5. Goal
    BY <2>3, <2>4 DEF Sees, Coming, Ahead
  <2> QED BY <2>1, <2>3, <2>5
<1>3. ASSUME NEW kind, NEW evs, Handle(kind, evs),
             Head(raw).kind = kind => NothingNew(Head(raw), evs)
      PROVE  Goal /\ UNCHANGED disk /\ raw # <<>>
  <2>1. /\ raw \in Seq(RawEvent) /\ raw # <<>> /\ outbox = <<>>
        /\ raw' = Tail(raw) /\ outbox' = evs /\ UNCHANGED <<disk, chan>>
        /\ NothingNew(Head(raw), evs)
    BY <1>3 DEF Handle, TypeOK, WatcherTypeOK
  <2>2. \A F : In(raw, F) <=> Head(raw) \in F \/ In(raw', F)
    BY <2>1, InTail
  <2> QED BY <2>1, <2>2 DEF NothingNew, Sees, Coming, Ahead
<1> HIDE DEF Goal
<1>4. ASSUME NEW kind, NEW evs, Handle(kind, evs) PROVE Head(raw) \in RawEvent
  BY <1>4, HeadTailProperties DEF Handle, TypeOK, WatcherTypeOK
<1>5. Goal /\ UNCHANGED disk /\ (raw # <<>> \/ outbox # <<>>)
  <2>0. CASE BlockingSend BY <1>2, <2>0
  <2>1. CASE HandleCreate BY <1>3, <1>4, <2>1, EventsNothingNew DEF HandleCreate
  <2>2. CASE HandleNameTo BY <1>3, <1>4, <2>2, EventsNothingNew DEF HandleNameTo
  <2>3. CASE HandleNameFrom BY <1>3, <1>4, <2>3, EventsNothingNew DEF HandleNameFrom
  <2>4. CASE HandleRemove BY <1>3, <1>4, <2>4, EventsNothingNew DEF HandleRemove
  <2>5. CASE HandleMetadata BY <1>3, <1>4, <2>5, EventsNothingNew DEF HandleMetadata
  <2>6. CASE HandleModify BY <1>3, <1>4, <2>6, EventsNothingNew DEF HandleModify
  <2>7. CASE HandleNameBoth BY <1>3, <1>4, <2>7, EventsNothingNew DEF HandleNameBoth
  <2> QED
    BY <1>1, <2>0, <2>1, <2>2, <2>3, <2>4, <2>5, <2>6, <2>7 DEF WatcherThread
<1>6. phase = "running" /\ phase' = "running"
  BY <1>1, <1>5 DEF PipeInv
<1>7. Behind' \subseteq Behind /\ Moved' \subseteq Moved
  BY <1>1, <1>5, <1>6, Shrinking DEF Goal, Sees
<1>8. UNCHANGED OnRecord
  BY <1>1 DEF OnRecord
<1> QED BY <1>1, <1>5, <1>7, <1>8, CatchingUp

LEMMA FollowedValues ==
    TypeOK => \A f \in Followed : disk[f] \in Hashes \cup {Absent}
BY FileValue

LEMMA FollowedValuesNext ==
    TypeOK' => \A f \in Followed : disk'[f] \in Hashes \cup {Absent}
<1>1. (TypeOK => \A f \in Followed : disk[f] \in Hashes \cup {Absent})'
  BY FollowedValues, PTL
<1> QED BY <1>1

LEMMA MovedBehindNext == Moved' \subseteq Behind'
<1>1. Moved \subseteq Behind
  BY BehindFollowed
<1>2. (Moved \subseteq Behind)'
  BY <1>1, PTL
<1> QED BY <1>2

(* Nothing leaves the queue when an operation queues its notifications.    *)
LEMMA QueueGrows ==
    ASSUME TypeOK, FsNext, NEW F, In(raw, F)
    PROVE  In(raw', F)
<1>1. ASSUME NEW kind, NEW evs \in Seq(RawEvent), FsOp(kind, evs)
      PROVE  In(raw', F)
  <2>1. CASE watching
    <3>1. raw' = raw \o evs /\ raw \in Seq(RawEvent)
      BY <1>1, <2>1 DEF FsOp, TypeOK, WatcherTypeOK
    <3>2. \A i \in DOMAIN raw : i \in DOMAIN raw' /\ raw'[i] = raw[i]
      BY <3>1
    <3> QED BY <3>2 DEF In
  <2>2. CASE ~watching
    BY <1>1, <2>2 DEF FsOp
  <2> QED BY <2>1, <2>2
<1>2. /\ \A k \in RawKinds, x \in Paths : <<Raw(k, x)>> \in Seq(RawEvent)
      /\ \A x \in Paths, y \in Paths :
           <<Raw("from", x), Raw("to", y), [kind |-> "both", path |-> x, to |-> y]>>
             \in Seq(RawEvent)
  BY DEF Raw, RawEvent, RawKinds
<1>3. {"create", "modify", "metadata", "remove"} \subseteq RawKinds
  BY DEF RawKinds
<1>4. ASSUME NEW f \in Files, NEW h \in Hashes, NEW m \in Meta, CreateFile(f, h, m)
      PROVE  In(raw', F)
  BY <1>1, <1>2, <1>3, <1>4 DEF CreateFile, Paths
<1>5. ASSUME NEW d \in Dirs, NEW m \in Meta, MakeDir(d, m)
      PROVE  In(raw', F)
  BY <1>1, <1>2, <1>3, <1>5 DEF MakeDir, Paths
<1>6. ASSUME NEW f \in Files, NEW h \in Hashes, WriteFile(f, h)
      PROVE  In(raw', F)
  BY <1>1, <1>2, <1>3, <1>6 DEF WriteFile, Paths
<1>7. ASSUME NEW x \in Paths, NEW a \in Attrs, NEW v \in Vals, SetAttr(x, a, v)
      PROVE  In(raw', F)
  BY <1>1, <1>2, <1>3, <1>7 DEF SetAttr
<1>8. ASSUME NEW x \in Paths, NEW y \in Paths, Move(x, y)
      PROVE  In(raw', F)
  BY <1>1, <1>2, <1>8 DEF Move
<1>9. ASSUME NEW x \in Paths, RemovePath(x)
      PROVE  In(raw', F)
  BY <1>1, <1>2, <1>3, <1>9 DEF RemovePath
<1> QED BY <1>4, <1>5, <1>6, <1>7, <1>8, <1>9 DEF FsNext

(* The file system touches files: whatever differs afterwards is behind.   *)
LEMMA EnvironmentRefines ==
    ASSUME TypeOK, TypeOK', BaselineCurrent, BaselineCurrent', Environment
    PROVE  B!Touch
<1>1. UNCHANGED <<phase, main, db, audit, unwatched>> /\ FsNext
  BY DEF Environment, daemonVars, historyVars
<1>2. UNCHANGED <<outbox, chan>>
  BY <1>1 DEF FsNext, CreateFile, MakeDir, WriteFile, SetAttr, Move, RemovePath, FsOp
<1>3. \A f : Sees(About(f)) => Sees(About(f))'
  BY <1>1, <1>2, QueueGrows DEF Sees, Coming, Ahead
<1>4. InTheLine /\ InTheLine'
  BY LineSees, LineSeesNext
<1>5. Behind \subseteq Behind'
  BY <1>1, <1>3, <1>4, BehindFollowed DEF InTheLine, Behind
<1>6. \A f \in Followed : f \in Behind' \/ disk'[f] = disk[f]
  BY <1>1, <1>5 DEF BaselineCurrent, B!Current
<1>7. [f \in Followed |-> disk'[f]] \in [Followed -> B!Values]
  BY FollowedValuesNext DEF B!Values
<1>8. UNCHANGED <<[f \in Followed |-> db[f]], OnRecord>>
  BY <1>1 DEF OnRecord
<1> QED BY <1>5, <1>6, <1>7, <1>8, MovedBehindNext DEF B!Touch

(* The main loop takes an event in hand, or drops it.                      *)
LEMMA TakeEventRefines ==
    ASSUME TypeOK, TypeOK', PipeInv, BaselineCurrent', TakeEvent
    PROVE  B!CatchUp
<1> DEFINE e == Head(chan)
<1>1. /\ chan # <<>> /\ chan \in Seq(FimEvent) /\ chan' = Tail(chan)
      /\ UNCHANGED <<disk, raw, outbox, db, audit, phase>>
      /\ main.pc = "idle" /\ phase = "running"
  BY TakeEventDecides, ReceiveFacts DEF TypeOK, WatcherTypeOK
<1>2. UNCHANGED unwatched
  BY DEF TakeEvent, OnModified, OnCreated, OnDirectoryCreated, RegisterDir,
         OnDirectoryRenamed, OnFileRenamed, OnDeleted, OnAttrChanged, historyVars
<1>3. InHand(main') \subseteq {e}
  BY TakeEventDecides, IdleFits DEF Decided, InHand
<1>4. \A F : In(chan, F) <=> e \in F \/ In(chan', F)
  BY <1>1, InTail
<1>5. \A F : Sees(F)' => Sees(F)
  BY <1>1, <1>3, <1>4 DEF Sees, Coming, Ahead
<1>6. Behind' \subseteq Behind /\ Moved' \subseteq Moved
  BY <1>1, <1>2, <1>5, Shrinking
<1>7. UNCHANGED OnRecord
  BY <1>1 DEF OnRecord
<1> QED BY <1>1, <1>6, <1>7, CatchingUp

(* The handler's writes.  What is in hand stays in hand, or is done.       *)
LEMMA FinishShrinks ==
    ASSUME TypeOK, TypeOK', PipeInv, Finish
    PROVE  /\ Behind' \subseteq Behind /\ Moved' \subseteq Moved
           /\ UNCHANGED disk
<1>1. /\ UNCHANGED <<disk, chan, outbox, raw, phase>> /\ phase = "running"
      /\ main.pc # "idle"
  BY FinishMain DEF watcherVars
<1>2. InHand(main') \subseteq InHand(main)
  BY FinishMain, IdleFits DEF InHand
<1>3. unwatched' \subseteq unwatched
  BY DEF Finish, RecordAuditLog, RegisterDir, DeleteFingerprint, SaveFingerprint, historyVars
<1>4. \A F : Sees(F)' => Sees(F)
  BY <1>1, <1>2 DEF Sees, Coming
<1> QED BY <1>1, <1>3, <1>4, Shrinking

(* What the event in hand is about is behind.                              *)
LEMMA InHandBehind ==
    ASSUME main.pc # "idle", NEW f \in Followed
    PROVE  /\ Concerns(main.ev, f) => f \in Behind
           /\ MovesTo(main.ev, f) => f \in Moved
BY DEF Behind, Moved, OnItsWay

LEMMA RecordRefines ==
    ASSUME TypeOK, TypeOK', PipeInv, BaselineCurrent', RecordAuditLog,
           WriteOutcomes = {TRUE}
    PROVE  B!CatchUp \/ \E f \in Followed, h \in Hashes : B!Record(f, h)
<1> DEFINE r == main.rec
           Change(s) == s.path \in Followed /\ s.action \in {"FILE_TAMPERING", "PACKAGE_UPDATE"}
<1>1. Behind' \subseteq Behind /\ Moved' \subseteq Moved /\ UNCHANGED disk
  BY FinishShrinks DEF Finish
<1>2. audit' = audit \cup {r} /\ UNCHANGED db
  BY DEF RecordAuditLog, Logged
<1>3. CASE ~Change(r)
  <2>1. UNCHANGED OnRecord
    BY <1>2, <1>3 DEF OnRecord
  <2> QED BY <1>1, <1>2, <2>1, CatchingUp
<1>4. CASE Change(r)
  <2>1. OnRecord' = OnRecord \cup {<<r.path, r.fact>>}
    BY <1>2, <1>4 DEF OnRecord
  <2>2. RecordFits(main.ev, r) /\ main.ev \in SoundEvent
    BY DEF RecordAuditLog, PipeInv, HandlerFits
  <2>3. r.fact \in Hashes
    BY <1>4, <2>2 DEF RecordFits, SoundEvent, AttrAction
  <2>4. B!Settles
    BY <1>1, Settling
  <2>5. ASSUME NEW f \in Followed, NEW h \in Hashes, f = r.path, h = r.fact
        PROVE  B!Record(f, h)
    BY <1>1, <1>2, <2>1, <2>4, <2>5 DEF B!Record
  <2> QED BY <1>4, <2>3, <2>5
<1> QED BY <1>3, <1>4

LEMMA DeleteRefines ==
    ASSUME TypeOK, TypeOK', PipeInv, BaselineCurrent', DeleteFingerprint,
           WriteOutcomes = {TRUE}
    PROVE  B!CatchUp \/ \E f \in Followed : B!Forget(f)
<1> DEFINE p == main.ev.path
<1>1. Behind' \subseteq Behind /\ Moved' \subseteq Moved /\ UNCHANGED disk
  BY FinishShrinks DEF Finish
<1>2. /\ db' = [db EXCEPT ![p] = Absent] /\ UNCHANGED audit
      /\ main.pc # "idle" /\ main.ev.kind \in {"Deleted", "FileRenamed"}
      /\ db \in [Paths -> Hashes \cup {Absent}]
  BY DEF DeleteFingerprint, PipeInv, HandlerFits, TypeOK
<1>3. UNCHANGED OnRecord
  BY <1>2 DEF OnRecord
<1>4. \A f \in Followed : f \in Paths
  BY FileValue
<1> HIDE DEF p
<1>5. CASE p \notin Followed
  <2>1. \A f \in Followed : db'[f] = db[f]
    BY <1>2, <1>4, <1>5
  <2> QED BY <1>1, <1>3, <2>1, CatchingUp
<1>6. CASE p \in Followed
  <2>1. [f \in Followed |-> db'[f]] = [[f \in Followed |-> db[f]] EXCEPT ![p] = Absent]
    BY <1>2, <1>4, <1>6
  <2>2. p \in Behind
    BY <1>2, <1>6, InHandBehind DEF p, Concerns, ContentKinds
  <2>3. B!Settles
    BY <1>1, Settling
  <2>4. UNCHANGED [f \in Followed |-> disk[f]]
    BY <1>1
  <2>5. ASSUME NEW f \in Followed, f = p PROVE B!Forget(f)
    BY <1>3, <2>1, <2>2, <2>3, <2>4, <2>5 DEF B!Forget
  <2> QED BY <1>6, <2>5
<1> QED BY <1>5, <1>6

(* A change that is on record, in the terms of Baseline. *)
LEMMA AuditedOnRecord ==
    ASSUME NEW f \in Followed, NEW h, Audited(f, h)
    PROVE  <<f, h>> \in OnRecord
BY DEF Audited, ChangeActions, Rec, OnRecord

LEMMA SaveRefines ==
    ASSUME TypeOK, TypeOK', PipeInv, AuditInv, BaselineCurrent', SaveFingerprint,
           WriteOutcomes = {TRUE}
    PROVE  B!CatchUp \/ \E f \in Followed, h \in Hashes : B!Adopt(f, h)
<1> DEFINE e == main.ev
           p == SavedPath
           h == SavedHash
<1>1. Behind' \subseteq Behind /\ Moved' \subseteq Moved /\ UNCHANGED disk
  BY FinishShrinks DEF Finish
<1>2. /\ db' = IF h \in Hashes THEN [db EXCEPT ![p] = h] ELSE db
      /\ UNCHANGED audit
      /\ main.pc = "save" /\ e.kind \in {"Created", "Modified", "FileRenamed"}
      /\ db \in [Paths -> Hashes \cup {Absent}]
  BY DEF SaveFingerprint, PipeInv, HandlerFits, TypeOK
<1>3. UNCHANGED OnRecord
  BY <1>2 DEF OnRecord
<1>4. \A f \in Followed : f \in Paths
  BY FileValue
<1>5. /\ p = IF e.kind = "FileRenamed" THEN e.to ELSE e.path
      /\ h = IF e.kind = "FileRenamed" THEN disk[e.to] ELSE e.hash
  BY DEF SavedPath, SavedHash
<1> HIDE DEF e, p, h
<1>6. CASE p \notin Followed \/ h \notin Hashes \/ db[p] = h
  <2>1. \A f \in Followed : db'[f] = db[f]
    BY <1>2, <1>4, <1>6
  <2> QED BY <1>1, <1>3, <2>1, CatchingUp
<1>7. CASE p \in Followed /\ h \in Hashes /\ db[p] # h
  <2>1. [f \in Followed |-> db'[f]] = [[f \in Followed |-> db[f]] EXCEPT ![p] = h]
    BY <1>2, <1>4, <1>7
  <2>2. Concerns(e, p)
    BY <1>2, <1>5 DEF Concerns, ContentKinds
  <2>3. p \in Behind
    BY <1>2, <1>7, <2>2, InHandBehind DEF e
  <2> DEFINE Licence == \/ db[p] = Absent
                        \/ <<p, h>> \in OnRecord
                        \/ p \in Moved /\ h = disk[p]
  <2>4. ASSUME e.kind = "FileRenamed" PROVE Licence
    <3>1. p \in Moved /\ h = disk[p]
      BY <1>2, <1>5, <1>7, <2>4, InHandBehind DEF e, MovesTo
    <3> QED BY <3>1
  <2>5. ASSUME e.kind # "FileRenamed" PROVE Licence
    <3>1. p = e.path /\ h = e.hash /\ ChangeInHand
      BY <1>2, <1>5, <2>5 DEF ChangeInHand, e
    <3>2. db[p] = Absent \/ Audited(p, h)
      BY <1>2, <1>7, <3>1 DEF AuditInv, ChangeInHandAudited, BeingAudited, e
    <3> QED BY <1>7, <3>2, AuditedOnRecord
  <2>6. UNCHANGED [f \in Followed |-> disk[f]]
    BY <1>1
  <2>7. B!Settles
    BY <1>1, Settling
  <2>8. ASSUME NEW f \in Followed, NEW g \in Hashes, f = p, g = h
        PROVE  B!Adopt(f, g)
    BY <1>3, <2>1, <2>3, <2>4, <2>5, <2>6, <2>7, <2>8 DEF B!Adopt
  <2> QED BY <1>7, <2>8
<1> QED BY <1>6, <1>7

(* The daemon's own records are no changes. *)
LEMMA LifecycleNoChange ==
    ASSUME NEW act \in {"DAEMON_START", "DAEMON_STOP"}, Logged(Lifecycle(act))
    PROVE  UNCHANGED OnRecord
<1>1. Lifecycle(act).action = act
  BY DEF Lifecycle, Rec
<1> QED BY <1>1 DEF Logged, OnRecord

LEMMA StartupRefines ==
    ASSUME TypeOK, PipeInv, BaselineCurrent', Startup
    PROVE  B!CatchUp
<1>1. /\ phase # "running" /\ UNCHANGED <<disk, db, raw, outbox, chan, main>>
  BY DEF Startup, Preload, StartWatcher, watcherVars, fsVars
<1>2. raw = <<>> /\ outbox = <<>> /\ chan = <<>> /\ main.pc = "idle"
  BY <1>1 DEF PipeInv
<1>3. Behind' \subseteq Behind
  BY <1>1 DEF Behind
<1>4. Moved' = {}
  BY <1>1, <1>2 DEF Moved, OnItsWay
<1>5. UNCHANGED OnRecord
  <2>1. CASE Preload
    BY <2>1, LifecycleNoChange DEF Preload
  <2>2. CASE StartWatcher
    BY <2>2 DEF StartWatcher, OnRecord
  <2> QED BY <2>1, <2>2 DEF Startup
<1> QED BY <1>1, <1>3, <1>4, <1>5, CatchingUp

LEMMA StopRefines ==
    ASSUME Stop
    PROVE  B!LoseSight
<1>1. /\ phase' = "stopped" /\ UNCHANGED <<disk, db>>
      /\ raw' = <<>> /\ outbox' = <<>> /\ chan' = <<>> /\ main' = Idle
  BY DEF Stop, Crash, Terminate, Exit, fsVars
<1>2. Behind' = Followed
  BY <1>1 DEF Behind
<1>3. Moved' = {}
  BY <1>1, IdleFits DEF Moved, OnItsWay
<1>4. UNCHANGED OnRecord
  <2>1. CASE Crash
    BY <2>1 DEF Crash, OnRecord
  <2>2. CASE Terminate
    BY <2>2, LifecycleNoChange DEF Terminate
  <2> QED BY <2>1, <2>2 DEF Stop
<1> QED BY <1>1, <1>2, <1>3, <1>4 DEF B!LoseSight

LEMMA InitRefines ==
    ASSUME Init
    PROVE  B!Init
<1>1. TypeOK
  BY InitType
<1>2. Behind = Followed
  BY DEF Behind, Init
<1>3. Moved = {}
  BY IdleFits DEF Moved, OnItsWay, Init, WatcherInit
<1>4. OnRecord = {}
  BY DEF OnRecord, Init
<1>5. /\ [f \in Followed |-> disk[f]] \in [Followed -> B!Values]
      /\ [f \in Followed |-> db[f]] \in [Followed -> B!Values]
  BY <1>1, FileValue DEF B!Values
<1> QED BY <1>2, <1>3, <1>4, <1>5 DEF B!Init

LEMMA NextRefines ==
    ASSUME TypeOK, TypeOK', PipeInv, AuditInv, RowsInv, RowsInv',
           WriteOutcomes = {TRUE}, [Next]_vars
    PROVE  [B!Next]_B!vars
<1>1. BaselineCurrent /\ BaselineCurrent'
  BY RowsCurrent, CurrentNext
<1>2. CASE Environment
  BY <1>1, <1>2, EnvironmentRefines DEF B!Next
<1>3. CASE Watcher
  BY <1>1, <1>3, WatcherRefines DEF B!Next
<1>4. CASE TakeEvent
  BY <1>1, <1>4, TakeEventRefines DEF B!Next
<1>5. CASE RecordAuditLog
  BY <1>1, <1>5, RecordRefines DEF B!Next
<1>6. CASE DeleteFingerprint
  BY <1>1, <1>6, DeleteRefines DEF B!Next
<1>7. CASE SaveFingerprint
  BY <1>1, <1>7, SaveRefines DEF B!Next
<1>8. CASE Startup
  BY <1>1, <1>8, StartupRefines DEF B!Next
<1>9. CASE Stop
  BY <1>9, StopRefines DEF B!Next
<1>10. CASE UNCHANGED vars
  BY <1>10 DEF vars, watcherVars, daemonVars, historyVars, B!vars,
               Behind, Moved, OnItsWay, OnRecord
<1> QED
  BY <1>2, <1>3, <1>4, <1>5, <1>6, <1>7, <1>8, <1>9, <1>10
     DEF Next, MainLoop, Finish

(* Where the database takes every write, the daemon with its watcher       *)
(* thread, its queues, its debounce map and its stops implements Baseline: *)
(* a row is wrong only while an event about its file is on its way or      *)
(* nobody watched, and it is replaced only by a hash the audit log names   *)
(* or by what a rename put there.                                          *)
THEOREM DaemonRefinesBaseline ==
    ASSUME WriteOutcomes = {TRUE}
    PROVE  Spec => RefinesBaseline
<1>1. Init => RowsInv /\ AuditInv
  BY InitAuditInv DEF Init, RowsInv
<1>2. TypeOK /\ PipeInv /\ RowsInv /\ [Next]_vars => RowsInv'
  BY NextRows
<1>3. TypeOK /\ AuditInv /\ [Next]_vars => AuditInv'
  BY NextAuditInv
<1>4. Init => B!Init
  BY InitRefines
<1>5. TypeOK /\ TypeOK' /\ PipeInv /\ AuditInv /\ RowsInv /\ RowsInv' /\ [Next]_vars
        => [B!Next]_B!vars
  BY NextRefines
<1> QED
  BY <1>1, <1>2, <1>3, <1>4, <1>5, PipeAlways, PTL DEF Spec, RefinesBaseline, B!Spec
=============================================================================
