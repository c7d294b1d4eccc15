---------------------------- MODULE FimMapsProofs ----------------------------
(***************************************************************************)
(* What is on its way through the daemon, and what it is good for.         *)
(*                                                                         *)
(* An event travels from the raw queue of the notify backend through the   *)
(* hands of the watcher thread (outbox) and the channel (chan) into the    *)
(* handler.  Seen from one path, and from what is on disk there NOW, some  *)
(* events will set the daemon's picture of the path right and some will    *)
(* spoil it: a Deleted of a file that is back spoils, the Created behind   *)
(* it repairs.  The lemmas below are about a line of four places, with the *)
(* events that spoil (B) and that repair (F) as parameters; the invariant  *)
(* of each proof is that nothing spoils that is not repaired by something  *)
(* behind it.                                                              *)
(*                                                                         *)
(* The last section is about the alerts: what is not alerted again had its *)
(* alert.                                                                  *)
(***************************************************************************)
EXTENDS FimDaemonProofs, SequenceTheorems

-----------------------------------------------------------------------------
(* Lines of events *)

In(s, F) == \E i \in DOMAIN s : s[i] \in F

(* Every member of B in s has a member of F behind it in s. *)
Covered(s, B, F) ==
    \A i \in DOMAIN s : s[i] \in B => \E j \in DOMAIN s : j > i /\ s[j] \in F

Ahead(c, o, r, F) == In(c, F) \/ In(o, F) \/ In(r, F)

(* H is what the handler has in hand and still has to carry out: no event  *)
(* or one.  The handler's event came before c, c before o, o before r.     *)
Settled(H, c, o, r, B, F) ==
    /\ Covered(r, B, F)
    /\ In(r, F) \/ Covered(o, B, F)
    /\ In(o, F) \/ In(r, F) \/ Covered(c, B, F)
    /\ H \cap B # {} => Ahead(c, o, r, F)

LEMMA InEmpty ==
    ASSUME NEW F
    PROVE  ~In(<<>>, F)
BY DEF In

LEMMA InAppend ==
    ASSUME NEW S, NEW s \in Seq(S), NEW e \in S, NEW F
    PROVE  In(Append(s, e), F) <=> In(s, F) \/ e \in F
<1>1. /\ DOMAIN Append(s, e) = 1 .. Len(s) + 1
      /\ \A i \in 1 .. Len(s) : Append(s, e)[i] = s[i]
      /\ Append(s, e)[Len(s) + 1] = e
  BY AppendProperties
<1>2. DOMAIN s = 1 .. Len(s) /\ Len(s) \in Nat
  BY LenProperties
<1>3. ASSUME In(Append(s, e), F) PROVE In(s, F) \/ e \in F
  BY <1>1, <1>2, <1>3 DEF In
<1>4. ASSUME In(s, F) \/ e \in F PROVE In(Append(s, e), F)
  BY <1>1, <1>2, <1>4 DEF In
<1> QED BY <1>3, <1>4

LEMMA CoveredAppend ==
    ASSUME NEW S, NEW s \in Seq(S), NEW e \in S, NEW B, NEW F, e \notin B,
           e \in F \/ Covered(s, B, F)
    PROVE  Covered(Append(s, e), B, F)
<1>1. /\ DOMAIN Append(s, e) = 1 .. Len(s) + 1
      /\ \A i \in 1 .. Len(s) : Append(s, e)[i] = s[i]
      /\ Append(s, e)[Len(s) + 1] = e
  BY AppendProperties
<1>2. DOMAIN s = 1 .. Len(s) /\ Len(s) \in Nat
  BY LenProperties
<1> DEFINE t == Append(s, e)
<1> HIDE DEF t
<1> SUFFICES ASSUME NEW i \in 1 .. Len(s) + 1, t[i] \in B
             PROVE  \E j \in 1 .. Len(s) + 1 : j > i /\ t[j] \in F
  BY <1>1 DEF Covered, t
<1>3. i \in 1 .. Len(s) /\ s[i] \in B
  BY <1>1, <1>2 DEF t
<1>4. CASE e \in F
  BY <1>1, <1>2, <1>3, <1>4 DEF t
<1>5. CASE Covered(s, B, F)
  <2>1. PICK j \in 1 .. Len(s) : j > i /\ s[j] \in F
    BY <1>2, <1>3, <1>5 DEF Covered
  <2>2. j \in 1 .. Len(s) + 1 /\ t[j] = s[j]
    BY <1>1, <1>2, <2>1 DEF t
  <2> QED BY <2>1, <2>2
<1> QED BY <1>4, <1>5

(* What the lemmas need of the tail of a sequence. *)
LEMMA TailIndex ==
    ASSUME NEW S, NEW s \in Seq(S), s # <<>>
    PROVE  /\ Len(s) \in Nat /\ DOMAIN s = 1 .. Len(s) /\ 1 \in DOMAIN s
           /\ Head(s) = s[1]
           /\ DOMAIN Tail(s) = 1 .. Len(s) - 1
           /\ \A i \in 1 .. Len(s) - 1 : Tail(s)[i] = s[i + 1]
<1>1. Len(s) \in Nat /\ DOMAIN s = 1 .. Len(s) /\ Len(s) # 0
  BY LenProperties, EmptySeq
<1>2. /\ Tail(s) \in Seq(S) /\ Len(Tail(s)) = Len(s) - 1
      /\ \A i \in 1 .. Len(Tail(s)) : Tail(s)[i] = s[i + 1]
  BY HeadTailProperties
<1>3. DOMAIN Tail(s) = 1 .. Len(Tail(s))
  BY <1>2, LenProperties
<1> QED BY <1>1, <1>2, <1>3

LEMMA InTail ==
    ASSUME NEW S, NEW s \in Seq(S), s # <<>>, NEW F
    PROVE  In(s, F) <=> Head(s) \in F \/ In(Tail(s), F)
<1> DEFINE t == Tail(s)
<1>1. /\ Len(s) \in Nat /\ DOMAIN s = 1 .. Len(s) /\ 1 \in DOMAIN s
      /\ Head(s) = s[1]
      /\ DOMAIN t = 1 .. Len(s) - 1
      /\ \A i \in 1 .. Len(s) - 1 : t[i] = s[i + 1]
  BY TailIndex
<1> HIDE DEF t
<1>2. ASSUME NEW i \in DOMAIN s, s[i] \in F PROVE Head(s) \in F \/ In(t, F)
  <2>1. CASE i = 1 BY <1>1, <1>2, <2>1
  <2>2. CASE i # 1
    <3>1. i - 1 \in 1 .. Len(s) - 1 /\ (i - 1) + 1 = i
      BY <1>1, <2>2
    <3>2. t[i - 1] = s[i]
      BY <1>1, <3>1
    <3> QED BY <1>1, <1>2, <3>1, <3>2 DEF In
  <2> QED BY <2>1, <2>2
<1>3. ASSUME NEW i \in DOMAIN t, t[i] \in F PROVE In(s, F)
  <2>1. i + 1 \in DOMAIN s /\ s[i + 1] \in F
    BY <1>1, <1>3
  <2> QED BY <2>1 DEF In
<1> QED BY <1>1, <1>2, <1>3 DEF In, t

LEMMA CoveredTail ==
    ASSUME NEW S, NEW s \in Seq(S), s # <<>>, NEW B, NEW F, Covered(s, B, F)
    PROVE  /\ Covered(Tail(s), B, F)
           /\ Head(s) \in B => In(Tail(s), F)
<1> DEFINE t == Tail(s)
<1>1. /\ Len(s) \in Nat /\ DOMAIN s = 1 .. Len(s) /\ 1 \in DOMAIN s
      /\ Head(s) = s[1]
      /\ DOMAIN t = 1 .. Len(s) - 1
      /\ \A i \in 1 .. Len(s) - 1 : t[i] = s[i + 1]
  BY TailIndex
<1> HIDE DEF t
<1>2. ASSUME NEW i \in DOMAIN s, s[i] \in B
      PROVE  \E j \in DOMAIN t : j + 1 > i /\ t[j] \in F
  <2>1. PICK j \in DOMAIN s : j > i /\ s[j] \in F
    BY <1>2 DEF Covered
  <2>2. j - 1 \in 1 .. Len(s) - 1 /\ (j - 1) + 1 = j
    BY <1>1, <2>1
  <2>3. t[j - 1] = s[j]
    BY <1>1, <2>2
  <2> QED BY <1>1, <2>1, <2>2, <2>3
<1>3. Head(s) \in B => In(t, F)
  BY <1>1, <1>2 DEF In
<1>4. ASSUME NEW i \in DOMAIN t, t[i] \in B
      PROVE  \E j \in DOMAIN t : j > i /\ t[j] \in F
  <2>1. i + 1 \in DOMAIN s /\ s[i + 1] \in B
    BY <1>1, <1>4
  <2>2. PICK j \in DOMAIN t : j + 1 > i + 1 /\ t[j] \in F
    BY <2>1, <1>2
  <2>3. j \in Nat /\ i \in Nat
    BY <1>1
  <2> QED BY <2>2, <2>3
<1> QED BY <1>3, <1>4 DEF Covered, t

(* Nothing is on its way. *)
LEMMA NothingAhead ==
    ASSUME NEW B, NEW F
    PROVE  Settled({}, <<>>, <<>>, <<>>, B, F) /\ ~Ahead(<<>>, <<>>, <<>>, F)
BY DEF Settled, Covered, Ahead, In

(* A file-system operation queues an event that repairs: whatever came     *)
(* before it no longer matters.                                            *)
LEMMA RepairArrives ==
    ASSUME NEW S, NEW r \in Seq(S), NEW e \in S, NEW H, NEW c, NEW o, NEW B, NEW F,
           e \in F, e \notin B
    PROVE  Settled(H, c, o, Append(r, e), B, F) /\ Ahead(c, o, Append(r, e), F)
<1>1. In(Append(r, e), F)
  BY InAppend
<1>2. Covered(Append(r, e), B, F)
  BY CoveredAppend
<1> QED BY <1>1, <1>2 DEF Settled, Ahead

(* It queues one that does not spoil anything. *)
LEMMA HarmlessArrives ==
    ASSUME NEW S, NEW r \in Seq(S), NEW e \in S, NEW H, NEW c, NEW o, NEW B, NEW F,
           e \notin B
    PROVE  /\ Settled(H, c, o, r, B, F) => Settled(H, c, o, Append(r, e), B, F)
           /\ Ahead(c, o, r, F) => Ahead(c, o, Append(r, e), F)
<1>1. In(r, F) => In(Append(r, e), F)
  BY InAppend
<1>2. Covered(r, B, F) => Covered(Append(r, e), B, F)
  BY CoveredAppend
<1> QED BY <1>1, <1>2 DEF Settled, Ahead

(* The watcher thread turns the oldest raw event into evs: it repairs if   *)
(* the raw event did, and spoils only if the raw event did.                *)
LEMMA Converted ==
    ASSUME NEW S, NEW r \in Seq(S), r # <<>>, NEW evs, NEW H, NEW c, NEW B, NEW F,
           Head(r) \in F => In(evs, F),
           In(evs, B) => Head(r) \in B
    PROVE  /\ Settled(H, c, <<>>, r, B, F) => Settled(H, c, evs, Tail(r), B, F)
           /\ Ahead(c, <<>>, r, F) => Ahead(c, evs, Tail(r), F)
<1>1. In(r, F) => In(evs, F) \/ In(Tail(r), F)
  BY InTail
<1>2. Covered(r, B, F) => Covered(Tail(r), B, F) /\ (Head(r) \in B => In(Tail(r), F))
  BY CoveredTail
<1>3. ~In(evs, B) => Covered(evs, B, F)
  BY DEF In, Covered
<1>4. ~In(<<>>, F)
  BY InEmpty
<1> QED BY <1>1, <1>2, <1>3, <1>4 DEF Settled, Ahead

(* It sends the first of them. *)
LEMMA Sent ==
    ASSUME NEW S, NEW o \in Seq(S), o # <<>>, NEW c \in Seq(S),
           NEW H, NEW r, NEW B, NEW F
    PROVE  /\ Settled(H, c, o, r, B, F)
                => Settled(H, Append(c, Head(o)), Tail(o), r, B, F)
           /\ Ahead(c, o, r, F) => Ahead(Append(c, Head(o)), Tail(o), r, F)
<1> DEFINE e == Head(o)
<1>0. e \in S
  BY HeadTailProperties
<1> HIDE DEF e
<1>1. In(o, F) <=> e \in F \/ In(Tail(o), F)
  BY InTail DEF e
<1>2. Covered(o, B, F) => Covered(Tail(o), B, F) /\ (e \in B => In(Tail(o), F))
  BY CoveredTail DEF e
<1>3. In(Append(c, e), F) <=> In(c, F) \/ e \in F
  BY <1>0, InAppend
<1>4. e \notin B /\ (e \in F \/ Covered(c, B, F)) => Covered(Append(c, e), B, F)
  BY <1>0, CoveredAppend
<1>5. ASSUME Settled(H, c, o, r, B, F) PROVE Settled(H, Append(c, e), Tail(o), r, B, F)
  <2>1. In(r, F) \/ Covered(Tail(o), B, F)
    BY <1>2, <1>5 DEF Settled
  <2>2. In(Tail(o), F) \/ In(r, F) \/ Covered(Append(c, e), B, F)
    BY <1>1, <1>2, <1>4, <1>5 DEF Settled
  <2> QED BY <1>1, <1>3, <1>5, <2>1, <2>2 DEF Settled, Ahead
<1> QED BY <1>1, <1>3, <1>5 DEF Ahead, e

(* The main loop takes the first from the channel. *)
LEMMA Taken ==
    ASSUME NEW S, NEW c \in Seq(S), c # <<>>, NEW H, NEW G, G \subseteq {Head(c)},
           NEW o, NEW r, NEW B, NEW F
    PROVE  /\ Settled(H, c, o, r, B, F) => Settled(G, Tail(c), o, r, B, F)
           /\ Settled(H, c, o, r, B, F) /\ Head(c) \in B => Ahead(Tail(c), o, r, F)
           /\ Ahead(c, o, r, F) => Head(c) \in F \/ Ahead(Tail(c), o, r, F)
<1>1. In(c, F) <=> Head(c) \in F \/ In(Tail(c), F)
  BY InTail
<1>2. Covered(c, B, F) => Covered(Tail(c), B, F) /\ (Head(c) \in B => In(Tail(c), F))
  BY CoveredTail
<1>3. Settled(H, c, o, r, B, F) /\ Head(c) \in B => Ahead(Tail(c), o, r, F)
  BY <1>2 DEF Settled, Ahead
<1>4. G \cap B # {} => Head(c) \in B
  OBVIOUS
<1> QED BY <1>1, <1>2, <1>3, <1>4 DEF Settled, Ahead

(* A handler is over, or has done its part. *)
LEMMA Dropped ==
    ASSUME NEW H, NEW G, G \subseteq H, NEW c, NEW o, NEW r, NEW B, NEW F,
           Settled(H, c, o, r, B, F)
    PROVE  Settled(G, c, o, r, B, F)
BY DEF Settled

(* An event that repairs or spoils is on its way: so is one that repairs.  *)
LEMMA CarriedOn ==
    ASSUME NEW H, NEW c, NEW o, NEW r, NEW B, NEW F,
           Settled(H, c, o, r, B, F), NEW G, G \subseteq B \cup F,
           Ahead(c, o, r, G)
    PROVE  Ahead(c, o, r, F)
<1>1. \A s : In(s, G) => In(s, B) \/ In(s, F)
  BY DEF In
<1>2. \A s : In(s, B) /\ Covered(s, B, F) => In(s, F)
  BY DEF In, Covered
<1> QED BY <1>1, <1>2 DEF Settled, Ahead

-----------------------------------------------------------------------------
(* What the queues hold, whatever the database does *)

(* An event is about the kind of path it claims to be about and carries    *)
(* what its handler reads.                                                 *)
SoundEvent ==
    {e \in FimEvent :
        /\ e.kind \in {"Created", "Modified"} => e.path \in Files /\ e.hash \in Hashes
        /\ e.kind = "DirectoryCreated" => e.path \in Dirs
        /\ e.kind \in {"DirectoryCreated", "perm", "owner"} => e.meta \in Meta}

ContentActions == {"FILE_TAMPERING", "PACKAGE_UPDATE", "FILE_CREATED"}

(* The record a handler is about to write tells which handler it is.       *)
RecordFits(e, r) ==
    \/ /\ e.kind \in {"Created", "Modified"}
       /\ r.action \in ContentActions /\ r.path = e.path /\ r.fact = e.hash
    \/ e.kind = "DirectoryCreated" /\ r.action = "DIR_CREATED"
    \/ e.kind = "DirectoryRenamed" /\ r.action = "DIR_RENAMED"
    \/ e.kind = "FileRenamed" /\ r.action = "FILE_RENAMED"
    \/ e.kind = "Deleted" /\ r.action = "FILE_DELETED"
    \/ e.kind = "Deleted" /\ r.action = "DIR_DELETED" /\ e.path \in Dirs
    \/ \E a \in Attrs : e.kind = a /\ r.action = AttrAction(a)

HandlerFits(m) ==
    /\ m.pc = "audit" => RecordFits(m.ev, m.rec)
    /\ m.pc = "delete" => m.ev.kind \in {"Deleted", "FileRenamed"}
    /\ m.pc = "save" => m.ev.kind \in {"Created", "Modified", "FileRenamed"}

PipeInv ==
    /\ outbox \in Seq(SoundEvent)
    /\ chan \in Seq(SoundEvent)
    /\ main.ev \in SoundEvent
    /\ HandlerFits(main)
    /\ knownDirs \subseteq Dirs
    /\ phase # "running" =>
         raw = <<>> /\ outbox = <<>> /\ chan = <<>> /\ main.pc = "idle"

LEMMA IdleFits == Idle.ev \in SoundEvent /\ HandlerFits(Idle) /\ Idle.pc = "idle"
<1>1. Idle.ev = PathEvent("Deleted", SomePath) /\ Idle.pc = "idle"
  BY DEF Idle
<1>2. PathEvent("Deleted", SomePath) \in FimEvent
  BY NoRecordType, NoMetaIsNoMeta DEF PathEvent, FimEvent, EventKinds
<1>3. PathEvent("Deleted", SomePath).kind = "Deleted"
  BY DEF PathEvent
<1> QED BY <1>1, <1>2, <1>3 DEF SoundEvent, HandlerFits

(* The FimEvents of one raw event. *)
LEMMA EventsSound ==
    ASSUME WatcherTypeOK, NEW e \in RawEvent
    PROVE  /\ Appeared(e) \in Seq(SoundEvent)
           /\ Disappeared(e) \in Seq(SoundEvent)
           /\ MetadataTouched(e) \in Seq(SoundEvent)
           /\ ContentTouched(e) \in Seq(SoundEvent)
           /\ Renamed(e) \in Seq(SoundEvent)
<1> DEFINE p == e.path
<1>1. p \in Paths /\ e.to \in Paths
  BY DEF RawEvent
<1>2. /\ disk[p] \in Hashes \cup {IsDir, Absent}
      /\ disk[p] \in Hashes => p \in Files
      /\ disk[p] = IsDir => p \in Dirs
      /\ disk[p] # Absent => meta[p] \in Meta
  BY <1>1 DEF WatcherTypeOK, Paths, MetaOrNone
<1>3. {"Created", "DirectoryCreated", "Modified", "Deleted", "FileRenamed",
       "DirectoryRenamed", "perm", "owner"} \subseteq EventKinds
  BY DEF EventKinds
<1>4. \A k \in {"Created", "Modified"} : disk[p] \in Hashes => HashEvent(k, p) \in SoundEvent
  BY <1>1, <1>2, <1>3, EventType DEF HashEvent, PathEvent, SoundEvent
<1>5. /\ \A k \in {"perm", "owner"} : disk[p] # Absent => MetaEvent(k, p) \in SoundEvent
      /\ disk[p] = IsDir => MetaEvent("DirectoryCreated", p) \in SoundEvent
  <2>1. \A k \in EventKinds : /\ MetaEvent(k, p) \in FimEvent
                               /\ MetaEvent(k, p).kind = k /\ MetaEvent(k, p).path = p
                               /\ MetaEvent(k, p).meta = meta[p]
    BY <1>1, EventType DEF MetaEvent, PathEvent
  <2>2. \A k \in {"perm", "owner"} : disk[p] # Absent => MetaEvent(k, p) \in SoundEvent
    BY <1>2, <1>3, <2>1 DEF SoundEvent
  <2>3. disk[p] = IsDir => MetaEvent("DirectoryCreated", p) \in SoundEvent
    BY <1>2, <1>3, <2>1, ValuesAssumption DEF SoundEvent
  <2> QED BY <2>2, <2>3
<1>6. PathEvent("Deleted", p) \in SoundEvent
  BY <1>1, <1>3, EventType DEF PathEvent, SoundEvent
<1>7. \A k \in {"FileRenamed", "DirectoryRenamed"} : RenameEvent(k, p, e.to) \in SoundEvent
  BY <1>1, <1>3, EventType DEF RenameEvent, PathEvent, SoundEvent
<1>8. Appeared(e) \in Seq(SoundEvent)
  BY <1>2, <1>4, <1>5 DEF Appeared
<1>9. Disappeared(e) \in Seq(SoundEvent)
  BY <1>6 DEF Disappeared
<1>10. MetadataTouched(e) \in Seq(SoundEvent)
  BY <1>5 DEF MetadataTouched
<1>11. ContentTouched(e) \in Seq(SoundEvent)
  BY <1>4 DEF ContentTouched
<1>12. Renamed(e) \in Seq(SoundEvent)
  BY <1>7 DEF Renamed
<1> QED BY <1>8, <1>9, <1>10, <1>11, <1>12

LEMMA WatcherPipe ==
    ASSUME TypeOK, PipeInv, Watcher
    PROVE  PipeInv'
<1>1. UNCHANGED <<phase, main, knownDirs>> /\ WatcherThread
  BY DEF Watcher, daemonVars
<1>2. ASSUME NEW k, NEW evs, Handle(k, evs),
             Head(raw) \in RawEvent => evs \in Seq(SoundEvent)
      PROVE  outbox' \in Seq(SoundEvent) /\ chan' \in Seq(SoundEvent) /\ watching
  <2>1. Head(raw) \in RawEvent
    BY <1>2 DEF Handle, TypeOK, WatcherTypeOK
  <2> QED BY <1>2, <2>1 DEF Handle, PipeInv
<1>3. outbox' \in Seq(SoundEvent) /\ chan' \in Seq(SoundEvent) /\ watching
  <2>1. CASE BlockingSend
    <3>1. outbox # <<>> /\ outbox \in Seq(SoundEvent) /\ chan \in Seq(SoundEvent)
      BY <2>1 DEF BlockingSend, PipeInv
    <3>2. Head(outbox) \in SoundEvent /\ Tail(outbox) \in Seq(SoundEvent)
      BY <3>1, HeadTailProperties
    <3>3. watching
      BY <2>1, <3>1 DEF PipeInv, TypeOK
    <3> QED BY <2>1, <3>1, <3>2, <3>3, AppendProperties DEF BlockingSend
  <2>2. CASE HandleCreate BY <2>2, <1>2, EventsSound DEF HandleCreate, TypeOK
  <2>3. CASE HandleNameTo BY <2>3, <1>2, EventsSound DEF HandleNameTo, TypeOK
  <2>4. CASE HandleNameFrom BY <2>4, <1>2, EventsSound DEF HandleNameFrom, TypeOK
  <2>5. CASE HandleRemove BY <2>5, <1>2, EventsSound DEF HandleRemove, TypeOK
  <2>6. CASE HandleMetadata BY <2>6, <1>2, EventsSound DEF HandleMetadata, TypeOK
  <2>7. CASE HandleModify BY <2>7, <1>2, EventsSound DEF HandleModify, TypeOK
  <2>8. CASE HandleNameBoth BY <2>8, <1>2, EventsSound DEF HandleNameBoth, TypeOK
  <2> QED
    BY <1>1, <2>1, <2>2, <2>3, <2>4, <2>5, <2>6, <2>7, <2>8 DEF WatcherThread
<1>4. phase' = "running"
  BY <1>1, <1>3 DEF TypeOK
<1> QED BY <1>1, <1>3, <1>4 DEF PipeInv

(* The decision of a handler: it is over, or the event stays in hand with  *)
(* a program counter and a record that fit it.                             *)
Decided(e) == main' = Idle \/ (main'.ev = e /\ HandlerFits(main'))

LEMMA ReceiveFacts ==
    ASSUME TypeOK, PipeInv, NEW k, Receive(k)
    PROVE  /\ phase = "running" /\ main.pc = "idle" /\ chan # <<>>
           /\ Head(chan) \in SoundEvent /\ Head(chan) \in FimEvent /\ Head(chan).kind = k
           /\ chan' = Tail(chan) /\ Tail(chan) \in Seq(SoundEvent)
           /\ UNCHANGED <<disk, meta, ops, watching, raw, outbox, phase, db, audit, stops>>
<1>1. chan \in Seq(SoundEvent) /\ chan # <<>>
  BY DEF Receive, PipeInv
<1>2. Head(chan) \in SoundEvent /\ Tail(chan) \in Seq(SoundEvent)
  BY <1>1, HeadTailProperties
<1> QED BY <1>1, <1>2 DEF Receive, SoundEvent, fsVars

LEMMA DecidedBy ==
    ASSUME NEW e
    PROVE  /\ Quietly(Idle) => Decided(e)
           /\ \A key : Debounced(key, Idle) => Decided(e)
           /\ e.kind \in {"Deleted", "FileRenamed"} =>
                /\ Quietly(At("delete", e)) => Decided(e)
                /\ \A key : Debounced(key, At("delete", e)) => Decided(e)
           /\ e.kind \in {"Created", "Modified"} =>
                /\ Quietly(At("save", e)) => Decided(e)
                /\ Quietly([At("save", e) EXCEPT !.register = TRUE]) => Decided(e)
                /\ \A key : Debounced(key, At("save", e)) => Decided(e)
           /\ \A r : RecordFits(e, r) =>
                /\ main' = Auditing(e, r) => Decided(e)
                /\ \A key : Report(e, key, r) => Decided(e)
<1>1. /\ At("delete", e).pc = "delete" /\ At("delete", e).ev = e
      /\ At("save", e).pc = "save" /\ At("save", e).ev = e
      /\ [At("save", e) EXCEPT !.register = TRUE].pc = "save"
      /\ [At("save", e) EXCEPT !.register = TRUE].ev = e
      /\ \A r : /\ Auditing(e, r).pc = "audit"
                /\ Auditing(e, r).ev = e /\ Auditing(e, r).rec = r
  BY DEF At, Auditing
<1> QED BY <1>1 DEF Decided, HandlerFits, Quietly, Debounced, Report

LEMMA ReportChangeFits ==
    ASSUME NEW e, e.kind \in {"Created", "Modified"}, ReportChange(e)
    PROVE  Decided(e) /\ main'.ev = e /\ main'.pc \in {"audit", "save"}
<1> DEFINE key == K("modified", e.path, e.hash)
<1>1. CASE Debounced(key, At("save", e))
  BY <1>1, DecidedBy DEF Debounced, Quietly, At
<1>2. ASSUME NEW pkg \in PkgSamples,
             main' = Auditing(e, Rec(IF pkg THEN "PACKAGE_UPDATE" ELSE "FILE_TAMPERING",
                                     e.path, e.hash))
      PROVE  Decided(e) /\ main'.ev = e /\ main'.pc = "audit"
  <2> DEFINE r == Rec(IF pkg THEN "PACKAGE_UPDATE" ELSE "FILE_TAMPERING", e.path, e.hash)
  <2>1. RecordFits(e, r)
    BY DEF RecordFits, Rec, ContentActions
  <2>2. Decided(e)
    BY <1>2, <2>1, DecidedBy
  <2> QED BY <1>2, <2>2 DEF Auditing
<1> QED BY <1>1, <1>2 DEF ReportChange, Report

LEMMA TakeEventDecides ==
    ASSUME TypeOK, PipeInv, TakeEvent
    PROVE  /\ Receive(Head(chan).kind)
           /\ Decided(Head(chan))
           /\ knownDirs' \subseteq Dirs
<1> DEFINE e == Head(chan)
<1> USE DEF RecordFits, Rec
<1>0. ASSUME NEW k, Receive(k)
      PROVE  Receive(e.kind) /\ e \in SoundEvent /\ e.kind = k
  BY <1>0, ReceiveFacts
<1>1. CASE OnModified
  <2>1. Receive("Modified") /\ knownDirs' = knownDirs
    BY <1>1 DEF OnModified
  <2>2. Decided(e)
    <3>1. e.kind = "Modified"
      BY <1>0, <2>1
    <3>2. Quietly(Idle) \/ ReportChange(e)
      BY <1>1 DEF OnModified
    <3>3. CASE Quietly(Idle)
      BY <3>3 DEF Quietly, Decided
    <3>4. CASE ReportChange(e)
      BY <3>1, <3>4, ReportChangeFits
    <3> QED BY <3>2, <3>3, <3>4
  <2> QED BY <1>0, <2>1, <2>2 DEF PipeInv
<1>2. CASE OnCreated
  <2>1. Receive("Created") /\ knownDirs' = knownDirs
    BY <1>2 DEF OnCreated
  <2>2. RecordFits(e, Rec("FILE_CREATED", e.path, e.hash))
    BY <1>0, <2>1 DEF ContentActions
  <2>3. Decided(e)
    BY <1>2, <1>0, <2>1, <2>2, DecidedBy, ReportChangeFits DEF OnCreated
  <2> QED BY <1>0, <2>1, <2>3 DEF PipeInv
<1>3. CASE OnDirectoryCreated
  <2>1. Receive("DirectoryCreated") /\ knownDirs' \subseteq knownDirs \cup {e.path}
    BY <1>3 DEF OnDirectoryCreated, RegisterDir
  <2>2. e.path \in Dirs
    BY <1>0, <2>1 DEF SoundEvent
  <2>3. RecordFits(e, Rec("DIR_CREATED", e.path, Absent))
    BY <1>0, <2>1
  <2>4. Decided(e)
    BY <1>3, <2>3, DecidedBy DEF OnDirectoryCreated
  <2> QED BY <1>0, <2>1, <2>2, <2>4 DEF PipeInv
<1>4. CASE OnDirectoryRenamed
  <2>1. Receive("DirectoryRenamed") /\ knownDirs' = knownDirs
    BY <1>4 DEF OnDirectoryRenamed
  <2>2. RecordFits(e, Rec("DIR_RENAMED", e.path, e.to))
    BY <1>0, <2>1
  <2>3. Decided(e)
    BY <1>4, <2>2, DecidedBy DEF OnDirectoryRenamed
  <2> QED BY <1>0, <2>1, <2>3 DEF PipeInv
<1>5. CASE OnFileRenamed
  <2>1. Receive("FileRenamed") /\ knownDirs' = knownDirs
    BY <1>5 DEF OnFileRenamed
  <2>2. RecordFits(e, Rec("FILE_RENAMED", e.path, e.to))
    BY <1>0, <2>1
  <2>3. Decided(e)
    BY <1>5, <1>0, <2>1, <2>2, DecidedBy DEF OnFileRenamed
  <2> QED BY <1>0, <2>1, <2>3 DEF PipeInv
<1>6. CASE OnDeleted
  <2>1. Receive("Deleted") /\ knownDirs' \subseteq knownDirs
    BY <1>6 DEF OnDeleted
  <2>2. /\ e.path \notin knownDirs => RecordFits(e, Rec("FILE_DELETED", e.path, Absent))
        /\ e.path \in knownDirs => RecordFits(e, Rec("DIR_DELETED", e.path, Absent))
    BY <1>0, <2>1 DEF PipeInv
  <2>3. Decided(e)
    BY <1>6, <1>0, <2>1, <2>2, DecidedBy DEF OnDeleted
  <2> QED BY <1>0, <2>1, <2>3 DEF PipeInv
<1>7. ASSUME NEW a \in Attrs, OnAttrChanged(a)
      PROVE  Receive(e.kind) /\ Decided(e) /\ knownDirs' \subseteq Dirs
  <2>1. Receive(a) /\ knownDirs' = knownDirs
    BY <1>7 DEF OnAttrChanged
  <2>2. RecordFits(e, Rec(AttrAction(a), e.path, e.meta[a]))
    BY <1>0, <2>1
  <2>3. Decided(e)
    BY <1>7, <2>2, DecidedBy DEF OnAttrChanged
  <2> QED BY <1>0, <2>1, <2>3 DEF PipeInv
<1> QED BY <1>1, <1>2, <1>3, <1>4, <1>5, <1>6, <1>7 DEF TakeEvent

LEMMA TakeEventPipe ==
    ASSUME TypeOK, PipeInv, TakeEvent
    PROVE  PipeInv'
<1>1. /\ phase = "running" /\ UNCHANGED <<phase, outbox>>
      /\ Head(chan) \in SoundEvent /\ chan' \in Seq(SoundEvent)
  BY TakeEventDecides, ReceiveFacts
<1>2. main'.ev \in SoundEvent /\ HandlerFits(main')
  BY <1>1, TakeEventDecides, IdleFits DEF Decided
<1>3. knownDirs' \subseteq Dirs
  BY TakeEventDecides
<1> QED BY <1>1, <1>2, <1>3 DEF PipeInv

(* The write steps keep the event in hand until the handler is over.       *)
LEMMA FinishMain ==
    ASSUME TypeOK, PipeInv, Finish
    PROVE  /\ main.pc # "idle" /\ phase = "running"
           /\ \/ main' = Idle
              \/ main'.ev = main.ev /\ main'.pc = "delete" /\ RecordAuditLog
                 /\ main.ev.kind \in {"FileRenamed", "Deleted"}
              \/ main'.ev = main.ev /\ main'.pc = "save"
                 /\ \/ RecordAuditLog /\ main.ev.kind \in {"Created", "Modified"}
                    \/ DeleteFingerprint /\ main.ev.kind = "FileRenamed"
           /\ UNCHANGED <<watcherVars, phase, recent, alerts, stops>>
<1>1. main.pc # "idle" /\ phase = "running"
  BY DEF Finish, RecordAuditLog, DeleteFingerprint, SaveFingerprint, PipeInv
<1>2. UNCHANGED <<watcherVars, phase, recent, alerts, stops>>
  BY DEF Finish, RecordAuditLog, DeleteFingerprint, SaveFingerprint, mainUnchanged
<1>3. main \in Main
  BY DEF TypeOK, Main
<1>4. CASE RecordAuditLog
  <2>1. RecordFits(main.ev, main.rec) /\ main' = AfterAudit
    BY <1>4 DEF RecordAuditLog, PipeInv, HandlerFits
  <2>2. \/ /\ main.rec.action \in ContentActions
           /\ main' = [main EXCEPT !.pc = "save"]
        \/ /\ main.rec.action \in {"FILE_RENAMED", "FILE_DELETED"}
           /\ main' = [main EXCEPT !.pc = "delete"]
        \/ main' = Idle
    BY <2>1 DEF AfterAudit, ContentActions
  <2>3. main.rec.action \in ContentActions => main.ev.kind \in {"Created", "Modified"}
    BY <2>1 DEF RecordFits, ContentActions, AttrAction
  <2>4. main.rec.action \in {"FILE_RENAMED", "FILE_DELETED"}
          => main.ev.kind \in {"FileRenamed", "Deleted"}
    BY <2>1 DEF RecordFits, ContentActions, AttrAction
  <2>5. \A pc \in Pcs : /\ [main EXCEPT !.pc = pc].pc = pc
                        /\ [main EXCEPT !.pc = pc].ev = main.ev
    BY <1>3 DEF Main
  <2> QED BY <1>1, <1>2, <1>4, <2>2, <2>3, <2>4, <2>5 DEF Pcs
<1>5. CASE DeleteFingerprint
  BY <1>1, <1>2, <1>3, <1>5 DEF DeleteFingerprint, Main
<1>6. CASE SaveFingerprint
  BY <1>1, <1>2, <1>6 DEF SaveFingerprint
<1> QED BY <1>4, <1>5, <1>6 DEF Finish

LEMMA FinishPipe ==
    ASSUME TypeOK, PipeInv, Finish
    PROVE  PipeInv'
<1>1. main'.ev \in SoundEvent /\ HandlerFits(main')
  BY FinishMain, IdleFits DEF PipeInv, HandlerFits
<1>2. phase = "running" /\ UNCHANGED <<phase, outbox, chan>>
  BY FinishMain DEF watcherVars
<1>3. knownDirs' \subseteq Dirs
  <2>1. CASE RecordAuditLog /\ main.rec.action = "DIR_CREATED"
    <3>1. RecordFits(main.ev, main.rec) /\ RegisterDir(main.ev)
      BY <2>1 DEF RecordAuditLog, PipeInv, HandlerFits
    <3>2. main.ev.kind = "DirectoryCreated"
      BY <2>1, <3>1 DEF RecordFits, ContentActions, AttrAction
    <3>3. main.ev.path \in Dirs
      BY <3>2 DEF PipeInv, SoundEvent
    <3> QED BY <3>1, <3>3 DEF RegisterDir, PipeInv
  <2>2. CASE ~(RecordAuditLog /\ main.rec.action = "DIR_CREATED")
    BY <2>2 DEF Finish, RecordAuditLog, DeleteFingerprint, SaveFingerprint, PipeInv
  <2> QED BY <2>1, <2>2
<1> QED BY <1>1, <1>2, <1>3 DEF PipeInv

LEMMA OtherPipe ==
    ASSUME TypeOK, PipeInv, Environment \/ Startup \/ Stop
    PROVE  PipeInv'
<1>1. CASE Environment
  <2>1. UNCHANGED <<outbox, chan, main, knownDirs, phase>>
    BY <1>1 DEF Environment, daemonVars, FsNext, CreateFile, MakeDir, WriteFile,
           SetAttr, Move, RemovePath, FsOp
  <2>2. ~watching => raw' = raw
    BY <1>1 DEF Environment, FsNext, CreateFile, MakeDir, WriteFile,
           SetAttr, Move, RemovePath, FsOp
  <2> QED BY <2>1, <2>2 DEF PipeInv, TypeOK
<1>2. CASE Preload
  <2>1. knownDirs' \subseteq Dirs
    BY <1>2 DEF Preload, TypeOK, WatcherTypeOK, Paths
  <2> QED BY <1>2, <2>1 DEF Preload, watcherVars, PipeInv
<1>3. CASE StartWatcher
  BY <1>3 DEF StartWatcher, PipeInv
<1>4. CASE Stop
  <2>1. raw' = <<>> /\ outbox' = <<>> /\ chan' = <<>> /\ main' = Idle /\ knownDirs' = {}
    BY <1>4 DEF Stop, Crash, Terminate, Exit
  <2>2. outbox' \in Seq(SoundEvent) /\ chan' \in Seq(SoundEvent)
    BY <2>1
  <2> QED BY <2>1, <2>2, IdleFits DEF PipeInv
<1> QED BY <1>1, <1>2, <1>3, <1>4 DEF Startup

LEMMA NextPipe ==
    ASSUME TypeOK, PipeInv, [Next]_vars
    PROVE  PipeInv'
<1>1. CASE Environment \/ Startup \/ Stop
  BY <1>1, OtherPipe
<1>2. CASE Watcher
  BY <1>2, WatcherPipe
<1>3. CASE MainLoop
  BY <1>3, TakeEventPipe, FinishPipe DEF MainLoop
<1>4. CASE UNCHANGED vars
  BY <1>4 DEF vars, watcherVars, daemonVars, PipeInv
<1> QED BY <1>1, <1>2, <1>3, <1>4 DEF Next

LEMMA InitPipe ==
    ASSUME Init
    PROVE  PipeInv
<1>1. /\ raw = <<>> /\ outbox = <<>> /\ chan = <<>>
      /\ main = Idle /\ knownDirs = {} /\ phase = "stopped"
  BY DEF Init, WatcherInit
<1>2. outbox \in Seq(SoundEvent) /\ chan \in Seq(SoundEvent)
  BY <1>1
<1> QED BY <1>1, <1>2, IdleFits DEF PipeInv

LEMMA PipeAlways == Spec => [](TypeOK /\ PipeInv)
<1>1. Init => PipeInv
  BY InitPipe
<1>2. TypeOK /\ PipeInv /\ [Next]_vars => PipeInv'
  BY NextPipe
<1> QED BY <1>1, <1>2, TypeCorrect, PTL DEF Spec

-----------------------------------------------------------------------------
(* The state maps converge                                                 *)
(*                                                                         *)
(* For a path p, an attribute a and the value v it has on disk now (Absent *)
(* if p is not there), two questions are asked of the events on their way. *)
(* Will the maps have an entry for p exactly if p is there?  And will the  *)
(* entry be v?  The second needs the first: a perm or owner event changes  *)
(* an entry and never makes one.                                           *)

Event == RawEvent \cup FimEvent

Appearing == {"create", "to", "Created"}
Vanishing == {"from", "remove", "Deleted"}

Rebuilds(p, v) ==
    {e \in Event : e.path = p /\
        e.kind \in (IF v # Absent THEN Appearing \cup {"DirectoryCreated"} ELSE Vanishing)}

Upsets(p, v) ==
    {e \in Event : e.path = p /\
        e.kind \in (IF v # Absent THEN Vanishing ELSE {"Created", "DirectoryCreated"})}

(* A created file is looked at once more when it is registered, a directory *)
(* and a changed attribute are entered as the event describes them.        *)
Refreshes(p, a, v) ==
    {e \in Event : e.path = p /\
        \/ v = Absent /\ e.kind \in Vanishing
        \/ v # Absent /\ e.kind \in Appearing \cup {"metadata"}
        \/ e.kind \in {"DirectoryCreated", a} /\ e.meta[a] = v}

Outdates(p, a, v) ==
    {e \in Event : e.path = p /\
        \/ v # Absent /\ e.kind \in Vanishing
        \/ v = Absent /\ e.kind = "Created"
        \/ e.kind \in {"DirectoryCreated", a} /\ e.meta[a] # v}

(* What the handler has yet to enter in the maps. *)
Registering(m) ==
    IF m.pc # "idle" /\ m.ev.kind \in {"Created", "DirectoryCreated"} THEN {m.ev} ELSE {}

EntrySettled(p, a, v, H, c, o, r) ==
    /\ Settled(H, c, o, r, Upsets(p, v), Rebuilds(p, v))
    /\ Settled(H, c, o, r, Outdates(p, a, v), Refreshes(p, a, v))

Coming(H, c, o, r, F) == H \cap F # {} \/ Ahead(c, o, r, F)

EntryPresence(p, v, k, H, c, o, r) ==
    (k = Absent <=> v = Absent) \/ Coming(H, c, o, r, Rebuilds(p, v))

EntryValue(p, a, v, k, H, c, o, r) ==
    k = v \/ Coming(H, c, o, r, Refreshes(p, a, v))

EntryRight(p, a, v, k, H, c, o, r) ==
    EntryPresence(p, v, k, H, c, o, r) /\ EntryValue(p, a, v, k, H, c, o, r)

MapsInv ==
    phase = "running" =>
        \A p \in Paths \ Excluded, a \in Attrs :
            /\ EntrySettled(p, a, meta[p][a], Registering(main), chan, outbox, raw)
            /\ p \in unsynced \/ EntryRight(p, a, meta[p][a], known[a][p],
                                            Registering(main), chan, outbox, raw)

Kinds == RawKinds \cup EventKinds

LEMMA EventKindType ==
    ASSUME NEW e \in Event
    PROVE  e.kind \in Kinds /\ e.path \in Paths
BY DEF Event, RawEvent, FimEvent, Kinds

(* An event about another path, or of a kind the maps have no use for,     *)
(* belongs to none of the four sets.                                       *)
LEMMA Irrelevant ==
    ASSUME NEW p, NEW a \in Attrs, NEW v, NEW e,
           e.path # p \/ e.kind \notin Appearing \cup Vanishing \cup
                             {"DirectoryCreated", "metadata", a}
    PROVE  /\ e \notin Upsets(p, v) /\ e \notin Rebuilds(p, v)
           /\ e \notin Outdates(p, a, v) /\ e \notin Refreshes(p, a, v)
BY DEF Upsets, Rebuilds, Outdates, Refreshes, Appearing, Vanishing

LEMMA EntryRepairArrives ==
    ASSUME NEW p, NEW a, NEW v, NEW k, NEW H, NEW c, NEW o, NEW r \in Seq(RawEvent),
           NEW e \in RawEvent,
           e \in Rebuilds(p, v), e \notin Upsets(p, v),
           e \in Refreshes(p, a, v), e \notin Outdates(p, a, v)
    PROVE  /\ EntrySettled(p, a, v, H, c, o, Append(r, e))
           /\ EntryRight(p, a, v, k, H, c, o, Append(r, e))
BY RepairArrives
   DEF EntrySettled, EntryRight, EntryPresence, EntryValue, Coming

LEMMA EntryHarmlessArrives ==
    ASSUME NEW p, NEW a, NEW v, NEW k, NEW H, NEW c, NEW o, NEW r \in Seq(RawEvent),
           NEW e \in RawEvent,
           e \notin Upsets(p, v), e \notin Outdates(p, a, v)
    PROVE  /\ EntrySettled(p, a, v, H, c, o, r) => EntrySettled(p, a, v, H, c, o, Append(r, e))
           /\ EntryRight(p, a, v, k, H, c, o, r) => EntryRight(p, a, v, k, H, c, o, Append(r, e))
BY HarmlessArrives
   DEF EntrySettled, EntryRight, EntryPresence, EntryValue, Coming

(* What an operation on the file system does to an entry of the path p.    *)
EntryInv(p, a) ==
    /\ EntrySettled(p, a, meta[p][a], Registering(main), chan, outbox, raw)
    /\ p \in unsynced \/ EntryRight(p, a, meta[p][a], known[a][p],
                                    Registering(main), chan, outbox, raw)

(* The three notifications of a rename are queued one behind the other.    *)
LEMMA AppendThree ==
    ASSUME NEW S, NEW r \in Seq(S), NEW x \in S, NEW y \in S, NEW z \in S
    PROVE  /\ r \o <<x, y, z>> = Append(Append(Append(r, x), y), z)
           /\ Append(r, x) \in Seq(S)
           /\ Append(Append(r, x), y) \in Seq(S)
<1>1. r \o <<x>> = Append(r, x) /\ Append(r, x) \in Seq(S)
  BY AppendIsConcat, AppendProperties
<1>2. Append(r, x) \o <<y>> = Append(Append(r, x), y) /\ Append(Append(r, x), y) \in Seq(S)
  BY <1>1, AppendIsConcat, AppendProperties
<1>3. Append(Append(r, x), y) \o <<z>> = Append(Append(Append(r, x), y), z)
  BY <1>2, AppendIsConcat
<1> QED BY <1>1, <1>2, <1>3

LEMMA AppendOne ==
    ASSUME NEW S, NEW r \in Seq(S), NEW x \in S
    PROVE  r \o <<x>> = Append(r, x)
BY AppendIsConcat

(* The notifications of an operation, seen from an entry: a path that      *)
(* appears or vanishes queues an event that repairs, and an attribute that *)
(* changes queues one that refreshes.                                      *)
LEMMA EnvironmentEntry ==
    ASSUME TypeOK, PipeInv, Environment, phase = "running",
           NEW p \in Paths, NEW a \in Attrs, EntryInv(p, a)
    PROVE  EntryInv(p, a)'
<1> DEFINE v == meta[p][a]
           w == meta'[p][a]
           k == known[a][p]
           H == Registering(main)
           Goal(r) ==
             /\ EntrySettled(p, a, w, H, chan, outbox, r)
             /\ p \in unsynced \/ EntryRight(p, a, w, k, H, chan, outbox, r)
<1>1. /\ watching /\ raw \in Seq(RawEvent)
      /\ v \in Vals \cup {Absent} /\ (v = Absent <=> disk[p] = Absent)
      /\ meta \in [Paths -> MetaOrNone]
  <2>1. /\ watching /\ raw \in Seq(RawEvent) /\ meta \in [Paths -> MetaOrNone]
        /\ meta[p] = NoMeta <=> disk[p] = Absent
    BY DEF TypeOK, WatcherTypeOK
  <2>2. meta[p] = NoMeta \/ meta[p] \in [Attrs -> Vals]
    BY <2>1 DEF MetaOrNone, Meta
  <2>3. NoMeta[a] = Absent /\ Absent \notin Vals
    BY ValuesAssumption DEF NoMeta
  <2> QED BY <2>1, <2>2, <2>3 DEF NoMeta
<1>2. UNCHANGED <<main, known, unsynced>> /\ FsNext
  BY DEF Environment, daemonVars, historyVars
<1>3. ASSUME NEW kind, NEW evs, FsOp(kind, evs)
      PROVE  raw' = raw \o evs /\ UNCHANGED <<outbox, chan>>
  BY <1>1, <1>3 DEF FsOp
<1>4. \A x \in Paths, kk \in RawKinds :
        /\ Raw(kk, x) \in RawEvent /\ Raw(kk, x) \in Event
        /\ Raw(kk, x).kind = kk /\ Raw(kk, x).path = x
  BY DEF Raw, RawEvent, Event
<1>5. SUFFICES
        /\ EntrySettled(p, a, w, H, chan', outbox', raw')
        /\ p \in unsynced \/ EntryRight(p, a, w, k, H, chan', outbox', raw')
  BY <1>2 DEF EntryInv, Registering
<1>6. w = v => Goal(raw)
  BY DEF EntryInv
<1>7. {"create", "modify", "metadata", "from", "to", "both", "remove"} \subseteq RawKinds
      /\ Absent \notin Vals
  BY ValuesAssumption DEF RawKinds
(* Queueing what repairs the entry, or what does not touch it. *)
<1>8. ASSUME NEW r \in Seq(RawEvent), NEW e \in RawEvent, e \in Event, e.path = p,
             \/ w # Absent /\ e.kind \in {"create", "to"}
             \/ w = Absent /\ e.kind \in {"from", "remove"}
      PROVE  Goal(Append(r, e))
  <2>1. e.kind \notin EventKinds /\ a \in EventKinds
    BY <1>8 DEF EventKinds, Attrs
  <2>2. e \in Rebuilds(p, w) /\ e \notin Upsets(p, w)
    BY <1>8 DEF Rebuilds, Upsets, Appearing, Vanishing
  <2>3. e \in Refreshes(p, a, w) /\ e \notin Outdates(p, a, w)
    BY <1>8, <2>1 DEF Refreshes, Outdates, Appearing, Vanishing, EventKinds
  <2> QED BY <1>8, <2>2, <2>3, EntryRepairArrives
<1>9. ASSUME NEW r \in Seq(RawEvent), NEW e \in RawEvent, Goal(r),
             e.path # p \/ e.kind \in {"both", "modify"}
      PROVE  Goal(Append(r, e))
  <2>1. a = "perm" \/ a = "owner"
    BY DEF Attrs
  <2>2. e.kind \in {"both", "modify"} =>
          e.kind \notin Appearing \cup Vanishing \cup {"DirectoryCreated", "metadata", a}
    BY <2>1 DEF Appearing, Vanishing
  <2>3. e \notin Upsets(p, w) /\ e \notin Outdates(p, a, w)
    BY <1>9, <2>2, Irrelevant
  <2> QED BY <1>9, <2>3, EntryHarmlessArrives
<1> HIDE DEF Goal
<1>10. ASSUME NEW x \in Paths, NEW m \in Meta, meta' = [meta EXCEPT ![x] = m],
              raw' = raw \o <<Raw("create", x)>>
       PROVE  Goal(raw')
  <2>1. raw' = Append(raw, Raw("create", x))
    BY <1>1, <1>4, <1>7, <1>10, AppendOne
  <2>2. CASE x = p
    <3>1. w = m[a] /\ w # Absent
      BY <1>1, <1>7, <1>10, <2>2 DEF Meta
    <3> QED BY <1>1, <1>4, <1>7, <1>8, <2>1, <2>2, <3>1
  <2>3. CASE x # p
    <3>1. w = v
      BY <1>1, <1>10, <2>3
    <3> QED BY <1>1, <1>4, <1>6, <1>7, <1>9, <2>1, <2>3, <3>1
  <2> QED BY <2>2, <2>3
<1>11. ASSUME NEW f \in Files, NEW h \in Hashes, NEW m \in Meta, CreateFile(f, h, m)
       PROVE  Goal(raw')
  BY <1>3, <1>10, <1>11 DEF CreateFile, Paths
<1>12. ASSUME NEW d \in Dirs, NEW m \in Meta, MakeDir(d, m)
       PROVE  Goal(raw')
  BY <1>3, <1>10, <1>12 DEF MakeDir, Paths
<1>13. ASSUME NEW f \in Files, NEW h \in Hashes, WriteFile(f, h)
       PROVE  Goal(raw')
  <2>1. w = v /\ raw' = raw \o <<Raw("modify", f)>> /\ f \in Paths
    BY <1>3, <1>13 DEF WriteFile, Paths
  <2>2. raw' = Append(raw, Raw("modify", f))
    BY <1>1, <1>4, <1>7, <2>1, AppendOne
  <2>3. Raw("modify", f) \in RawEvent /\ Raw("modify", f).kind = "modify"
    BY <1>4, <1>7, <2>1
  <2>4. Goal(raw)
    BY <1>6, <2>1
  <2> QED BY <1>1, <1>9, <2>2, <2>3, <2>4
<1>14. ASSUME NEW x \in Paths, NEW b \in Attrs, NEW u \in Vals, SetAttr(x, b, u)
       PROVE  Goal(raw')
  <2> DEFINE e == Raw("metadata", x)
  <2>1. raw' = raw \o <<e>> /\ disk[x] # Absent
    BY <1>3, <1>14 DEF SetAttr
  <2>2. raw' = Append(raw, e) /\ e \in RawEvent /\ e \in Event
        /\ e.kind = "metadata" /\ e.path = x
    BY <1>1, <1>4, <1>7, <2>1, AppendOne
  <2>3. meta[x] \in Meta
    BY <2>1 DEF TypeOK, WatcherTypeOK, MetaOrNone
  <2>4. w = IF x = p /\ b = a THEN u ELSE v
    BY <1>1, <1>14, <2>3 DEF SetAttr, Meta
  <2>5. CASE x # p
    BY <1>1, <1>6, <1>9, <2>2, <2>4, <2>5
  <2>6. CASE x = p
    <3>1. v # Absent /\ w # Absent
      BY <1>1, <1>7, <2>1, <2>4, <2>6
    <3>2. a \in EventKinds /\ "metadata" \notin EventKinds
      BY DEF EventKinds, Attrs
    <3>3. e \notin Upsets(p, w) /\ e \notin Outdates(p, a, w)
          /\ e \in Refreshes(p, a, w)
      BY <2>2, <2>6, <3>1, <3>2
         DEF Upsets, Outdates, Refreshes, Vanishing, EventKinds
    <3>0. Upsets(p, w) = Upsets(p, v) /\ Rebuilds(p, w) = Rebuilds(p, v)
      BY <3>1 DEF Upsets, Rebuilds
    <3>4. Settled(H, chan, outbox, Append(raw, e), Upsets(p, w), Rebuilds(p, w))
      BY <1>1, <2>2, <3>0, <3>1, <3>3, HarmlessArrives DEF EntryInv, EntrySettled
    <3>5. /\ Settled(H, chan, outbox, Append(raw, e), Outdates(p, a, w), Refreshes(p, a, w))
          /\ Ahead(chan, outbox, Append(raw, e), Refreshes(p, a, w))
      BY <1>1, <2>2, <3>3, RepairArrives
    <3>6. p \in unsynced \/ EntryPresence(p, w, k, H, chan, outbox, Append(raw, e))
      BY <1>1, <2>2, <3>0, <3>1, <3>3, HarmlessArrives
         DEF EntryInv, EntryRight, EntryPresence, Coming
    <3>7. Goal(Append(raw, e))
      BY <3>4, <3>5, <3>6 DEF Goal, EntrySettled, EntryRight, EntryValue, Coming
    <3> QED BY <2>2, <3>7
  <2> QED BY <2>5, <2>6
<1>15. ASSUME NEW x \in Paths, NEW y \in Paths, Move(x, y)
       PROVE  Goal(raw')
  <2> DEFINE from == Raw("from", x)
             to == Raw("to", y)
             both == [kind |-> "both", path |-> x, to |-> y]
             r1 == Append(raw, from)
             r2 == Append(r1, to)
  <2>1. both \in RawEvent /\ both.kind = "both" /\ both.path = x
    BY DEF RawEvent, RawKinds
  <2>2. raw' = raw \o <<from, to, both>> /\ x # y /\ disk[x] # Absent
        /\ meta' = [meta EXCEPT ![y] = meta[x], ![x] = NoMeta]
    BY <1>3, <1>15 DEF Move
  <2>3. raw' = Append(r2, both) /\ r1 \in Seq(RawEvent) /\ r2 \in Seq(RawEvent)
    BY <1>1, <1>4, <1>7, <2>1, <2>2, AppendThree
  <2>4. /\ from \in RawEvent /\ from \in Event /\ from.kind = "from" /\ from.path = x
        /\ to \in RawEvent /\ to \in Event /\ to.kind = "to" /\ to.path = y
    BY <1>4, <1>7
  <2> HIDE DEF from, to, both, r1, r2
  <2>5. Goal(r2) => Goal(raw')
    BY <2>1, <2>3, <1>9
  <2>6. CASE y = p
    <3>1. w # Absent
      BY <1>1, <1>7, <2>2, <2>6 DEF TypeOK, WatcherTypeOK, MetaOrNone, Meta
    <3>2. Goal(r2)
      BY <2>3, <2>4, <2>6, <3>1, <1>8 DEF r2
    <3> QED BY <2>5, <3>2
  <2>7. CASE x = p
    <3>1. w = Absent
      BY <1>1, <2>2, <2>7 DEF NoMeta
    <3>2. Goal(r1)
      BY <1>1, <2>3, <2>4, <2>7, <3>1, <1>8 DEF r1
    <3>3. Goal(r2)
      BY <2>2, <2>3, <2>4, <2>7, <3>2, <1>9 DEF r2
    <3> QED BY <2>5, <3>3
  <2>8. CASE x # p /\ y # p
    <3>1. w = v
      BY <1>1, <2>2, <2>8
    <3>2. Goal(r1)
      BY <1>1, <1>6, <2>3, <2>4, <2>8, <3>1, <1>9 DEF r1
    <3>3. Goal(r2)
      BY <2>3, <2>4, <2>8, <3>2, <1>9 DEF r2
    <3> QED BY <2>5, <3>3
  <2> QED BY <2>6, <2>7, <2>8
<1>16. ASSUME NEW x \in Paths, RemovePath(x)
       PROVE  Goal(raw')
  <2>1. raw' = raw \o <<Raw("remove", x)>> /\ meta' = [meta EXCEPT ![x] = NoMeta]
    BY <1>3, <1>16 DEF RemovePath
  <2>2. raw' = Append(raw, Raw("remove", x))
    BY <1>1, <1>4, <1>7, <2>1, AppendOne
  <2>3. CASE x = p
    <3>1. w = Absent
      BY <1>1, <2>1, <2>3 DEF NoMeta
    <3> QED BY <1>1, <1>4, <1>7, <1>8, <2>2, <2>3, <3>1
  <2>4. CASE x # p
    <3>1. w = v
      BY <1>1, <2>1, <2>4
    <3> QED BY <1>1, <1>4, <1>6, <1>7, <1>9, <2>2, <2>4, <3>1
  <2> QED BY <2>3, <2>4
<1>17. Goal(raw') /\ UNCHANGED <<outbox, chan>>
  <2>1. UNCHANGED <<outbox, chan>>
    BY <1>2, <1>3 DEF FsNext, CreateFile, MakeDir, WriteFile, SetAttr, Move, RemovePath
  <2> QED BY <1>2, <1>11, <1>12, <1>13, <1>14, <1>15, <1>16, <2>1 DEF FsNext
<1> QED BY <1>17 DEF Goal

LEMMA InOne ==
    ASSUME NEW e, NEW F
    PROVE  In(<<e>>, F) <=> e \in F
BY DEF In

LEMMA InTwo ==
    ASSUME NEW e, NEW d, NEW F
    PROVE  In(<<e, d>>, F) <=> e \in F \/ d \in F
BY DEF In

LEMMA EntryConverted ==
    ASSUME NEW p, NEW a, NEW v, NEW k, NEW H, NEW c, NEW r \in Seq(RawEvent), r # <<>>,
           NEW evs,
           Head(r) \in Rebuilds(p, v) => In(evs, Rebuilds(p, v)),
           Head(r) \in Refreshes(p, a, v) => In(evs, Refreshes(p, a, v)),
           In(evs, Upsets(p, v)) => Head(r) \in Upsets(p, v),
           In(evs, Outdates(p, a, v)) => Head(r) \in Outdates(p, a, v)
    PROVE  /\ EntrySettled(p, a, v, H, c, <<>>, r) => EntrySettled(p, a, v, H, c, evs, Tail(r))
           /\ EntryRight(p, a, v, k, H, c, <<>>, r) => EntryRight(p, a, v, k, H, c, evs, Tail(r))
BY Converted DEF EntrySettled, EntryRight, EntryPresence, EntryValue, Coming

(* What the FimEvents of a raw event about p carry is what is on disk at p *)
(* when the watcher thread looks: they are as good as the raw event.       *)
AsGood(e, evs, p, a, v) ==
    /\ e \in Rebuilds(p, v) => In(evs, Rebuilds(p, v))
    /\ e \in Refreshes(p, a, v) => In(evs, Refreshes(p, a, v))
    /\ In(evs, Upsets(p, v)) => e \in Upsets(p, v)
    /\ In(evs, Outdates(p, a, v)) => e \in Outdates(p, a, v)

LEMMA EventsAsGood ==
    ASSUME TypeOK, NEW e \in RawEvent, NEW p \in Paths \ Excluded, NEW a \in Attrs
    PROVE  LET v == meta[p][a] IN
           /\ e.kind \in {"create", "to"} => AsGood(e, Appeared(e), p, a, v)
           /\ e.kind \in {"from", "remove"} => AsGood(e, Disappeared(e), p, a, v)
           /\ e.kind = "metadata" => AsGood(e, MetadataTouched(e), p, a, v)
           /\ e.kind = "modify" => AsGood(e, ContentTouched(e), p, a, v)
           /\ e.kind = "both" => AsGood(e, Renamed(e), p, a, v)
<1> DEFINE v == meta[p][a]
           x == e.path
<1>1. /\ x \in Paths /\ e.to \in Paths /\ e \in Event
      /\ e.kind \in RawKinds
  BY DEF RawEvent, Event
<1>2. a = "perm" \/ a = "owner"
  BY DEF Attrs
<1>3. /\ disk[p] \in Hashes \cup {IsDir, Absent}
      /\ v = Absent <=> disk[p] = Absent
  <2>1. /\ meta \in [Paths -> MetaOrNone]
        /\ meta[p] = NoMeta <=> disk[p] = Absent
        /\ disk[p] \in Hashes \cup {IsDir, Absent}
    BY DEF TypeOK, WatcherTypeOK
  <2>2. meta[p] = NoMeta \/ meta[p] \in [Attrs -> Vals]
    BY <2>1 DEF MetaOrNone, Meta
  <2>3. NoMeta[a] = Absent /\ Absent \notin Vals
    BY ValuesAssumption DEF NoMeta
  <2> QED BY <2>1, <2>2, <2>3
<1>4. WatcherTypeOK
  BY DEF TypeOK
<1>5. \A k \in {"Created", "Modified"} : disk[x] \in Hashes =>
        HashEvent(k, x) \in Event /\ HashEvent(k, x).kind = k /\ HashEvent(k, x).path = x
  BY <1>1, <1>4, EventType DEF HashEvent, PathEvent, Event, EventKinds
<1>6. \A k \in {"DirectoryCreated", "perm", "owner"} :
        /\ MetaEvent(k, x) \in Event /\ MetaEvent(k, x).kind = k
        /\ MetaEvent(k, x).path = x /\ MetaEvent(k, x).meta = meta[x]
  BY <1>1, <1>4, EventType DEF MetaEvent, PathEvent, Event, EventKinds
<1>7. /\ PathEvent("Deleted", x) \in Event /\ PathEvent("Deleted", x).kind = "Deleted"
      /\ PathEvent("Deleted", x).path = x
  BY <1>1, <1>4, EventType DEF PathEvent, Event, EventKinds
<1>8. \A k \in {"FileRenamed", "DirectoryRenamed"} :
        RenameEvent(k, x, e.to).kind = k /\ RenameEvent(k, x, e.to).path = x
  BY DEF RenameEvent, PathEvent
<1> HIDE DEF v, x
<1> USE DEF AsGood
<1>9. ASSUME NEW evs, x # p,
             \/ evs = <<>>
             \/ \E d : evs = <<d>> /\ d.path = x
             \/ \E d, f : evs = <<d, f>> /\ d.path = x /\ f.path = x
      PROVE  AsGood(e, evs, p, a, v)
  <2>1. \A F \in {Upsets(p, v), Rebuilds(p, v), Outdates(p, a, v), Refreshes(p, a, v)} :
            ~In(evs, F) /\ e \notin F
    BY SMTT(30), <1>9, InEmpty, InOne, InTwo, Irrelevant DEF x
  <2> QED BY <2>1
<1>10. ASSUME e.kind \in {"create", "to"} PROVE AsGood(e, Appeared(e), p, a, v)
  <2>1. CASE x # p
    BY <1>5, <1>6, <1>9, <1>10, <1>1, <1>4, <2>1 DEF Appeared, x, WatcherTypeOK
  <2>2. CASE x = p /\ disk[p] = Absent
    <3>1. Appeared(e) = <<>> /\ v = Absent
      BY <1>3, <2>2, ValuesAssumption DEF Appeared, x
    <3>2. e \notin Rebuilds(p, v) /\ e \notin Refreshes(p, a, v)
      BY <1>2, <1>10, <3>1 DEF Rebuilds, Refreshes, Vanishing
    <3> QED BY <3>1, <3>2, InEmpty
  <2>3. CASE x = p /\ disk[p] = IsDir
    <3> DEFINE d == MetaEvent("DirectoryCreated", x)
    <3>1. Appeared(e) = <<d>> /\ v # Absent
      BY <1>3, <2>3, ValuesAssumption DEF Appeared, x
    <3>2. d \in Event /\ d.kind = "DirectoryCreated" /\ d.path = p /\ d.meta[a] = v
      BY <1>6, <2>3 DEF v
    <3> HIDE DEF d
    <3>3. d \in Rebuilds(p, v) /\ d \in Refreshes(p, a, v)
          /\ d \notin Upsets(p, v) /\ d \notin Outdates(p, a, v)
      BY <1>2, <3>1, <3>2
         DEF Rebuilds, Refreshes, Upsets, Outdates, Vanishing, Appearing
    <3> QED BY <3>1, <3>3, InOne
  <2>4. CASE x = p /\ disk[p] \in Hashes
    <3> DEFINE d == HashEvent("Created", x)
    <3>1. Appeared(e) = <<d>> /\ v # Absent
      BY <1>3, <2>4, ValuesAssumption DEF Appeared, x
    <3>2. d \in Event /\ d.kind = "Created" /\ d.path = p
      BY <1>5, <2>4
    <3> HIDE DEF d
    <3>3. d \in Rebuilds(p, v) /\ d \in Refreshes(p, a, v)
          /\ d \notin Upsets(p, v) /\ d \notin Outdates(p, a, v)
      BY <1>2, <3>1, <3>2
         DEF Rebuilds, Refreshes, Upsets, Outdates, Vanishing, Appearing
    <3> QED BY <3>1, <3>3, InOne
  <2> QED BY <1>3, <2>1, <2>2, <2>3, <2>4
<1>11. ASSUME e.kind \in {"from", "remove"} PROVE AsGood(e, Disappeared(e), p, a, v)
  <2> DEFINE d == PathEvent("Deleted", x)
  <2>1. CASE x # p
    <3>1. \/ Disappeared(e) = <<>>
          \/ Disappeared(e) = <<d>> /\ d.path = x
      BY <1>7 DEF Disappeared, x
    <3> QED BY <1>9, <2>1, <3>1
  <2>2. CASE x = p
    <3>1. Disappeared(e) = <<d>>
      BY <2>2 DEF Disappeared, x
    <3>2. d \in Event /\ d.kind = "Deleted" /\ d.path = p /\ e.path = p
      BY <1>7, <2>2 DEF x
    <3> HIDE DEF d
    <3>3. CASE v = Absent
      <4>1. d \in Rebuilds(p, v) /\ d \in Refreshes(p, a, v)
            /\ d \notin Upsets(p, v) /\ d \notin Outdates(p, a, v)
        BY <1>2, <3>2, <3>3 DEF Rebuilds, Refreshes, Upsets, Outdates, Vanishing
      <4> QED BY <3>1, <4>1, InOne
    <3>4. CASE v # Absent
      <4>1. e \notin Rebuilds(p, v) /\ e \notin Refreshes(p, a, v)
            /\ e \in Upsets(p, v) /\ e \in Outdates(p, a, v)
        BY <1>1, <1>2, <1>11, <3>2, <3>4
           DEF Rebuilds, Refreshes, Upsets, Outdates, Vanishing, Appearing
      <4> QED BY <4>1
    <3> QED BY <3>3, <3>4
  <2> QED BY <2>1, <2>2
<1>12. ASSUME e.kind = "metadata" PROVE AsGood(e, MetadataTouched(e), p, a, v)
  <2> DEFINE d == MetaEvent("perm", x)
             f == MetaEvent("owner", x)
  <2>1. CASE x # p
    <3>1. MetadataTouched(e) = <<>> \/ MetadataTouched(e) = <<d, f>>
      BY DEF MetadataTouched, x
    <3>2. d.path = x /\ f.path = x
      BY <1>6
    <3> QED BY <1>9, <2>1, <3>1, <3>2
  <2>2. CASE x = p /\ v = Absent
    <3>1. MetadataTouched(e) = <<>>
      BY <1>3, <2>2 DEF MetadataTouched, x
    <3>2. e \notin Rebuilds(p, v) /\ e \notin Refreshes(p, a, v)
      BY <1>2, <1>12, <2>2 DEF Rebuilds, Refreshes, Vanishing
    <3> QED BY <3>1, <3>2, InEmpty
  <2>3. CASE x = p /\ v # Absent
    <3>1. MetadataTouched(e) = <<d, f>>
      BY <1>3, <2>3 DEF MetadataTouched, x
    <3>2. /\ d \in Event /\ d.kind = "perm" /\ d.path = p /\ d.meta[a] = v
          /\ f \in Event /\ f.kind = "owner" /\ f.path = p /\ f.meta[a] = v
      BY <1>6, <2>3 DEF v
    <3> HIDE DEF d, f
    <3>3. d \notin Upsets(p, v) /\ d \notin Outdates(p, a, v)
          /\ f \notin Upsets(p, v) /\ f \notin Outdates(p, a, v)
      BY <1>2, <2>3, <3>2 DEF Upsets, Outdates, Vanishing
    <3>4. d \in Refreshes(p, a, v) \/ f \in Refreshes(p, a, v)
      BY <1>2, <3>2 DEF Refreshes
    <3>5. e \notin Rebuilds(p, v)
      BY <1>12, <2>3 DEF Rebuilds, Appearing
    <3> QED BY <3>1, <3>3, <3>4, <3>5, InTwo
  <2> QED BY <2>1, <2>2, <2>3
(* What the maps have no use for stays that way. *)
<1>13. ASSUME NEW evs, e.kind \in {"modify", "both"},
              \/ evs = <<>>
              \/ \E d : evs = <<d>> /\ d.kind \in {"Modified", "FileRenamed", "DirectoryRenamed"}
       PROVE  AsGood(e, evs, p, a, v)
  <2>1. \A d : d.kind \in {"modify", "both", "Modified", "FileRenamed", "DirectoryRenamed"} =>
          d.kind \notin Appearing \cup Vanishing \cup {"DirectoryCreated", "metadata", a}
    BY <1>2 DEF Appearing, Vanishing
  <2>2. \A d : d.kind \in {"modify", "both", "Modified", "FileRenamed", "DirectoryRenamed"} =>
          /\ d \notin Upsets(p, v) /\ d \notin Rebuilds(p, v)
          /\ d \notin Outdates(p, a, v) /\ d \notin Refreshes(p, a, v)
    BY <2>1, Irrelevant
  <2> QED BY <1>13, <2>2, InEmpty, InOne
<1>14. ASSUME e.kind = "modify" PROVE AsGood(e, ContentTouched(e), p, a, v)
  <2>1. \/ ContentTouched(e) = <<>>
        \/ /\ ContentTouched(e) = <<HashEvent("Modified", x)>>
           /\ HashEvent("Modified", x).kind = "Modified"
    BY <1>5 DEF ContentTouched, x
  <2> QED BY <1>13, <1>14, <2>1
<1>15. ASSUME e.kind = "both" PROVE AsGood(e, Renamed(e), p, a, v)
  <2>1. \/ Renamed(e) = <<>>
        \/ \E k \in {"FileRenamed", "DirectoryRenamed"} :
             Renamed(e) = <<RenameEvent(k, x, e.to)>> /\ RenameEvent(k, x, e.to).kind = k
    BY <1>8 DEF Renamed, x
  <2> QED BY <1>13, <1>15, <2>1
<1> QED BY <1>10, <1>11, <1>12, <1>14, <1>15 DEF v

LEMMA WatcherEntry ==
    ASSUME TypeOK, PipeInv, Watcher, NEW p \in Paths \ Excluded, NEW a \in Attrs,
           EntryInv(p, a)
    PROVE  EntryInv(p, a)'
<1> DEFINE v == meta[p][a]
           k == known[a][p]
           H == Registering(main)
<1>1. UNCHANGED <<main, known, unsynced>> /\ WatcherThread
  BY DEF Watcher, daemonVars, historyVars
<1> DEFINE Goal ==
             /\ UNCHANGED meta
             /\ EntrySettled(p, a, v, H, chan, outbox, raw)
                  => EntrySettled(p, a, v, H, chan', outbox', raw')
             /\ EntryRight(p, a, v, k, H, chan, outbox, raw)
                  => EntryRight(p, a, v, k, H, chan', outbox', raw')
<1>2. SUFFICES Goal
  BY <1>1 DEF EntryInv
<1>3. CASE BlockingSend
  <2>1. outbox \in Seq(FimEvent) /\ chan \in Seq(FimEvent) /\ outbox # <<>>
    BY <1>3 DEF BlockingSend, TypeOK, WatcherTypeOK
  <2>2. /\ chan' = Append(chan, Head(outbox)) /\ outbox' = Tail(outbox)
        /\ UNCHANGED <<meta, raw>>
    BY <1>3 DEF BlockingSend
  <2> QED BY <2>1, <2>2, Sent
    DEF EntrySettled, EntryRight, EntryPresence, EntryValue, Coming
<1>4. ASSUME NEW kind, NEW evs, Handle(kind, evs),
             Head(raw).kind = kind => AsGood(Head(raw), evs, p, a, v)
      PROVE  Goal
  <2>1. /\ raw \in Seq(RawEvent) /\ raw # <<>> /\ outbox = <<>>
        /\ raw' = Tail(raw) /\ outbox' = evs /\ UNCHANGED <<meta, chan>>
    BY <1>4 DEF Handle, TypeOK, WatcherTypeOK
  <2>2. AsGood(Head(raw), evs, p, a, v)
    BY <1>4 DEF Handle
  <2> QED BY <2>1, <2>2, EntryConverted DEF AsGood
<1>5. raw # <<>> => Head(raw) \in RawEvent
  BY HeadTailProperties DEF TypeOK, WatcherTypeOK
<1> HIDE DEF Goal, v
<1>6. ASSUME NEW kind, NEW evs, Handle(kind, evs) PROVE Head(raw) \in RawEvent
  BY <1>5, <1>6 DEF Handle
<1>7. CASE HandleCreate BY <1>4, <1>6, <1>7, EventsAsGood DEF HandleCreate, v
<1>8. CASE HandleNameTo BY <1>4, <1>6, <1>8, EventsAsGood DEF HandleNameTo, v
<1>9. CASE HandleNameFrom BY <1>4, <1>6, <1>9, EventsAsGood DEF HandleNameFrom, v
<1>10. CASE HandleRemove BY <1>4, <1>6, <1>10, EventsAsGood DEF HandleRemove, v
<1>11. CASE HandleMetadata BY <1>4, <1>6, <1>11, EventsAsGood DEF HandleMetadata, v
<1>12. CASE HandleModify BY <1>4, <1>6, <1>12, EventsAsGood DEF HandleModify, v
<1>13. CASE HandleNameBoth BY <1>4, <1>6, <1>13, EventsAsGood DEF HandleNameBoth, v
<1> QED
  BY <1>1, <1>3, <1>7, <1>8, <1>9, <1>10, <1>11, <1>12, <1>13 DEF WatcherThread

(* What taking an event e does to the entry of p: nothing, if e is about   *)
(* something else; or e stays in hand to be registered; or the code skips  *)
(* the update; or a directory is registered, an entry forgotten or changed. *)
EntryKept(p, a) == known'[a][p] = known[a][p] /\ (p \in unsynced => p \in unsynced')

Concerning(e, p, a) ==
    e.path = p /\ e.kind \in {"Created", "DirectoryCreated", "Deleted", a}

EntryDone(e, p, a) ==
    \/ EntryKept(p, a) /\ ~Concerning(e, p, a)
    \/ EntryKept(p, a) /\ Registering(main') = {e}
    \/ p \in unsynced'
    \/ e.path = p /\ e.kind = "DirectoryCreated" /\ known'[a][p] = e.meta[a]
    \/ e.path = p /\ e.kind = "Deleted" /\ known'[a][p] = Absent
    \/ e.path = p /\ e.kind = a /\ EntryKept(p, a) /\ known[a][p] \in {Absent, e.meta[a]}
    \/ /\ e.path = p /\ e.kind = a
       /\ known[a][p] # Absent /\ known'[a][p] = e.meta[a]
       /\ p \in unsynced => p \in unsynced'

LEMMA EnteredEntry ==
    ASSUME TypeOK, NEW q \in Paths, NEW m, known' = Entered(q, m),
           NEW p \in Paths, NEW a \in Attrs
    PROVE  known'[a][p] = IF p = q THEN m[a] ELSE known[a][p]
BY DEF Entered, TypeOK

LEMMA RegisterDirDone ==
    ASSUME TypeOK, NEW e, e.path \in Paths, e.kind = "DirectoryCreated", RegisterDir(e),
           NEW p \in Paths, NEW a \in Attrs
    PROVE  EntryDone(e, p, a)
<1>1. known' = Entered(e.path, e.meta) /\ unsynced' = unsynced \ {e.path}
  BY DEF RegisterDir
<1>2. known'[a][p] = IF p = e.path THEN e.meta[a] ELSE known[a][p]
  BY <1>1, EnteredEntry
<1> QED BY <1>1, <1>2 DEF EntryDone, EntryKept, Concerning

LEMMA TakeEventEntry ==
    ASSUME TypeOK, PipeInv, TakeEvent, NEW p \in Paths, NEW a \in Attrs
    PROVE  EntryDone(Head(chan), p, a)
<1> DEFINE e == Head(chan)
<1>0. ASSUME NEW k, Receive(k) PROVE e.kind = k /\ e.path \in Paths
  BY <1>0, ReceiveFacts DEF FimEvent
<1>a. a = "perm" \/ a = "owner"
  BY DEF Attrs
<1>1. CASE OnModified
  <2>1. e.kind = "Modified" /\ UNCHANGED <<known, unsynced>>
    BY <1>0, <1>1 DEF OnModified, historyVars
  <2> QED BY <1>a, <2>1 DEF EntryDone, EntryKept, Concerning
<1>2. CASE OnCreated
  <2>1. e.kind = "Created" /\ UNCHANGED <<known, unsynced>>
    BY <1>0, <1>2 DEF OnCreated, historyVars
  <2> DEFINE unreported == [At("save", e) EXCEPT !.register = TRUE]
             key == K("created", e.path, Absent)
             r == Rec("FILE_CREATED", e.path, e.hash)
  <2>2. /\ At("save", e).pc = "save" /\ At("save", e).ev = e
        /\ unreported.pc = "save" /\ unreported.ev = e
        /\ Auditing(e, r).pc = "audit" /\ Auditing(e, r).ev = e
    BY DEF At, Auditing
  <2>3. main'.pc \in {"audit", "save"} /\ main'.ev = e
    <3>1. \/ Quietly(unreported) \/ ReportChange(e)
          \/ Debounced(key, At("save", e)) \/ Report(e, key, r)
      BY <1>2 DEF OnCreated
    <3>2. CASE Quietly(unreported)
      BY <2>2, <3>2 DEF Quietly
    <3>3. CASE ReportChange(e)
      BY <2>1, <3>3, ReportChangeFits
    <3>4. CASE Debounced(key, At("save", e))
      BY <2>2, <3>4 DEF Debounced, Quietly
    <3>5. CASE Report(e, key, r)
      BY <2>2, <3>5 DEF Report
    <3> QED BY <3>1, <3>2, <3>3, <3>4, <3>5
  <2>4. Registering(main') = {e}
    BY <2>1, <2>3 DEF Registering
  <2> QED BY <2>1, <2>4 DEF EntryDone, EntryKept
<1>3. CASE OnDirectoryCreated
  <2>1. e.kind = "DirectoryCreated" /\ e.path \in Paths
    BY <1>0, <1>3 DEF OnDirectoryCreated
  <2> DEFINE key == K("created_dir", e.path, Absent)
             r == Rec("DIR_CREATED", e.path, Absent)
  <2>2. \/ RegisterDir(e)
        \/ unsynced' = unsynced \cup {e.path} /\ UNCHANGED known
        \/ Report(e, key, r) /\ UNCHANGED <<known, unsynced>>
    BY <1>3 DEF OnDirectoryCreated, historyVars
  <2>3. CASE RegisterDir(e)
    BY <2>1, <2>3, RegisterDirDone
  <2>4. CASE unsynced' = unsynced \cup {e.path} /\ UNCHANGED known
    BY <2>4 DEF EntryDone, EntryKept, Concerning
  <2>5. CASE Report(e, key, r) /\ UNCHANGED <<known, unsynced>>
    <3>1. main'.pc = "audit" /\ main'.ev = e
      BY <2>5 DEF Report, Auditing
    <3>2. Registering(main') = {e}
      BY <2>1, <3>1 DEF Registering
    <3> QED BY <2>5, <3>2 DEF EntryDone, EntryKept
  <2> QED BY <2>2, <2>3, <2>4, <2>5
<1>4. CASE OnDirectoryRenamed
  <2>1. e.kind = "DirectoryRenamed" /\ UNCHANGED <<known, unsynced>>
    BY <1>0, <1>4 DEF OnDirectoryRenamed, historyVars
  <2> QED BY <1>a, <2>1 DEF EntryDone, EntryKept, Concerning
<1>5. CASE OnFileRenamed
  <2>1. e.kind = "FileRenamed" /\ UNCHANGED <<known, unsynced>>
    BY <1>0, <1>5 DEF OnFileRenamed, historyVars
  <2> QED BY <1>a, <2>1 DEF EntryDone, EntryKept, Concerning
<1>6. CASE OnDeleted
  <2>1. /\ e.kind = "Deleted" /\ e.path \in Paths
        /\ known' = Entered(e.path, NoMeta) /\ unsynced' = unsynced \ {e.path}
    BY <1>0, <1>6 DEF OnDeleted
  <2>2. known'[a][p] = IF p = e.path THEN NoMeta[a] ELSE known[a][p]
    BY <2>1, EnteredEntry
  <2> QED BY <2>1, <2>2 DEF EntryDone, EntryKept, Concerning, NoMeta
<1>7. ASSUME NEW b \in Attrs, OnAttrChanged(b)
      PROVE  EntryDone(e, p, a)
  <2>1. e.kind = b /\ e.path \in Paths
    BY <1>0, <1>7 DEF OnAttrChanged
  <2> DEFINE changed == known[b][e.path] \notin {Absent, e.meta[b]}
  <2>2. \/ UNCHANGED known /\ unsynced' = IF changed THEN unsynced \cup {e.path} ELSE unsynced
        \/ ~changed /\ UNCHANGED <<known, unsynced>>
        \/ changed /\ known' = [known EXCEPT ![b][e.path] = e.meta[b]] /\ UNCHANGED unsynced
    BY <1>7 DEF OnAttrChanged
  <2>3. CASE b = a /\ e.path = p
    <3>1. CASE changed /\ known' = [known EXCEPT ![b][e.path] = e.meta[b]] /\ UNCHANGED unsynced
      <4>1. known'[a][p] = e.meta[a]
        BY <2>3, <3>1 DEF TypeOK
      <4> QED BY <2>1, <2>3, <3>1, <4>1 DEF EntryDone
    <3>2. CASE UNCHANGED known /\ changed /\ unsynced' = unsynced \cup {e.path}
      BY <2>3, <3>2 DEF EntryDone
    <3>3. CASE UNCHANGED known /\ ~changed /\ UNCHANGED unsynced
      BY <2>1, <2>3, <3>3 DEF EntryDone, EntryKept
    <3> QED BY <2>2, <3>1, <3>2, <3>3
  <2>4. CASE ~(b = a /\ e.path = p)
    <3>1. ~Concerning(e, p, a)
      BY <1>a, <2>1, <2>4 DEF Concerning, Attrs
    <3>2. EntryKept(p, a)
      BY <2>1, <2>2, <2>4 DEF EntryKept, TypeOK
    <3> QED BY <3>1, <3>2 DEF EntryDone
  <2> QED BY <2>3, <2>4
<1> QED BY <1>1, <1>2, <1>3, <1>4, <1>5, <1>6, <1>7 DEF TakeEvent

(* The value on disk of an attribute, and its absence. *)
LEMMA MetaValue ==
    ASSUME TypeOK, NEW p \in Paths, NEW a \in Attrs
    PROVE  /\ meta[p][a] \in Vals \cup {Absent} /\ Absent \notin Vals
           /\ meta[p][a] = Absent <=> disk[p] = Absent
           /\ known[a][p] \in Vals \cup {Absent}
<1>1. /\ meta \in [Paths -> MetaOrNone]
      /\ meta[p] = NoMeta <=> disk[p] = Absent
      /\ known \in [Attrs -> [Paths -> Vals \cup {Absent}]]
  BY DEF TypeOK, WatcherTypeOK
<1>2. meta[p] = NoMeta \/ meta[p] \in [Attrs -> Vals]
  BY <1>1 DEF MetaOrNone, Meta
<1>3. NoMeta[a] = Absent /\ Absent \notin Vals
  BY ValuesAssumption DEF NoMeta
<1> QED BY <1>1, <1>2, <1>3

(* A directory event from the queues carries attributes that are there.    *)
LEMMA CarriedMeta ==
    ASSUME NEW e \in SoundEvent, NEW a \in Attrs,
           e.kind \in {"DirectoryCreated", "perm", "owner"}
    PROVE  e.meta[a] \in Vals /\ e \in Event
BY DEF SoundEvent, Meta, Event

LEMMA TakeEventMaps ==
    ASSUME TypeOK, PipeInv, TakeEvent, NEW p \in Paths \ Excluded, NEW a \in Attrs,
           EntryInv(p, a)
    PROVE  EntryInv(p, a)'
<1> DEFINE e == Head(chan)
           v == meta[p][a]
           G == Registering(main')
           R == Rebuilds(p, v)
           U == Upsets(p, v)
           F == Refreshes(p, a, v)
           O == Outdates(p, a, v)
           A(X) == Ahead(chan', outbox, raw, X)
<1>1. /\ chan # <<>> /\ chan \in Seq(FimEvent) /\ chan' = Tail(chan)
      /\ UNCHANGED <<disk, meta, raw, outbox>>
      /\ main.pc = "idle" /\ e \in SoundEvent /\ e \in Event /\ e.path \in Paths
  BY TakeEventDecides, ReceiveFacts DEF TypeOK, WatcherTypeOK, Event, FimEvent
<1>2. Registering(main) = {}
  BY <1>1 DEF Registering
<1>3. G \subseteq {e}
  BY TakeEventDecides, IdleFits DEF Decided, Registering
<1> HIDE DEF e, v, G, R, U, F, O
<1>4. /\ Settled({}, chan, outbox, raw, U, R)
      /\ Settled({}, chan, outbox, raw, O, F)
      /\ \/ p \in unsynced
         \/ /\ (known[a][p] = Absent <=> v = Absent) \/ Ahead(chan, outbox, raw, R)
            /\ known[a][p] = v \/ Ahead(chan, outbox, raw, F)
  BY <1>2 DEF EntryInv, EntrySettled, EntryRight, EntryPresence, EntryValue, Coming,
              v, R, U, F, O
<1>5. /\ Settled(G, chan', outbox, raw, U, R)
      /\ Settled(G, chan', outbox, raw, O, F)
      /\ e \in U => A(R)
      /\ e \in O => A(F)
      /\ Ahead(chan, outbox, raw, R) => e \in R \/ A(R)
      /\ Ahead(chan, outbox, raw, F) => e \in F \/ A(F)
  BY <1>1, <1>3, <1>4, Taken DEF e
<1>6. SUFFICES
        \/ p \in unsynced'
        \/ /\ (known'[a][p] = Absent <=> v = Absent) \/ G \cap R # {} \/ A(R)
           /\ known'[a][p] = v \/ G \cap F # {} \/ A(F)
  BY <1>1, <1>5 DEF EntryInv, EntrySettled, EntryRight, EntryPresence, EntryValue, Coming,
                    v, G, R, U, F, O
<1>7. EntryDone(e, p, a)
  BY TakeEventEntry DEF e
<1>8. v \in Vals \cup {Absent} /\ Absent \notin Vals
  BY MetaValue DEF v
<1>a. a = "perm" \/ a = "owner"
  BY DEF Attrs
(* e is about something else. *)
<1>9. CASE EntryKept(p, a) /\ ~Concerning(e, p, a)
  <2>1. e \notin R /\ e \notin F
    <3>1. e.kind \in EventKinds
      BY <1>1 DEF SoundEvent, FimEvent
    <3>2. e.path # p \/ e.kind \notin Appearing \cup Vanishing \cup
                             {"DirectoryCreated", "metadata", a}
      BY <1>9, <3>1 DEF Concerning, Appearing, Vanishing, EventKinds
    <3> QED BY <3>2, Irrelevant DEF R, F
  <2> QED BY <1>4, <1>5, <1>9, <2>1 DEF EntryKept
(* e stays in hand. *)
<1>10. CASE EntryKept(p, a) /\ G = {e}
  <2>1. \A X : e \in X => G \cap X # {}
    BY <1>10
  <2> QED BY <1>4, <1>5, <1>10, <2>1 DEF EntryKept
(* The directory is registered as it was. *)
<1>11. CASE e.path = p /\ e.kind = "DirectoryCreated" /\ known'[a][p] = e.meta[a]
  <2>1. e.meta[a] # Absent
    BY <1>1, <1>8, <1>11, CarriedMeta
  <2>2. e \in U \/ v # Absent
    BY <1>1, <1>11 DEF U, Upsets
  <2>3. e \in O \/ e.meta[a] = v
    BY <1>1, <1>11 DEF O, Outdates
  <2> QED BY <1>5, <1>11, <2>1, <2>2, <2>3
(* The entry is forgotten. *)
<1>12. CASE e.path = p /\ e.kind = "Deleted" /\ known'[a][p] = Absent
  <2>1. v # Absent => e \in U /\ e \in O
    BY <1>1, <1>12 DEF U, Upsets, O, Outdates, Vanishing
  <2> QED BY <1>5, <1>12, <2>1
(* The attribute is not updated: it has no entry, or already this value.   *)
<1>13. CASE e.path = p /\ e.kind = a /\ EntryKept(p, a) /\ known[a][p] \in {Absent, e.meta[a]}
  <2>1. e \notin R
    BY <1>a, <1>13 DEF R, Rebuilds, Appearing, Vanishing
  <2>2. e \in O \/ e.meta[a] = v
    BY <1>1, <1>13 DEF O, Outdates
  <2>3. v # Absent => R \subseteq O \cup F
    BY DEF R, F, O, Rebuilds, Refreshes, Outdates
  <2>4. v # Absent /\ A(R) => A(F)
    BY <1>5, <2>3, CarriedOn
  <2> QED BY <1>4, <1>5, <1>13, <2>1, <2>2, <2>4 DEF EntryKept
(* The attribute is updated. *)
<1>14. CASE /\ e.path = p /\ e.kind = a
            /\ known[a][p] # Absent /\ known'[a][p] = e.meta[a]
            /\ p \in unsynced => p \in unsynced'
  <2>1. e \notin R
    BY <1>a, <1>14 DEF R, Rebuilds, Appearing, Vanishing
  <2>2. e \in O \/ e.meta[a] = v
    BY <1>1, <1>14 DEF O, Outdates
  <2>3. e.meta[a] # Absent
    BY <1>1, <1>8, <1>a, <1>14, CarriedMeta
  <2> QED BY <1>4, <1>5, <1>14, <2>1, <2>2, <2>3
<1> QED BY <1>7, <1>9, <1>10, <1>11, <1>12, <1>13, <1>14 DEF EntryDone, G

(* The write steps: only those that register a path touch the maps.        *)
LEMMA FinishEntry ==
    ASSUME TypeOK, PipeInv, Finish, NEW p \in Paths, NEW a \in Attrs
    PROVE  \/ UNCHANGED <<known, unsynced>> /\ Registering(main') = Registering(main)
           \/ /\ Registering(main) = {main.ev} /\ Registering(main') = {}
              /\ \/ EntryKept(p, a) /\ main.ev.path # p
                 \/ p \in unsynced'
                 \/ /\ main.ev.path = p /\ main.ev.kind = "DirectoryCreated"
                    /\ known'[a][p] = main.ev.meta[a]
                 \/ /\ main.ev.path = p /\ main.ev.kind = "Created"
                    /\ \/ meta[p][a] = Absent
                       \/ known'[a][p] = meta[p][a]
<1> DEFINE e == main.ev
<1>1. e \in SoundEvent /\ e.path \in Paths /\ main.pc # "idle" /\ HandlerFits(main)
  BY FinishMain DEF PipeInv, SoundEvent, FimEvent
<1>2. Registering(Idle) = {}
  BY IdleFits DEF Registering
<1>3. CASE RecordAuditLog
  <2>1. RecordFits(e, main.rec)
    BY <1>1, <1>3 DEF RecordAuditLog, HandlerFits
  <2>2. CASE main.rec.action = "DIR_CREATED"
    <3>1. e.kind = "DirectoryCreated"
      BY <2>1, <2>2 DEF RecordFits, ContentActions, AttrAction
    <3>2. main' = Idle /\ RegisterDir(e)
      BY <1>3, <2>2 DEF RecordAuditLog, AfterAudit
    <3>3. known'[a][p] = IF p = e.path THEN e.meta[a] ELSE known[a][p]
      BY <1>1, <3>2, EnteredEntry DEF RegisterDir
    <3>4. Registering(main) = {e} /\ Registering(main') = {}
      BY <1>1, <1>2, <3>1, <3>2 DEF Registering
    <3>5. p # e.path /\ p \in unsynced => p \in unsynced'
      BY <3>2 DEF RegisterDir
    <3> QED BY <3>1, <3>3, <3>4, <3>5 DEF EntryKept
  <2>3. CASE main.rec.action # "DIR_CREATED"
    <3>1. UNCHANGED <<known, unsynced>>
      BY <1>3, <2>3 DEF RecordAuditLog, historyVars
    <3>2. CASE e.kind = "Created"
      <4>1. main.rec.action \in ContentActions
        BY <2>1, <3>2 DEF RecordFits, Attrs
      <4>2. main' = [main EXCEPT !.pc = "save"] /\ main \in Main
        BY <1>3, <4>1 DEF RecordAuditLog, AfterAudit, ContentActions, TypeOK, Main
      <4>3. main'.pc = "save" /\ main'.ev = e
        BY <4>2 DEF Main
      <4> QED BY <1>1, <3>1, <3>2, <4>3 DEF Registering
    <3>3. CASE e.kind # "Created"
      <4>1. e.kind # "DirectoryCreated"
        BY <2>1, <2>3, <3>3 DEF RecordFits, Attrs
      <4>2. main' = Idle \/ main'.ev = e
        BY FinishMain, <1>3
      <4> QED BY <1>2, <3>1, <3>3, <4>1, <4>2 DEF Registering
    <3> QED BY <3>2, <3>3
  <2> QED BY <2>2, <2>3
<1>4. CASE DeleteFingerprint
  <2>1. e.kind \in {"Deleted", "FileRenamed"}
    BY <1>1, <1>4 DEF DeleteFingerprint, HandlerFits
  <2>2. main' = Idle \/ main'.ev = e
    BY FinishMain, <1>4
  <2>3. UNCHANGED <<known, unsynced>>
    BY <1>4 DEF DeleteFingerprint
  <2> QED BY <1>2, <2>1, <2>2, <2>3 DEF Registering
<1>5. CASE SaveFingerprint
  <2>1. main' = Idle
    BY <1>5 DEF SaveFingerprint
  <2>2. CASE e.kind # "Created"
    <3>1. e.kind \in {"Modified", "FileRenamed"}
      BY <1>1, <1>5, <2>2 DEF SaveFingerprint, HandlerFits
    <3>2. UNCHANGED <<known, unsynced>>
      BY <1>5, <2>2 DEF SaveFingerprint
    <3> QED BY <1>2, <2>1, <3>1, <3>2 DEF Registering
  <2>3. CASE e.kind = "Created"
    <3>1. SavedPath = e.path
      BY <2>3 DEF SavedPath
    <3>2. Registering(main) = {e} /\ Registering(main') = {}
      BY <1>1, <1>2, <2>1, <2>3 DEF Registering
    <3>3. \/ unsynced' = unsynced \cup {e.path} /\ UNCHANGED known
          \/ RegisterFile(e.path)
      BY <1>5, <2>3, <3>1 DEF SaveFingerprint
    <3>4. CASE unsynced' = unsynced \cup {e.path} /\ UNCHANGED known
      BY <3>2, <3>4 DEF EntryKept
    <3>5. CASE RegisterFile(e.path) /\ disk[e.path] = Absent
      <4>1. UNCHANGED known /\ unsynced' = unsynced \ {e.path}
        BY <3>5 DEF RegisterFile
      <4>2. e.path = p => meta[p][a] = Absent
        BY <3>5, MetaValue
      <4> QED BY <2>3, <3>2, <4>1, <4>2 DEF EntryKept
    <3>6. CASE RegisterFile(e.path) /\ disk[e.path] # Absent
      <4>1. known' = Entered(e.path, meta[e.path]) /\ unsynced' = unsynced \ {e.path}
        BY <3>6 DEF RegisterFile
      <4>2. known'[a][p] = IF p = e.path THEN meta[p][a] ELSE known[a][p]
        BY <1>1, <4>1, EnteredEntry
      <4> QED BY <2>3, <3>2, <4>1, <4>2 DEF EntryKept
    <3> QED BY <3>3, <3>4, <3>5, <3>6
  <2> QED BY <2>2, <2>3
<1> QED BY <1>3, <1>4, <1>5 DEF Finish

LEMMA FinishMaps ==
    ASSUME TypeOK, PipeInv, Finish, NEW p \in Paths \ Excluded, NEW a \in Attrs,
           EntryInv(p, a)
    PROVE  EntryInv(p, a)'
<1> DEFINE e == main.ev
           v == meta[p][a]
           R == Rebuilds(p, v)
           U == Upsets(p, v)
           F == Refreshes(p, a, v)
           O == Outdates(p, a, v)
           A(X) == Ahead(chan, outbox, raw, X)
<1>1. UNCHANGED <<meta, chan, outbox, raw>>
  BY FinishMain DEF watcherVars
<1>2. CASE UNCHANGED <<known, unsynced>> /\ Registering(main') = Registering(main)
  BY <1>1, <1>2 DEF EntryInv
<1>3. CASE /\ Registering(main) = {e} /\ Registering(main') = {}
           /\ \/ EntryKept(p, a) /\ e.path # p
              \/ p \in unsynced'
              \/ e.path = p /\ e.kind = "DirectoryCreated" /\ known'[a][p] = e.meta[a]
              \/ /\ e.path = p /\ e.kind = "Created"
                 /\ v = Absent \/ known'[a][p] = v
  <2>1. e \in SoundEvent /\ e \in Event
    BY DEF PipeInv, SoundEvent, Event
  <2>2. v \in Vals \cup {Absent} /\ Absent \notin Vals
    BY MetaValue
  <2> HIDE DEF e, v, R, U, F, O
  <2>3. /\ Settled({e}, chan, outbox, raw, U, R)
        /\ Settled({e}, chan, outbox, raw, O, F)
        /\ \/ p \in unsynced
           \/ /\ (known[a][p] = Absent <=> v = Absent) \/ e \in R \/ A(R)
              /\ known[a][p] = v \/ e \in F \/ A(F)
    BY <1>3 DEF EntryInv, EntrySettled, EntryRight, EntryPresence, EntryValue, Coming,
                v, R, U, F, O
  <2>4. /\ Settled({}, chan, outbox, raw, U, R)
        /\ Settled({}, chan, outbox, raw, O, F)
    BY <2>3, Dropped
  <2>5. (e \in U => A(R)) /\ (e \in O => A(F))
    BY <2>3 DEF Settled
  <2>6. SUFFICES
          \/ p \in unsynced'
          \/ /\ (known'[a][p] = Absent <=> v = Absent) \/ A(R)
             /\ known'[a][p] = v \/ A(F)
    BY <1>1, <1>3, <2>4 DEF EntryInv, EntrySettled, EntryRight, EntryPresence, EntryValue,
                Coming, v, R, U, F, O
  <2>7. CASE EntryKept(p, a) /\ e.path # p
    <3>1. e \notin R /\ e \notin F
      BY <2>7, Irrelevant DEF R, F
    <3> QED BY <2>3, <2>7, <3>1 DEF EntryKept
  <2>8. CASE e.path = p /\ e.kind = "DirectoryCreated" /\ known'[a][p] = e.meta[a]
    <3>1. e.meta[a] # Absent
      BY <2>1, <2>2, <2>8, CarriedMeta
    <3>2. e \in U \/ v # Absent
      BY <2>1, <2>8 DEF U, Upsets
    <3>3. e \in O \/ e.meta[a] = v
      BY <2>1, <2>8 DEF O, Outdates
    <3> QED BY <2>5, <2>8, <3>1, <3>2, <3>3
  <2>9. CASE e.path = p /\ e.kind = "Created" /\ (v = Absent \/ known'[a][p] = v)
    <3>1. v = Absent => e \in U /\ e \in O
      BY <2>1, <2>9 DEF U, Upsets, O, Outdates
    <3> QED BY <2>5, <2>9, <3>1
  <2> QED BY <1>3, <2>7, <2>8, <2>9
<1> QED BY <1>2, <1>3, FinishEntry

LEMMA NextMaps ==
    ASSUME TypeOK, PipeInv, MapsInv, [Next]_vars
    PROVE  MapsInv'
<1> SUFFICES ASSUME phase' = "running", NEW p \in Paths \ Excluded, NEW a \in Attrs
             PROVE  EntryInv(p, a)'
  BY DEF MapsInv, EntryInv
<1>1. phase = "running" => EntryInv(p, a)
  BY DEF MapsInv, EntryInv
<1>2. CASE Environment
  BY <1>1, <1>2, EnvironmentEntry DEF Environment, daemonVars
<1>3. CASE Watcher
  BY <1>1, <1>3, WatcherEntry DEF Watcher, daemonVars
<1>4. CASE TakeEvent
  BY <1>1, <1>4, TakeEventMaps, TakeEventDecides, ReceiveFacts
<1>5. CASE Finish
  BY <1>1, <1>5, FinishMaps, FinishMain
<1>6. CASE StartWatcher
  <2>1. /\ raw' = <<>> /\ outbox' = <<>> /\ chan' = <<>>
        /\ UNCHANGED <<meta, known, main>> /\ main.pc = "idle"
        /\ unsynced' = {q \in Paths : ~InStep(q)}
    BY <1>6 DEF StartWatcher, PipeInv, fsVars
  <2>2. p \in unsynced' \/ known[a][p] = meta[p][a]
    BY <2>1 DEF InStep
  <2> QED
    BY <2>1, <2>2, NothingAhead
       DEF EntryInv, EntrySettled, EntryRight, EntryPresence, EntryValue, Registering
<1>7. CASE Preload \/ Stop
  BY <1>7 DEF Preload, Stop, Crash, Terminate, Exit
<1>8. CASE UNCHANGED vars
  BY <1>1, <1>8 DEF vars, watcherVars, daemonVars, historyVars, EntryInv
<1> QED
  BY <1>2, <1>3, <1>4, <1>5, <1>6, <1>7, <1>8 DEF Next, MainLoop, Startup

(* Once the queues have drained and no handler is at work, the state maps  *)
(* hold what is on disk for every monitored path the code did not choose   *)
(* to skip: however late the watcher thread read the disk and however the  *)
(* events of one path overtook its changes, each that left a wrong entry   *)
(* had one behind it that sets it right.                                   *)
THEOREM MapsAlwaysConverge == Spec => []MapsConverge
<1>1. Init => MapsInv
  BY DEF Init, MapsInv
<1>2. TypeOK /\ PipeInv /\ MapsInv /\ [Next]_vars => MapsInv'
  BY NextMaps
<1>3. MapsInv => MapsConverge
  <2> SUFFICES ASSUME MapsInv, Quiescent, NEW p \in Paths, Monitored(p), p \notin unsynced,
                      NEW a \in Attrs
               PROVE  known[a][p] = meta[p][a]
    BY DEF MapsConverge, InStep
  <2>1. /\ phase = "running" /\ Registering(main) = {}
        /\ chan = <<>> /\ outbox = <<>> /\ raw = <<>>
    BY DEF Quiescent, Registering
  <2>2. EntryValue(p, a, meta[p][a], known[a][p], {}, <<>>, <<>>, <<>>)
    BY <2>1 DEF MapsInv, EntryRight, Monitored
  <2> QED BY <2>2, NothingAhead DEF EntryValue, Coming
<1> QED BY <1>1, <1>2, <1>3, PipeAlways, PTL DEF Spec

-----------------------------------------------------------------------------
(* No change without an alert                                              *)
(*                                                                         *)
(* A debounced change is not alerted again: that its alert went out is     *)
(* known from its key alone, which carries the new value and enters recent *)
(* in the step that dispatches the alert.  Neither needs the database.     *)

Notifies == NotifyLegit \/ TRUE \notin PkgSamples

Alerted(p, x) == \E act \in ChangeActions : Rec(act, p, x) \in alerts

KeysAlerted ==
    \A k \in recent :
        /\ k.kind = "modified" /\ Notifies => Alerted(k.path, k.fact)
        /\ k.kind \in Attrs => Rec(AttrAction(k.kind), k.path, k.fact) \in alerts

ChangeInHandAlerted ==
    ChangeInHand /\ Notifies =>
        \/ db[main.ev.path] \in {Absent, main.ev.hash}
        \/ Alerted(main.ev.path, main.ev.hash)

AlertInv ==
    /\ phase = "stopped" => recent = {}
    /\ KeysAlerted
    /\ ChangeInHandAlerted

(* A decision without an alert: a change goes on only if it needs none, or *)
(* has had one.                                                            *)
LEMMA QuietAlert ==
    ASSUME AlertInv, UNCHANGED <<phase, db>>, NEW m, Quietly(m),
           \/ m.pc \in {"idle", "delete"}
           \/ db[m.ev.path] \in {Absent, m.ev.hash}
           \/ Notifies => Alerted(m.ev.path, m.ev.hash)
    PROVE  AlertInv'
<1>1. main' = m /\ recent' = recent /\ alerts' = alerts
  BY DEF Quietly
<1> QED
  BY <1>1 DEF AlertInv, KeysAlerted, ChangeInHandAlerted, ChangeInHand, Alerted

(* Keys entered together with the alert r say no more than r does.         *)
SaysNoMore(r, keys) ==
    \A k \in keys :
        /\ k.kind = "modified" =>
             r.action \in ChangeActions /\ r = Rec(r.action, k.path, k.fact)
        /\ k.kind \in Attrs => r = Rec(AttrAction(k.kind), k.path, k.fact)

LEMMA ReportAlert ==
    ASSUME AlertInv, phase' # "stopped", UNCHANGED db, NEW e, NEW r, NEW keys,
           recent' = recent \cup keys, alerts' = alerts \cup {r}, main' = Auditing(e, r),
           SaysNoMore(r, keys),
           \/ e.kind \notin {"Created", "Modified"}
           \/ db[e.path] \in {Absent, e.hash}
           \/ r.action \in ChangeActions /\ r = Rec(r.action, e.path, e.hash)
    PROVE  AlertInv'
<1>1. main'.ev = e
  BY DEF Auditing
<1>2. \A p, x : Alerted(p, x) => Alerted(p, x)'
  BY DEF Alerted
<1>3. KeysAlerted'
  BY <1>2 DEF AlertInv, KeysAlerted, SaysNoMore, Alerted
<1>4. ChangeInHandAlerted'
  BY <1>1 DEF ChangeInHandAlerted, ChangeInHand, Alerted
<1> QED BY <1>3, <1>4 DEF AlertInv

(* A package update that is not notified enters its key without an alert. *)
LEMMA SuppressedAlert ==
    ASSUME AlertInv, phase' # "stopped", UNCHANGED <<alerts, db>>, ~Notifies, NEW key,
           key.kind = "modified", recent' = recent \cup {key}
    PROVE  AlertInv'
BY DEF AlertInv, KeysAlerted, ChangeInHandAlerted, Notifies, Attrs

LEMMA ReportChangeAlert ==
    ASSUME AlertInv, phase' # "stopped", UNCHANGED <<phase, db>>, NEW e, ReportChange(e)
    PROVE  AlertInv'
<1> DEFINE key == K("modified", e.path, e.hash)
<1>1. key.kind = "modified" /\ key.path = e.path /\ key.fact = e.hash
  BY DEF K
<1>2. CASE Debounced(key, At("save", e))
  <2>1. Notifies => Alerted(e.path, e.hash)
    BY <1>1, <1>2 DEF Debounced, AlertInv, KeysAlerted
  <2>2. At("save", e).ev = e
    BY DEF At
  <2> QED BY <1>2, <2>1, <2>2, QuietAlert DEF Debounced
<1>3. ASSUME NEW pkg \in PkgSamples,
             LET r == Rec(IF pkg THEN "PACKAGE_UPDATE" ELSE "FILE_TAMPERING",
                          e.path, e.hash)
             IN  IF pkg /\ ~NotifyLegit
                 THEN /\ recent' = recent \cup {key}
                      /\ main' = Auditing(e, r)
                      /\ UNCHANGED alerts
                 ELSE Report(e, key, r)
      PROVE  AlertInv'
  <2> DEFINE act == IF pkg THEN "PACKAGE_UPDATE" ELSE "FILE_TAMPERING"
             r == Rec(act, e.path, e.hash)
  <2>1. CASE pkg /\ ~NotifyLegit
    <3>1. ~Notifies
      <4>1. pkg = TRUE
        BY <2>1, DaemonAssumption
      <4> QED BY <2>1, <4>1 DEF Notifies
    <3>2. recent' = recent \cup {key} /\ UNCHANGED alerts
      BY <1>3, <2>1
    <3> QED BY <1>1, <3>1, <3>2, SuppressedAlert
  <2>2. CASE ~(pkg /\ ~NotifyLegit)
    <3>1. recent' = recent \cup {key} /\ alerts' = alerts \cup {r} /\ main' = Auditing(e, r)
      BY <1>3, <2>2 DEF Report
    <3>2. act \in ChangeActions /\ r.action = act /\ r = Rec(r.action, e.path, e.hash)
      BY DEF ChangeActions, Rec
    <3>3. SaysNoMore(r, {key})
      BY <1>1, <3>2 DEF SaysNoMore, Attrs
    <3> HIDE DEF key, r
    <3> QED BY <3>1, <3>2, <3>3, ReportAlert
  <2> QED BY <2>1, <2>2
<1> QED BY <1>2, <1>3 DEF ReportChange

LEMMA TakeEventAlert ==
    ASSUME TypeOK, PipeInv, AlertInv, TakeEvent
    PROVE  AlertInv'
<1> DEFINE e == Head(chan)
<1>0. phase' # "stopped" /\ UNCHANGED <<phase, db>>
  BY TakeEventDecides, ReceiveFacts
<1>1. ASSUME NEW k, Receive(k) PROVE e.kind = k
  BY <1>1, ReceiveFacts
<1>2. /\ Quietly(Idle) => AlertInv'
      /\ Quietly(At("delete", e)) => AlertInv'
  BY <1>0, QuietAlert DEF Idle, At
<1>3. ASSUME NEW kind \in {"created_dir", "renamed_dir", "deleted"}, NEW act, NEW x,
             Report(e, K(kind, e.path, x), Rec(act, e.path, x)),
             e.kind \notin {"Created", "Modified"}
      PROVE  AlertInv'
  <2>1. K(kind, e.path, x).kind = kind
    BY DEF K
  <2>2. SaysNoMore(Rec(act, e.path, x), {K(kind, e.path, x)})
    BY <2>1 DEF SaysNoMore, Attrs
  <2> QED BY <1>0, <1>3, <2>2, ReportAlert DEF Report
<1>4. CASE OnModified
  <2>1. Quietly(Idle) \/ ReportChange(e)
    BY <1>4 DEF OnModified
  <2> QED BY <1>0, <1>2, <2>1, ReportChangeAlert
<1>5. CASE OnCreated
  <2> DEFINE unreported == [At("save", e) EXCEPT !.register = TRUE]
             key == K("created", e.path, Absent)
             r == Rec("FILE_CREATED", e.path, e.hash)
  <2>1. unreported.ev = e /\ At("save", e).ev = e
    BY DEF At
  <2>2. ASSUME db[e.path] \in {Absent, e.hash}, Quietly(unreported) PROVE AlertInv'
    BY <1>0, <2>1, <2>2, QuietAlert
  <2>3. ASSUME db[e.path] = Absent, Quietly(At("save", e)) PROVE AlertInv'
    BY <1>0, <2>1, <2>3, QuietAlert
  <2>4. ASSUME db[e.path] = Absent, Report(e, key, r) PROVE AlertInv'
    <3>1. key.kind = "created"
      BY DEF K
    <3>2. SaysNoMore(r, {key})
      BY <3>1 DEF SaysNoMore, Attrs
    <3> QED BY <1>0, <2>4, <3>2, ReportAlert DEF Report
  <2>5. \/ db[e.path] = e.hash /\ Quietly(unreported)
        \/ ReportChange(e)
        \/ /\ db[e.path] = Absent
           /\ Quietly(unreported) \/ Quietly(At("save", e)) \/ Report(e, key, r)
    BY <1>5 DEF OnCreated, Debounced
  <2> QED BY <1>0, <2>2, <2>3, <2>4, <2>5, ReportChangeAlert
<1>6. CASE OnDirectoryCreated
  <2>1. Receive("DirectoryCreated")
    BY <1>6 DEF OnDirectoryCreated
  <2>2. \/ Quietly(Idle)
        \/ Report(e, K("created_dir", e.path, Absent), Rec("DIR_CREATED", e.path, Absent))
    BY <1>6 DEF OnDirectoryCreated, Debounced
  <2> QED BY <1>1, <1>2, <1>3, <2>1, <2>2
<1>7. CASE OnDirectoryRenamed
  <2>1. Receive("DirectoryRenamed")
    BY <1>7 DEF OnDirectoryRenamed
  <2>2. \/ Quietly(Idle)
        \/ Report(e, K("renamed_dir", e.path, e.to), Rec("DIR_RENAMED", e.path, e.to))
    BY <1>7 DEF OnDirectoryRenamed, Debounced
  <2> QED BY <1>1, <1>2, <1>3, <2>1, <2>2
<1>8. CASE OnFileRenamed
  <2> DEFINE keys == {K("renamed_file", e.path, e.to), K("deleted", e.path, Absent),
                      K("created", e.to, Absent)}
             r == Rec("FILE_RENAMED", e.path, e.to)
  <2>1. e.kind = "FileRenamed"
    BY <1>1, <1>8 DEF OnFileRenamed
  <2>2. SaysNoMore(r, keys)
    <3>1. \A k \in keys : k.kind \notin {"modified"} \cup Attrs
      BY DEF K, Attrs
    <3> QED BY <3>1 DEF SaysNoMore
  <2>3. \/ Quietly(Idle) \/ Quietly(At("delete", e))
        \/ recent' = recent \cup keys /\ alerts' = alerts \cup {r} /\ main' = Auditing(e, r)
    BY <1>8 DEF OnFileRenamed, Debounced
  <2> HIDE DEF keys, r
  <2> QED BY <1>0, <1>2, <2>1, <2>2, <2>3, ReportAlert
<1>9. CASE OnDeleted
  <2>1. e.kind = "Deleted"
    BY <1>1, <1>9 DEF OnDeleted
  <2>2. \/ Quietly(Idle) \/ Quietly(At("delete", e))
        \/ Report(e, K("deleted", e.path, Absent), Rec("FILE_DELETED", e.path, Absent))
        \/ Report(e, K("deleted", e.path, Absent), Rec("DIR_DELETED", e.path, Absent))
    BY <1>9 DEF OnDeleted, Debounced
  <2> QED BY <1>2, <1>3, <2>1, <2>2
<1>10. ASSUME NEW a \in Attrs, OnAttrChanged(a)
       PROVE  AlertInv'
  <2> DEFINE key == K(a, e.path, e.meta[a])
             r == Rec(AttrAction(a), e.path, e.meta[a])
  <2>1. e.kind \notin {"Created", "Modified"}
    BY <1>1, <1>10 DEF OnAttrChanged, Attrs
  <2>2. key.kind = a /\ key.path = e.path /\ key.fact = e.meta[a]
    BY DEF K
  <2>3. SaysNoMore(r, {key})
    BY <2>2 DEF SaysNoMore, Attrs
  <2>4. \/ Quietly(Idle)
        \/ recent' = recent \cup {key} /\ alerts' = alerts \cup {r} /\ main' = Auditing(e, r)
    BY <1>10 DEF OnAttrChanged, Debounced, Report
  <2> HIDE DEF key, r
  <2> QED BY <1>0, <1>2, <2>1, <2>3, <2>4, ReportAlert
<1> QED BY <1>4, <1>5, <1>6, <1>7, <1>8, <1>9, <1>10 DEF TakeEvent

LEMMA NextAlert ==
    ASSUME TypeOK, PipeInv, AlertInv, [Next]_vars
    PROVE  AlertInv'
<1> USE DEF AlertInv, KeysAlerted, ChangeInHandAlerted, ChangeInHand, Alerted
<1>1. CASE Environment \/ Watcher \/ UNCHANGED vars
  BY <1>1 DEF Environment, Watcher, vars, daemonVars
<1>2. CASE TakeEvent
  BY <1>2, TakeEventAlert
<1>3. CASE RecordAuditLog
  <2>1. main'.pc \in {"audit", "save"} => main.pc = "audit" /\ main'.ev = main.ev
    BY <1>3, FinishMain, IdleFits DEF Finish, RecordAuditLog
  <2> QED BY <1>3, <2>1 DEF RecordAuditLog, mainUnchanged
<1>4. CASE DeleteFingerprint \/ SaveFingerprint
  <2>1. main'.pc \in {"audit", "save"} => main'.ev.kind = "FileRenamed"
    BY <1>4, FinishMain, IdleFits DEF DeleteFingerprint, SaveFingerprint, Finish, RecordAuditLog
  <2> QED BY <1>4, <2>1 DEF DeleteFingerprint, SaveFingerprint, mainUnchanged
<1>5. CASE Preload
  BY <1>5 DEF Preload, PipeInv
<1>6. CASE StartWatcher
  BY <1>6 DEF StartWatcher
<1>7. CASE Stop
  BY <1>7, IdleFits DEF Stop, Crash, Terminate, Exit
<1> QED
  BY <1>1, <1>2, <1>3, <1>4, <1>5, <1>6, <1>7 DEF Next, MainLoop, Finish, Startup

LEMMA AlertAlways == Spec => [](TypeOK /\ PipeInv /\ AlertInv)
<1>1. Init => AlertInv
  BY IdleFits DEF Init, AlertInv, KeysAlerted, ChangeInHandAlerted, ChangeInHand
<1>2. TypeOK /\ PipeInv /\ AlertInv /\ [Next]_vars => AlertInv'
  BY NextAlert
<1> QED BY <1>1, <1>2, PipeAlways, PTL DEF Spec

(* Whatever the database does: where package updates are notified too, the *)
(* hash of a row is replaced (other than by a rename) only after an alert  *)
(* that names the new hash was handed to the dispatcher by this daemon.    *)
THEOREM RebaselineNeverSilent == Spec => RebaselineAlerted
<1> DEFINE Told ==
      NotifyLegit \/ TRUE \notin PkgSamples =>
        \A p \in Paths :
          db[p] # Absent /\ db'[p] \notin {db[p], Absent}
          /\ main.ev.kind # "FileRenamed"
          => \E act \in {"FILE_TAMPERING", "PACKAGE_UPDATE"} :
                Rec(act, p, db'[p]) \in alerts
<1>1. TypeOK /\ PipeInv /\ AlertInv /\ [Next]_vars => [Told]_vars
  <2> SUFFICES ASSUME TypeOK, PipeInv, AlertInv, Next, Notifies,
                      NEW p \in Paths, db[p] # Absent,
                      db'[p] \notin {db[p], Absent}, main.ev.kind # "FileRenamed"
               PROVE  Alerted(p, db'[p])
    BY DEF Notifies, Alerted, ChangeActions
  <2>1. CASE SaveFingerprint
    <3>1. main.pc = "save" /\ main.ev.kind \in {"Modified", "Created"}
      BY <2>1 DEF SaveFingerprint, PipeInv, HandlerFits
    <3>2. SavedPath = main.ev.path /\ SavedHash = main.ev.hash
      BY DEF SavedPath, SavedHash
    <3>3. p = main.ev.path /\ db'[p] = main.ev.hash
      BY <2>1, <3>2 DEF SaveFingerprint, TypeOK
    <3> QED
      BY <3>1, <3>3 DEF AlertInv, ChangeInHandAlerted, ChangeInHand
  <2>2. CASE DeleteFingerprint
    BY <2>2 DEF DeleteFingerprint, TypeOK
  <2>3. CASE TakeEvent
    BY <2>3, TakeEventDecides, ReceiveFacts
  <2>4. CASE Environment \/ Watcher \/ RecordAuditLog \/ Startup \/ Stop
    BY <2>4 DEF Environment, Watcher, daemonVars, RecordAuditLog, Startup,
           Preload, StartWatcher, Stop, Crash, Terminate, Exit
  <2> QED BY <2>1, <2>2, <2>3, <2>4 DEF Next, MainLoop, Finish
<1>2. Spec => [][Told]_vars
  BY <1>1, AlertAlways, PTL DEF Spec
<1> QED BY <1>2 DEF RebaselineAlerted

(* Which entries of the state maps a handler may replace without looking   *)
(* at what was there.                                                      *)
LEMMA TakeEventKnown ==
    ASSUME TypeOK, PipeInv, AlertInv, TakeEvent, NEW b \in Attrs, NEW p \in Paths,
           known'[b][p] # known[b][p]
    PROVE  \/ known'[b][p] = Absent
           \/ Rec(AttrAction(b), p, known'[b][p]) \in alerts'
           \/ Head(chan).kind = "DirectoryCreated"
<1> DEFINE e == Head(chan)
<1>1. known \in [Attrs -> [Paths -> Vals \cup {Absent}]] /\ e.path \in Paths
  BY TakeEventDecides, ReceiveFacts DEF TypeOK, FimEvent
<1>2. CASE OnModified \/ OnCreated \/ OnDirectoryRenamed \/ OnFileRenamed
  BY <1>2 DEF OnModified, OnCreated, OnDirectoryRenamed, OnFileRenamed
<1>3. CASE OnDirectoryCreated
  BY <1>3 DEF OnDirectoryCreated, Receive
<1>4. CASE OnDeleted
  <2>1. known' = Entered(e.path, NoMeta)
    BY <1>4 DEF OnDeleted
  <2>2. known'[b] = [known[b] EXCEPT ![e.path] = NoMeta[b]] /\ NoMeta[b] = Absent
    BY <2>1 DEF Entered, NoMeta
  <2> QED BY <1>1, <2>2
<1>5. ASSUME NEW a \in Attrs, OnAttrChanged(a)
      PROVE  Rec(AttrAction(b), p, known'[b][p]) \in alerts'
  <2> DEFINE v == e.meta[a]
             key == K(a, e.path, v)
             r == Rec(AttrAction(a), e.path, v)
  <2>1. /\ known' = [known EXCEPT ![a][e.path] = v]
        /\ Debounced(key, Idle) \/ Report(e, key, r)
    BY <1>5 DEF OnAttrChanged
  <2>2. b = a /\ p = e.path /\ known'[b][p] = v
    BY <1>1, <2>1
  <2>3. r \in alerts'
    <3>1. CASE Debounced(key, Idle)
      <4>1. key \in recent /\ alerts' = alerts
        BY <3>1 DEF Debounced, Quietly
      <4>2. key.kind = a /\ key.path = e.path /\ key.fact = v
        BY DEF K
      <4> HIDE DEF key
      <4> QED BY <4>1, <4>2 DEF AlertInv, KeysAlerted
    <3>2. CASE Report(e, key, r)
      BY <3>2 DEF Report
    <3> QED BY <2>1, <3>1, <3>2
  <2> QED BY <2>2, <2>3
<1> QED BY <1>2, <1>3, <1>4, <1>5 DEF TakeEvent

(* Whatever the database does: a permission or an owner the daemon knows   *)
(* is replaced by another one only by registering a created path, or with  *)
(* an alert that names the new value; a debounced event had its own.       *)
THEOREM AttrChangeNeverSilent == Spec => AttrChangeAlerted
<1> DEFINE Told ==
      \A a \in Attrs, p \in Paths :
          /\ phase = "running"
          /\ Absent \notin {known[a][p], known'[a][p]}
          /\ known'[a][p] # known[a][p]
          => \/ Rec(AttrAction(a), p, known'[a][p]) \in alerts'
             \/ HandledKind \in {"Created", "DirectoryCreated"}
<1>1. TypeOK /\ PipeInv /\ AlertInv /\ [Next]_vars => [Told]_vars
  <2> SUFFICES ASSUME TypeOK, PipeInv, AlertInv, Next, NEW a \in Attrs, NEW p \in Paths,
                      phase = "running", known'[a][p] # Absent,
                      known'[a][p] # known[a][p]
               PROVE  \/ Rec(AttrAction(a), p, known'[a][p]) \in alerts'
                      \/ HandledKind \in {"Created", "DirectoryCreated"}
    OBVIOUS
  <2>1. CASE TakeEvent
    <3>1. HandledKind = Head(chan).kind
      BY <2>1, TakeEventDecides, ReceiveFacts DEF HandledKind
    <3> QED BY <2>1, <3>1, TakeEventKnown
  <2>2. CASE RecordAuditLog
    <3>1. main.rec.action = "DIR_CREATED" /\ main.pc = "audit"
      BY <2>2 DEF RecordAuditLog
    <3>2. RecordFits(main.ev, main.rec)
      BY <3>1 DEF PipeInv, HandlerFits
    <3>3. main.ev.kind = "DirectoryCreated"
      BY <3>1, <3>2 DEF RecordFits, ContentActions, AttrAction
    <3> QED BY <3>1, <3>3 DEF HandledKind
  <2>3. CASE SaveFingerprint
    BY <2>3 DEF SaveFingerprint, HandledKind
  <2>4. CASE Environment \/ Watcher \/ DeleteFingerprint \/ Startup
    BY <2>4 DEF Environment, Watcher, daemonVars, DeleteFingerprint, Startup,
           Preload, StartWatcher
  <2>5. CASE Stop
    BY <2>5 DEF Stop, Crash, Terminate, Exit, EmptyMap
  <2> QED BY <2>1, <2>2, <2>3, <2>4, <2>5 DEF Next, MainLoop, Finish
<1>2. Spec => [][Told]_vars
  BY <1>1, AlertAlways, PTL DEF Spec
<1> QED BY <1>2 DEF AttrChangeAlerted
=============================================================================
