------------------------ MODULE FimDaemonRefinement ------------------------
(***************************************************************************)
(* The daemon implements Baseline.  A file is behind while nobody watches, *)
(* while its row is off since a time nobody did, and while an event about  *)
(* it is anywhere on its way: in the queue of the notify backend, in the   *)
(* hands of the watcher thread, in the channel, or in the handler.         *)
(***************************************************************************)
EXTENDS FimDaemon

Followed == Files \ (DbFiles \cup Excluded)

ContentKinds ==
    {"create", "modify", "from", "to", "both", "remove",
     "Created", "Modified", "Deleted", "FileRenamed"}

(* Some event that P holds of is on its way. *)
OnItsWay(P(_)) ==
    \/ \E i \in DOMAIN raw : P(raw[i])
    \/ \E i \in DOMAIN outbox : P(outbox[i])
    \/ \E i \in DOMAIN chan : P(chan[i])
    \/ main.pc # "idle" /\ P(main.ev)

Concerns(e, f) == f \in {e.path, e.to} /\ e.kind \in ContentKinds
MovesTo(e, f) == f = e.to /\ e.kind \in {"both", "FileRenamed"}

Behind ==
    {f \in Followed :
        phase # "running" \/ f \in unwatched \/ OnItsWay(LAMBDA e : Concerns(e, f))}

Moved == {f \in Followed : OnItsWay(LAMBDA e : MovesTo(e, f))}

OnRecord ==
    {<<r.path, r.fact>> : r \in {s \in audit : s.path \in Followed /\
                                    s.action \in {"FILE_TAMPERING", "PACKAGE_UPDATE"}}}

B == INSTANCE Baseline WITH
        Tracked <- Followed,
        Content <- Hashes,
        Nothing <- Absent,
        disk <- [f \in Followed |-> disk[f]],
        rows <- [f \in Followed |-> db[f]],
        behind <- Behind,
        moved <- Moved,
        recorded <- OnRecord

(* Every behaviour of the daemon, the watcher thread and the file system   *)
(* is one of Baseline: rows are wrong only while an event is on its way or *)
(* nobody has watched, and are replaced only by recorded hashes.           *)
RefinesBaseline == B!Spec

(* What Baseline promises, of the daemon: the row of a file says what is on *)
(* disk unless an event about the file is on its way, although each row    *)
(* was written from a fingerprint read at some earlier moment.             *)
BaselineCurrent == B!Current
=============================================================================
