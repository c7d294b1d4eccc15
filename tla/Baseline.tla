------------------------------ MODULE Baseline ------------------------------
(***************************************************************************)
(* What file_fingerprints promises, whatever queues, threads and debounce  *)
(* windows lie between the disk and the table: a row is wrong only while   *)
(* its file is known to be behind, and no row is replaced by a hash that   *)
(* is not in the audit log, other than by a rename.                        *)
(***************************************************************************)
CONSTANTS
    Tracked, \* the files the table answers for
    Content, \* their hashes
    Nothing  \* no file, no row

VARIABLES
    disk,     \* file -> what is there
    rows,     \* file -> its row
    behind,   \* the files whose row may differ from the disk
    moved,    \* those of them a rename has put there
    recorded  \* the <<file, hash>> an audit record names as a change

vars == <<disk, rows, behind, moved, recorded>>

Values == Content \cup {Nothing}

Init ==
    /\ disk \in [Tracked -> Values]
    /\ rows \in [Tracked -> Values]
    /\ behind = Tracked
    /\ moved = {}
    /\ recorded = {}

(* Files leave behind only once their rows are right. *)
Settles ==
    /\ behind' \subseteq behind
    /\ \A f \in behind \ behind' : rows'[f] = disk'[f]
    /\ moved' \subseteq moved

(* Files are touched, and some of them are the targets of renames.         *)
Touch ==
    /\ UNCHANGED <<rows, recorded>>
    /\ disk' \in [Tracked -> Values]
    /\ behind \subseteq behind'
    /\ \A f \in Tracked : f \in behind' \/ disk'[f] = disk[f]
    /\ moved' \subseteq behind'

Record(f, h) ==
    /\ UNCHANGED <<disk, rows>>
    /\ recorded' = recorded \cup {<<f, h>>}
    /\ Settles

(* A row takes a hash: the first it has, one on record, or, after a rename, *)
(* the one that is there.                                                  *)
Adopt(f, h) ==
    /\ UNCHANGED <<disk, recorded>>
    /\ rows' = [rows EXCEPT ![f] = h]
    /\ f \in behind
    /\ \/ rows[f] = Nothing
       \/ <<f, h>> \in recorded
       \/ f \in moved /\ h = disk[f]
    /\ Settles

Forget(f) ==
    /\ UNCHANGED <<disk, recorded>>
    /\ rows' = [rows EXCEPT ![f] = Nothing]
    /\ f \in behind
    /\ Settles

CatchUp ==
    /\ UNCHANGED <<disk, rows, recorded>>
    /\ Settles

(* Nobody watches any more. *)
LoseSight ==
    /\ UNCHANGED <<disk, rows, recorded>>
    /\ behind' = Tracked
    /\ moved' = {}

Next ==
    \/ CatchUp \/ Touch \/ LoseSight
    \/ \E f \in Tracked, h \in Content : Record(f, h) \/ Adopt(f, h)
    \/ \E f \in Tracked : Forget(f)

Spec == Init /\ [][Next]_vars

-----------------------------------------------------------------------------
(* The promise: the row of a file that is not behind says what is on disk. *)
Current == \A f \in Tracked \ behind : rows[f] = disk[f]
=============================================================================
