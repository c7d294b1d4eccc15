---------------------------- MODULE LoginMonitor ----------------------------
(***************************************************************************)
(* PamWatcher (src/src/auth/pam_watcher.rs) and the log it follows.        *)
(*                                                                         *)
(* The monitor remembers a position and nothing else: each poll opens      *)
(* whatever stands at log_path, goes to that position, reads lines to the  *)
(* end of the file and stores where it got to.  Meanwhile the logger       *)
(* appends, sometimes half a line at a time, and logrotate renames the     *)
(* file and makes a new one, which the logger moves to a little later.     *)
(*                                                                         *)
(* Data abstractions: a line is two cells, its halves; what it says is     *)
(* where the words parse_auth_line looks for stand in it.  The position    *)
(* counts cells.  User, origin and raw text of an event are left out.      *)
(***************************************************************************)
EXTENDS Naturals, Sequences, FiniteSets

CONSTANTS
    Texts,     \* what a line may say: word -> 1, 2 (its half), 0 (across both)
    MaxLines,  \* BOUND: lines the logger writes
    MaxFiles   \* BOUND: files that stand at log_path, one after the other

(* "opened" is "session opened for user", "failed" either failure phrase;  *)
(* "binary" stands for bytes that are not UTF-8.                           *)
Words == {"accepted", "opened", "failed", "sshd", "systemd-user", "cron", "binary"}

ASSUME TextsAssumption ==
    \A t \in Texts : DOMAIN t \subseteq Words /\ \A w \in DOMAIN t : t[w] \in 0 .. 2

ASSUME LogBoundsAssumption ==
    /\ MaxLines \in Nat
    /\ MaxFiles \in Nat \ {0}

Lines == 1 .. MaxLines
Inodes == 1 .. MaxFiles
NoFile == 0
Cell == [line : Lines, half : {1, 2}]

VARIABLES
    lines,    \* the texts of the lines begun so far
    files,    \* inode -> the cells it holds
    path,     \* the inode at log_path, NoFile during a rotation
    dest,     \* the inode the logger has open
    pos,      \* last_pos
    poll,     \* the poll in progress
    since,    \* HISTORY: lines begun when the monitor was made
    whole,    \* HISTORY: lines written in one go
    posOf,    \* HISTORY: the inode pos was read from
    outgrown  \* HISTORY: a poll took a new file for the old one grown longer

logVars == <<lines, files, path, dest, whole>>
monitorVars == <<pos, poll, since, posOf, outgrown>>
loginVars == <<logVars, monitorVars>>

(* A poll: the file it opened, how far it has read it, the part of that    *)
(* read_line has not consumed, and the events found.                       *)
NoPoll == [file |-> NoFile, off |-> 0, buf |-> <<>>, events |-> <<>>]

-----------------------------------------------------------------------------
(* The logger and logrotate *)

Open(inode) == IF inode = NoFile THEN <<>> ELSE files[inode]

MidLine == files[dest] # <<>> /\ files[dest][Len(files[dest])].half = 1

LogInit ==
    /\ lines = <<>>
    /\ files = [i \in Inodes |-> <<>>]
    /\ path = 1
    /\ dest = 1
    /\ whole = {}

AppendCells(halves) ==
    files' = [files EXCEPT ![dest] =
                @ \o [k \in DOMAIN halves |-> [line |-> Len(lines'), half |-> halves[k]]]]

WriteLine(t) ==
    /\ ~MidLine
    /\ Len(lines) < MaxLines
    /\ lines' = Append(lines, t)
    /\ whole' = whole \cup {Len(lines')}
    /\ AppendCells(<<1, 2>>)
    /\ UNCHANGED <<path, dest>>

WriteHalf(t) ==
    /\ ~MidLine
    /\ Len(lines) < MaxLines
    /\ lines' = Append(lines, t)
    /\ AppendCells(<<1>>)
    /\ UNCHANGED <<path, dest, whole>>

WriteRest ==
    /\ MidLine
    /\ UNCHANGED lines
    /\ AppendCells(<<2>>)
    /\ UNCHANGED <<path, dest, whole>>

(* logrotate: the rename, the new file, and the logger told to reopen.     *)
RenameLog ==
    /\ path = dest
    /\ path < MaxFiles
    /\ path' = NoFile
    /\ UNCHANGED <<lines, files, dest, whole>>
CreateLog ==
    /\ path = NoFile
    /\ path' = dest + 1
    /\ UNCHANGED <<lines, files, dest, whole>>
ReopenLog ==
    /\ path \notin {NoFile, dest}
    /\ ~MidLine
    /\ dest' = path
    /\ UNCHANGED <<lines, files, path, whole>>

LoggerNext ==
    \/ \E t \in Texts : WriteLine(t) \/ WriteHalf(t)
    \/ WriteRest
    \/ RenameLog \/ CreateLog \/ ReopenLog

-----------------------------------------------------------------------------
(* parse_auth_line *)

(* The words to be found in the cells of one line that were read together. *)
Visible(t, halves) ==
    {w \in DOMAIN t : t[w] \in halves \/ (t[w] = 0 /\ halves = {1, 2})}

Noise(ws) == "systemd-user" \in ws \/ {"sshd", "opened"} \subseteq ws
Matched(ws) == ~Noise(ws) /\ ws \cap {"accepted", "opened", "failed"} # {}
IsSuccess(ws) == "failed" \notin ws
IsCron(ws) == "cron" \in ws /\ "sshd" \notin ws
Undecodable(ws) == "binary" \in ws

Saying(line, ws) == [line |-> line, success |-> IsSuccess(ws), cron |-> IsCron(ws)]

-----------------------------------------------------------------------------
(* PamWatcher::new and poll_new_events *)

Polling == poll.file # NoFile

(* new: what is in the file already is not looked at.                      *)
NewMonitor ==
    /\ pos' = Len(Open(path))
    /\ poll' = NoPoll
    /\ since' = Len(lines)
    /\ posOf' = path
    /\ outgrown' = FALSE

(* Mutant: a file that has shrunk is not noticed. *)
PollOpenBlind ==
    /\ ~Polling
    /\ path # NoFile
    /\ poll' = [NoPoll EXCEPT !.file = path, !.off = pos]
    /\ outgrown' = (outgrown \/ (pos \in 1 .. Len(files[path]) /\ posOf # path))
    /\ posOf' = path
    /\ UNCHANGED <<pos, since>>

(* Open, take the length, start over if it shrank, seek.                   *)
PollOpen ==
    /\ ~Polling
    /\ path # NoFile
    /\ LET rotated == Len(files[path]) < pos
           start == IF rotated THEN 0 ELSE pos
       IN  /\ pos' = start
           /\ poll' = [NoPoll EXCEPT !.file = path, !.off = start]
           /\ outgrown' = (outgrown \/ (start > 0 /\ posOf # path))
           /\ posOf' = path
    /\ UNCHANGED since

Ends(buf) == {k \in DOMAIN buf : buf[k].half = 2}
LineEnd(buf) == CHOOSE k \in Ends(buf) : \A j \in Ends(buf) : k <= j

(* Mutant: the length of the file is added to the position. *)
PollFillAdds ==
    /\ Polling
    /\ Ends(poll.buf) = {}
    /\ poll.off < Len(files[poll.file])
    /\ poll' = [poll EXCEPT
                  !.buf = @ \o SubSeq(files[poll.file], poll.off + 1, Len(files[poll.file])),
                  !.off = @ + Len(files[poll.file])]
    /\ UNCHANGED <<pos, since, posOf, outgrown>>

(* BufReader asks for more when what it holds ends within a line.          *)
PollFill ==
    /\ Polling
    /\ Ends(poll.buf) = {}
    /\ poll.off < Len(files[poll.file])
    /\ poll' = [poll EXCEPT
                  !.buf = @ \o SubSeq(files[poll.file], poll.off + 1, Len(files[poll.file])),
                  !.off = Len(files[poll.file])]
    /\ UNCHANGED <<pos, since, posOf, outgrown>>

Exhausted == Ends(poll.buf) = {} /\ poll.off >= Len(files[poll.file])

(* The cells read_line returns: up to the end of the line, or what there   *)
(* is of it at the end of the file.                                        *)
Taken == IF Ends(poll.buf) # {} THEN LineEnd(poll.buf) ELSE Len(poll.buf)
CanTake == Polling /\ poll.buf # <<>> /\ (Ends(poll.buf) # {} \/ Exhausted)
TakenWords ==
    Visible(lines[poll.buf[1].line], {poll.buf[k].half : k \in 1 .. Taken})

PollLine ==
    /\ CanTake
    /\ ~Undecodable(TakenWords)
    /\ poll' = [poll EXCEPT
                  !.buf = SubSeq(@, Taken + 1, Len(@)),
                  !.events = IF Matched(TakenWords)
                             THEN Append(@, Saying(poll.buf[1].line, TakenWords))
                             ELSE @]
    /\ UNCHANGED <<pos, since, posOf, outgrown>>

(* Mutant: the position is stored although the poll failed. *)
PollFailsAdvances ==
    /\ CanTake
    /\ Undecodable(TakenWords)
    /\ poll' = NoPoll
    /\ pos' = poll.off
    /\ UNCHANGED <<since, posOf, outgrown>>

(* read_line's error ends the poll: its events are dropped, and the next   *)
(* poll starts where this one did.                                         *)
PollFails ==
    /\ CanTake
    /\ Undecodable(TakenWords)
    /\ poll' = NoPoll
    /\ UNCHANGED <<pos, since, posOf, outgrown>>

(* Mutant: the position goes back to the start of an unfinished line. *)
PollEndsAtLine ==
    /\ Polling
    /\ poll.buf = <<>> /\ Exhausted
    /\ pos' = 2 * Cardinality({k \in DOMAIN files[poll.file] : files[poll.file][k].half = 2})
    /\ poll' = [NoPoll EXCEPT !.events = poll.events]
    /\ UNCHANGED <<since, posOf, outgrown>>

(* The end of the file: the position is stored, the events are returned.   *)
PollEnds ==
    /\ Polling
    /\ poll.buf = <<>> /\ Exhausted
    /\ pos' = poll.off
    /\ poll' = [NoPoll EXCEPT !.events = poll.events]
    /\ UNCHANGED <<since, posOf, outgrown>>

-----------------------------------------------------------------------------
LoginTypeOK ==
    /\ lines \in Seq(Texts) /\ Len(lines) <= MaxLines
    /\ files \in [Inodes -> Seq(Cell)]
    /\ path \in Inodes \cup {NoFile}
    /\ dest \in Inodes
    /\ whole \subseteq Lines
    /\ pos \in 0 .. 2 * MaxLines
    /\ poll.file \in Inodes \cup {NoFile}
    /\ poll.off \in 0 .. 2 * MaxLines
    /\ poll.buf \in Seq(Cell)
    /\ since \in 0 .. MaxLines
    /\ posOf \in Inodes \cup {NoFile}
    /\ outgrown \in BOOLEAN
=============================================================================
