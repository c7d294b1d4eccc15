---------------------------- MODULE SessionCache ----------------------------
(***************************************************************************)
(* IpSessionCache and get_active_logged_in_ips                             *)
(* (src/src/analyzer/process_context.rs): who is logged in, asked of /proc *)
(* at most once per time to live.                                          *)
(*                                                                         *)
(* The answer has three sources, each read only when the ones before it    *)
(* showed nobody: the environment of every process, /proc/net/tcp and      *)
(* /proc/net/tcp6.  They are read one after the other while users come     *)
(* and go.  HISTORY variables keep since when each source has shown what   *)
(* it shows, and when each name was last shown.                            *)
(*                                                                         *)
(* Data abstractions: an origin is a name; the context string is the set   *)
(* of names it joins, empty for "local console / service".                 *)
(***************************************************************************)
EXTENDS Naturals, FiniteSets

CONSTANTS
    NumProcs,    \* BOUND: processes that may hold an SSH_CLIENT
    Origins,     \* what SSH_CLIENT may name
    Connections, \* [table: {4, 6}, peer, port: local port, state]
    Ttl,         \* ttl
    MaxTime      \* BOUND: the clock

ASSUME SessionAssumption ==
    /\ NumProcs \in Nat
    /\ Ttl \in Nat \ {0}
    /\ MaxTime \in Nat
    /\ \A c \in Connections :
          DOMAIN c = {"table", "peer", "port", "state"} /\ c.table \in {4, 6}

Procs == 1 .. NumProcs
Nobody == "nobody"
Names == Origins \cup {c.peer : c \in Connections}

VARIABLES
    now,       \* Instant::now()
    environ,   \* process -> the origin its SSH_CLIENT names, or Nobody
    open,      \* the TCP connections there are
    sessions,  \* sessions
    refreshed, \* last_refresh, {} before the first
    inspect,   \* the reading of /proc in progress
    context,   \* ip_origin_str, of the tick that runs
    asked,     \* HISTORY: the time at which that tick asked for it
    held,      \* HISTORY: process -> since when it has named whom it names
    opened,    \* HISTORY: connection -> since when it is open, or not
    shown      \* HISTORY: name -> when a source last showed it, {} for never

sourceVars == <<environ, open, held, opened>>
cacheVars == <<sessions, refreshed, inspect, context, asked>>
sessionVars == <<now, sourceVars, shown, cacheVars>>

(* Where the reading has got to, and the names it has found.               *)
Idle == [at |-> "idle", proc |-> 1, found |-> {}]

-----------------------------------------------------------------------------
(* Sessions come and go *)

(* parse_hex_ipv4 and parse_hex_ipv6, of the lines in state 01.            *)
IsSshSession(c) == c.state = "01" /\ c.port \in {22, 2222}

NamesIn(env, conns) ==
    ({env[p] : p \in Procs} \ {Nobody})
        \cup {c.peer : c \in {d \in conns : IsSshSession(d)}}

SessionInit ==
    /\ now = 0
    /\ environ = [p \in Procs |-> Nobody]
    /\ open = {}
    /\ sessions = {} /\ refreshed = {} /\ inspect = Idle
    /\ context = {} /\ asked = 0
    /\ held = [p \in Procs |-> 0] /\ opened = [c \in Connections |-> 0]
    /\ shown = [n \in Names |-> {}]

Note(names) == shown' = [n \in Names |-> IF n \in names THEN {now} ELSE shown[n]]

(* A process starts with, or ends with, an SSH_CLIENT in its environment.  *)
SetEnviron(p, who) ==
    /\ environ[p] # who
    /\ environ' = [environ EXCEPT ![p] = who]
    /\ held' = [held EXCEPT ![p] = now]
    /\ Note(NamesIn(environ, open) \cup NamesIn(environ', open))
    /\ UNCHANGED <<now, open, opened>>

Connect(c) ==
    /\ c \notin open
    /\ open' = open \cup {c}
    /\ opened' = [opened EXCEPT ![c] = now]
    /\ Note(NamesIn(environ, open'))
    /\ UNCHANGED <<now, environ, held>>

Disconnect(c) ==
    /\ c \in open
    /\ open' = open \ {c}
    /\ opened' = [opened EXCEPT ![c] = now]
    /\ Note(NamesIn(environ, open))
    /\ UNCHANGED <<now, environ, held>>

SessionsChange ==
    \/ \E p \in Procs, who \in Origins \cup {Nobody} : SetEnviron(p, who)
    \/ \E c \in Connections : Connect(c) \/ Disconnect(c)

Elapse ==
    /\ now < MaxTime
    /\ now' = now + 1
    /\ shown' = [n \in Names |->
                    IF n \in NamesIn(environ, open) THEN {now'} ELSE shown[n]]
    /\ UNCHANGED sourceVars

-----------------------------------------------------------------------------
(* get_ip_context_string *)

Stale == refreshed = {} \/ \E t \in refreshed : now - t >= Ttl

(* Mutant: every call counts as a refresh. *)
AskCachedTouch ==
    /\ inspect.at = "idle"
    /\ ~Stale
    /\ context' = sessions
    /\ asked' = now
    /\ refreshed' = {now}
    /\ UNCHANGED <<sessions, inspect>>

AskCached ==
    /\ inspect.at = "idle"
    /\ ~Stale
    /\ context' = sessions
    /\ asked' = now
    /\ UNCHANGED <<sessions, refreshed, inspect>>

(* `now` is taken before the sources are read.                             *)
AskStale ==
    /\ inspect.at = "idle"
    /\ Stale
    /\ asked' = now
    /\ inspect' = [Idle EXCEPT !.at = "environ"]
    /\ UNCHANGED <<sessions, refreshed, context>>

(* Mutant: an SSH_CLIENT that names nobody is a session. *)
ReadEnvironAny ==
    /\ inspect.at = "environ"
    /\ inspect.proc \in Procs
    /\ inspect' = [inspect EXCEPT !.proc = @ + 1, !.found = @ \cup {environ[inspect.proc]}]
    /\ UNCHANGED <<sessions, refreshed, context, asked>>

(* One process of the loop over /proc. *)
ReadEnviron ==
    /\ inspect.at = "environ"
    /\ inspect.proc \in Procs
    /\ inspect' = [inspect EXCEPT
                     !.proc = @ + 1,
                     !.found = @ \cup ({environ[inspect.proc]} \ {Nobody})]
    /\ UNCHANGED <<sessions, refreshed, context, asked>>

EnvironRead ==
    /\ inspect.at = "environ"
    /\ inspect.proc \notin Procs
    /\ inspect' = [inspect EXCEPT !.at = IF inspect.found = {} THEN "tcp" ELSE "found"]
    /\ UNCHANGED <<sessions, refreshed, context, asked>>

Peers(table) == {c.peer : c \in {d \in open : d.table = table /\ IsSshSession(d)}}

(* Mutant: the IPv6 connections are not looked at. *)
ReadTcpOnly ==
    /\ inspect.at = "tcp"
    /\ inspect' = [inspect EXCEPT !.at = "found", !.found = Peers(4)]
    /\ UNCHANGED <<sessions, refreshed, context, asked>>

ReadTcp ==
    /\ inspect.at = "tcp"
    /\ inspect' = [inspect EXCEPT !.at = IF Peers(4) = {} THEN "tcp6" ELSE "found",
                                  !.found = Peers(4)]
    /\ UNCHANGED <<sessions, refreshed, context, asked>>

ReadTcp6 ==
    /\ inspect.at = "tcp6"
    /\ inspect' = [inspect EXCEPT !.at = "found", !.found = Peers(6)]
    /\ UNCHANGED <<sessions, refreshed, context, asked>>

(* The cache takes the answer with the time of the question.               *)
Refresh ==
    /\ inspect.at = "found"
    /\ sessions' = inspect.found
    /\ context' = inspect.found
    /\ refreshed' = {asked}
    /\ inspect' = Idle
    /\ UNCHANGED asked

-----------------------------------------------------------------------------
SessionTypeOK ==
    /\ now \in 0 .. MaxTime
    /\ environ \in [Procs -> Origins \cup {Nobody}]
    /\ open \subseteq Connections
    /\ sessions \subseteq Names /\ context \subseteq Names
    /\ refreshed \subseteq 0 .. MaxTime /\ Cardinality(refreshed) <= 1
    /\ inspect \in [at : {"idle", "environ", "tcp", "tcp6", "found"},
                    proc : 1 .. NumProcs + 1, found : SUBSET Names]
    /\ asked \in 0 .. MaxTime
    /\ held \in [Procs -> 0 .. MaxTime] /\ opened \in [Connections -> 0 .. MaxTime]
    /\ \A n \in Names : shown[n] \subseteq 0 .. MaxTime
=============================================================================
