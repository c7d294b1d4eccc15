---------------------------- MODULE MCSentinelTick ----------------------------
(* Instances of SentinelTick for TLC. *)
EXTENDS SentinelTick

Nginx == [exe |-> "/usr/sbin/nginx", comm |-> "nginx", cmd |-> "nginx: worker"]
Shell == [exe |-> "/bin/sh", comm |-> "sh", cmd |-> "sh -i"]
Health == [exe |-> "/bin/sh", comm |-> "sh", cmd |-> "sh -c resty"]
ThreeImages == {Nginx, Shell, Health}
Services == {"nginx"}
Children == {[path |-> "/bin/sh", wild |-> FALSE], [path |-> "/usr/bin/python", wild |-> TRUE]}
Allowing == {"resty"}

MCBase(name) ==
    CASE name = "/usr/sbin/nginx" -> "nginx"
      [] name = "/bin/sh" -> "sh"
      [] name = "/usr/bin/python" -> "python"
      [] OTHER -> name
MCBegins(name, prefix) == <<name, prefix>> \in {<<"sh -i", "sh">>, <<"sh -c resty", "sh">>}
MCContains(name, part) == <<name, part>> = <<"sh -c resty", "resty">>

(* "sshd[1]: Failed password for ..." and "CRON[2]: ... session opened for  *)
(* user ...", cut anywhere after the first half; a line that is not UTF-8.  *)
SshFailure == [w \in {"sshd", "failed"} |-> 1]
CronSession == [w \in {"cron", "opened"} |-> IF w = "cron" THEN 1 ELSE 2]
Binary == [w \in {"binary"} |-> 2]
SomeTexts == {SshFailure, CronSession, Binary}

(* Enough for: a rotation with lines on both sides of it; a line in two    *)
(* halves around a restart; a fork, an exec, an exit and a second child on *)
(* the same pid; one of each beside a FimEvent.                            *)
Of(l, p, f, s) == [log |-> l, procs |-> p, fim |-> f, stop |-> s]
SomeBudgets ==
    {Of(5, 0, 0, 0), Of(3, 0, 0, 1), Of(0, 6, 0, 0), Of(0, 3, 0, 1), Of(1, 2, 1, 0)}
=============================================================================
