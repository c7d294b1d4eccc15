-------------------------- MODULE MCAnalyzerContext --------------------------
(* Instances of AnalyzerContext for TLC. *)
EXTENDS AnalyzerContext

Ssh4 == [table |-> 4, peer |-> "10.0.0.8:5000", port |-> 22, state |-> "01"]
Ssh6 == [table |-> 6, peer |-> "[2804::1]:5000", port |-> 2222, state |-> "01"]
Closing == [table |-> 4, peer |-> "10.0.0.9:5000", port |-> 22, state |-> "06"]
SomeConnections == {Ssh4, Ssh6, Closing}

(* rpm, with fcntl and a known name; a front end with fcntl and none; one  *)
(* that only makes its lock file; a front end with flock.                  *)
SomeStyles == <<"posix", "posix", "exist", "flock">>
SomeUses == <<{1, 2}, {1}, {3}, {2}>>
SomeInstallers == {1}

Of(s, m, t, e) == [sessions |-> s, managers |-> m, time |-> t, events |-> e]
SomeBudgets == {Of(3, 0, 4, 0), Of(0, 5, 0, 2), Of(2, 2, 2, 1)}
=============================================================================
