---------------------------- MODULE MCModuleStore ---------------------------
(* Instances of ModuleStore for TLC.                                       *)
EXTENDS ModuleStore

CONSTANTS s1, s2, t1, t2, m, n, c, d

NoSession   == {}
TwoSessions == {s1, s2}
OneTask     == {t1}
TwoTasks    == {t1, t2}
TwoPorts    == {1, 2}
NoPort      == {}
Sources     == {c, d}

AllApp     == [t \in Task |-> App]
OneEach    == [t \in Task |-> IF t = t1 THEN s1 ELSE s2]
OwnName    == [t \in Task |-> IF t = t1 THEN m ELSE n]
SameName   == [t \in Task |-> m]
=============================================================================
