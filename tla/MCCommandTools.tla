--------------------------- MODULE MCCommandTools ---------------------------
(* Instances of CommandTools for TLC.                                      *)
EXTENDS CommandTools

CONSTANTS t1, t2

OneTask  == {t1}
TwoTasks == {t1, t2}

ByEdit   == {<<".restart -f">>}
Restarts == [t \in Task |-> {"restart"}]
Mixed    == [t \in Task |-> IF t = t1 THEN {"restart"} ELSE {"evaluate", "list"}]
=============================================================================
