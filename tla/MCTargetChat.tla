---------------------------- MODULE MCTargetChat ----------------------------
(* Instances of TargetChat for TLC.                                        *)
EXTENDS TargetChat

CONSTANTS t1, t2

OneTask  == {t1}
TwoTasks == {t1, t2}
(* A private supergroup, a public group and a marked id.                   *)
OneChat  == {ById("3537976236")}
TwoChats == {ById("3537976236"), ByName(<<"somegroup">>)}
AllKinds == TwoChats \cup {ById("-1001234567890")}
Topics   == {0, 7}
Numbers  == [n \in {"3537976236", "7"} |-> IF n = "7" THEN 7 ELSE 1]
=============================================================================
