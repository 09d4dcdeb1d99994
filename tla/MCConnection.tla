---------------------------- MODULE MCConnection ----------------------------
(* Instances of Connection for TLC.                                        *)
EXTENDS Connection

CONSTANTS t1, t2, c1, c2, c3, c4, c5

AllKinds    == {"command", "history", "warmup", "switch"}
Commands    == {"command"}
Histories   == {"history"}

OneTask      == {t1}
TwoTasks     == {t1, t2}
OneClient    == {c1}
TwoClients   == {c1, c2}
ThreeClients == {c1, c2, c3}
FourClients  == {c1, c2, c3, c4}
FiveClients  == {c1, c2, c3, c4, c5}
=============================================================================
