-------------------------- MODULE ExclusiveSession --------------------------
(***************************************************************************)
(* What the session lock promises: the Telegram session file has one owner *)
(* process at a time, and only the owner has a connection open on it.  The *)
(* server gives the file up when it has nothing open on it, or by dying.   *)
(***************************************************************************)
VARIABLES owner,  \* the process that may write the session file
          open    \* the server has a connection open

vars == <<owner, open>>

TypeOK == owner \in {"free", "server", "other"} /\ open \in BOOLEAN

Init == owner = "free" /\ open = FALSE

ServerTakes == owner = "free" /\ owner' = "server" /\ UNCHANGED open

ServerGives == owner = "server" /\ ~open /\ owner' = "free" /\ UNCHANGED open

ServerOpens == owner = "server" /\ ~open /\ open' = TRUE /\ UNCHANGED owner

ServerCloses == open /\ open' = FALSE /\ UNCHANGED owner

ServerDies == owner = "server" /\ owner' = "free" /\ open' = FALSE

OtherTakes == owner = "free" /\ owner' = "other" /\ UNCHANGED open

OtherGives == owner = "other" /\ owner' = "free" /\ UNCHANGED open

Next == \/ ServerTakes \/ ServerGives \/ ServerOpens \/ ServerCloses \/ ServerDies
        \/ OtherTakes \/ OtherGives

Spec == Init /\ [][Next]_vars

(* An open connection is always under the lock.                            *)
Exclusive == open => owner = "server"
=============================================================================
