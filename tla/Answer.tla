------------------------------- MODULE Answer -------------------------------
(***************************************************************************)
(* What one send_command promises (its docstring: "Send a command and wait *)
(* for its answer to settle"): it follows the texts that appear after the  *)
(* command, takes none twice and none that is not there, and the last one  *)
(* it took, or none, is its answer for good once it has returned.          *)
(***************************************************************************)
CONSTANTS Text,     \* what the userbot may write
          Nothing   \* the answer of a silent userbot

VARIABLES posted,   \* texts that have appeared since the command was sent
          taken,    \* those the call has seen
          answer,   \* the newest of them
          over      \* the call has ended

vars == <<posted, taken, answer, over>>

Init == posted = {} /\ taken = {} /\ answer = Nothing /\ over = FALSE

Appear ==
    /\ ~over
    /\ \E text \in Text : posted' = posted \cup {text}
    /\ UNCHANGED <<taken, answer, over>>

Take ==
    \E text \in posted \ taken : answer' = text /\ taken' = taken \cup {text}

(* A poll may show a text and end the call in one step.                    *)
Follow ==
    /\ ~over
    /\ Take \/ UNCHANGED <<taken, answer>>
    /\ over' \in BOOLEAN
    /\ UNCHANGED posted

Next == Appear \/ Follow

Spec == Init /\ [][Next]_vars
=============================================================================
