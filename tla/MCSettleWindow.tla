--------------------------- MODULE MCSettleWindow ---------------------------
(* Instances of SettleWindow for TLC: the userbot's two ways to answer.    *)
EXTENDS SettleWindow

(* The userbot echoes the command; then .dlm edits the command twice:      *)
(* "installing...", then the result.                                       *)
Edited == << [how |-> "post", text |-> "command"],
             [how |-> "edit", text |-> "installing"],
             [how |-> "edit", text |-> "loaded"] >>

(* An inline-bot answer: the command becomes an ack, the answer is new.    *)
Rich == << [how |-> "edit", text |-> "ack"],
           [how |-> "post", text |-> "answer"] >>

(* A long answer in two messages.                                          *)
Long == << [how |-> "post", text |-> "part1"],
           [how |-> "post", text |-> "part2"] >>

WithContent == {"installing", "loaded", "answer", "part1", "part2"}
=============================================================================
