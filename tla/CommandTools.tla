---------------------------- MODULE CommandTools ----------------------------
(***************************************************************************)
(* The MCP tools that talk to the userbot (server.py: send_command_tool,   *)
(* evaluate, unload_module, list_modules, restart_userbot), several at a   *)
(* time, in one chat.                                                      *)
(*                                                                         *)
(* What one send_command takes for its answer is SettleWindow's subject;   *)
(* here it is what Answer, the abstract of SettleWindow, allows: any text  *)
(* that is new in the chat since the command was sent.                     *)
(***************************************************************************)
EXTENDS Naturals

CONSTANTS Task,       \* tool calls that may be in flight at once
          Job,        \* the tools each calls
          Tries,      \* attempts of the verification in restart_userbot
          MaxCalls,   \* bound on the calls
          MaxAnswers, \* bound on what the userbot posts and edits
          MaxBoots,   \* bound on its restarts
          Edited,     \* the commands the userbot answers by editing them
          Nothing     \* the text ""

ASSUME ToolsAssumption ==
    /\ Job \in [Task -> SUBSET {"evaluate", "list", "restart"}]
    /\ Tries \in Nat \ {0}
    /\ MaxCalls \in Nat /\ MaxAnswers \in Nat /\ MaxBoots \in Nat

VARIABLES ids,        \* the id of the newest command in the chat
          up, boot,   \* the userbot runs; how often it has been started again
          todo,       \* commands it has seen and may still answer
          answers,    \* messages and edits of the userbot so far
          pc, job,    \* of each call: its await, and the tool
          sent,       \* the id of its command (sent_id)
          news,       \* the texts in the chat its window counts and has not taken
          last,       \* its last_text
          tries,      \* attempts of its verification so far
          since,      \* boot when it sent .restart (history)
          owed,       \* commands were unanswered when it sent its own (history)
          crossed,    \* others sent a command while it waited (history)
          calls       \* calls so far

userbot == <<up, boot, todo, answers>>
ghosts  == <<since, owed, crossed>>
vars    == <<ids, userbot, pc, job, sent, news, last, tries, ghosts, calls>>

(* Who wrote a text, which command it is or answers, when, and how.        *)
Text == [by : {"server", "userbot"}, of : Nat, boot : Nat, edit : BOOLEAN]

Init ==
    /\ ids = 0
    /\ up = TRUE /\ boot = 0 /\ todo = {} /\ answers = 0
    /\ pc = [t \in Task |-> "idle"] /\ job = [t \in Task |-> "none"]
    /\ sent = [t \in Task |-> 0]
    /\ news = [t \in Task |-> {}] /\ last = [t \in Task |-> Nothing]
    /\ tries = [t \in Task |-> 0] /\ since = [t \in Task |-> 0]
    /\ owed = [t \in Task |-> FALSE] /\ crossed = [t \in Task |-> FALSE]
    /\ calls = 0

Goto(t, where) == pc' = [pc EXCEPT ![t] = where]

(* Only .e (and .ulm, and raw commands) has an argument.                   *)
CommandOf(t, j, n) ==
    IF j = "restart" /\ n = 0       THEN <<".restart -f">>
    ELSE IF j \in {"restart", "list"} THEN <<".help">>
    ELSE                                  <<".e", t>>

(* Mutant: messages from before the send count.                            *)
InScope_Stale(window, id, words) == words # window.command

(* _in_scope and _accept: every message of the account in the chat counts, *)
(* but for what has an older id and for the text of the command itself.    *)
InScope(window, id, words) == id >= window.sent /\ words # window.command

Windows ==
    [t \in {s \in Task : pc[s] = "waiting"} |->
        [sent |-> sent[t], command |-> CommandOf(t, job[t], tries[t])]]

(* A message is posted or edited.  The polls show it to whom the events    *)
(* do not.                                                                 *)
Show(windows, id, words, text) ==
    news' = [t \in Task |->
               IF t \in DOMAIN windows /\ InScope(windows[t], id, words)
               THEN news[t] \cup {text} ELSE news[t]]

-----------------------------------------------------------------------------
(* send_command begins: the command is in the chat.                        *)
Post(t, command) ==
    LET id == ids + 1
    IN  /\ ids' = id
        /\ todo' = todo \cup {[id |-> id, command |-> command]}
        /\ sent' = [sent EXCEPT ![t] = id]
        /\ last' = [last EXCEPT ![t] = Nothing]
        /\ owed' = [owed EXCEPT ![t] = todo # {}]
        /\ crossed' = [s \in Task |-> s # t /\ (crossed[s] \/ pc[s] = "waiting")]
        /\ Goto(t, "waiting")
        /\ Show([s \in {t} \cup DOMAIN Windows |->
                   IF s = t THEN [sent |-> id, command |-> command] ELSE Windows[s]],
                id, command,
                [by |-> "server", of |-> id, boot |-> 0, edit |-> FALSE])
        /\ UNCHANGED <<up, boot, answers>>

(* A call that raises before, or is blocked, leaves no trace.              *)
StartTool(t, j) ==
    /\ pc[t] = "idle" /\ calls < MaxCalls
    /\ calls' = calls + 1
    /\ job' = [job EXCEPT ![t] = j] /\ UNCHANGED tries
    /\ since' = [since EXCEPT ![t] = IF j = "restart" THEN boot ELSE 0]
    /\ Post(t, CommandOf(t, j, 0))

(* An event or a poll shows a text; seen_texts refuses it a second time.   *)
Take(t) ==
    /\ pc[t] = "waiting"
    /\ \E text \in news[t] :
         /\ last' = [last EXCEPT ![t] = text]
         /\ news' = [news EXCEPT ![t] = @ \ {text}]
    /\ UNCHANGED <<ids, userbot, pc, job, sent, tries, ghosts, calls>>

(* Where restart_userbot goes from a send_command that returned.           *)
AfterRestart(t) ==
    IF last[t] = Nothing THEN {"told"} ELSE {"told", "booting"}  \* the argument verify

(* Mutant: silence passes for an answer.                                   *)
AfterHelp_Silent(t) == {"back"}

AfterHelp(t) == IF last[t] = Nothing THEN {"pausing"} ELSE {"back"}

(* Mutant: a command that hangs is waited for.                             *)
Finish_OnAnswer(t) ==
    /\ pc[t] = "waiting" /\ last[t] # Nothing
    /\ \E where \in IF job[t] # "restart" THEN {"told"}
                    ELSE IF tries[t] = 0 THEN AfterRestart(t) ELSE AfterHelp(t) :
         Goto(t, where)
    /\ news' = [news EXCEPT ![t] = {}]
    /\ UNCHANGED <<ids, userbot, job, sent, last, tries, ghosts, calls>>

(* send_command returns, settled or at its deadline.  The other tools pass *)
(* the text on.                                                            *)
Finish(t) ==
    /\ pc[t] = "waiting"
    /\ \E where \in IF job[t] # "restart" THEN {"told"}
                    ELSE IF tries[t] = 0 THEN AfterRestart(t) ELSE AfterHelp(t) :
         Goto(t, where)
    /\ news' = [news EXCEPT ![t] = {}]
    /\ UNCHANGED <<ids, userbot, job, sent, last, tries, ghosts, calls>>

(* Mutant: one attempt too many.                                           *)
Verify_TooMany(t) ==
    /\ pc[t] \in {"booting", "pausing"} /\ tries[t] <= Tries
    /\ tries' = [tries EXCEPT ![t] = @ + 1]
    /\ Post(t, <<".help">>)
    /\ UNCHANGED <<job, since, calls>>

(* It has slept, for the boot or between two attempts: the next .help.     *)
Verify(t) ==
    /\ pc[t] \in {"booting", "pausing"} /\ tries[t] < Tries
    /\ tries' = [tries EXCEPT ![t] = @ + 1]
    /\ Post(t, <<".help">>)
    /\ UNCHANGED <<job, since, calls>>

Forget(t) ==
    /\ Goto(t, "idle")
    /\ job' = [job EXCEPT ![t] = "none"] /\ tries' = [tries EXCEPT ![t] = 0]
    /\ sent' = [sent EXCEPT ![t] = 0] /\ last' = [last EXCEPT ![t] = Nothing]
    /\ news' = [news EXCEPT ![t] = {}]
    /\ since' = [since EXCEPT ![t] = 0]
    /\ owed' = [owed EXCEPT ![t] = FALSE] /\ crossed' = [crossed EXCEPT ![t] = FALSE]
    /\ UNCHANGED <<ids, userbot, calls>>

(* The result leaves the tool; restart_userbot gives up ("check manually");*)
(* an error leaves the tool, or the MCP client cancels it.                 *)
Return(t) == pc[t] \in {"told", "back"} /\ Forget(t)

GiveUp(t) == pc[t] = "pausing" /\ tries[t] = Tries /\ Forget(t)

Cancel(t) == pc[t] \in {"waiting", "booting", "pausing"} /\ Forget(t)

-----------------------------------------------------------------------------
(* The userbot answers with a message or an edit of the command, once or   *)
(* in stages, in any order, also after a restart, or never.                *)
UserbotAnswers ==
    /\ up /\ answers < MaxAnswers
    /\ answers' = answers + 1
    /\ \E c \in todo :
         LET edit == c.command \in Edited
         IN  /\ todo' \in {todo, todo \ {c}}
             /\ Show(Windows, IF edit THEN c.id ELSE ids + 1, <<"answer">>,
                     [by |-> "userbot", of |-> c.id, boot |-> boot, edit |-> edit])
    /\ UNCHANGED <<ids, up, boot, pc, job, sent, last, tries, ghosts, calls>>

UserbotStops ==
    /\ up /\ up' = FALSE
    /\ UNCHANGED <<ids, boot, todo, answers, pc, job, sent, news, last, tries, ghosts, calls>>

UserbotBoots ==
    /\ ~up /\ boot < MaxBoots
    /\ up' = TRUE /\ boot' = boot + 1
    /\ UNCHANGED <<ids, todo, answers, pc, job, sent, news, last, tries, ghosts, calls>>

Step(t) == Finish(t) \/ Verify(t) \/ GiveUp(t) \/ Return(t)

Next ==
    \/ \E t \in Task :
        \/ Step(t) \/ Take(t) \/ Cancel(t)
        \/ \E j \in Job[t] : StartTool(t, j)
    \/ UserbotAnswers \/ UserbotStops \/ UserbotBoots

Spec == Init /\ [][Next]_vars

(* asyncio runs what is ready, and send_command has a deadline.            *)
FairSpec == Spec /\ \A t \in Task : WF_vars(Step(t))

-----------------------------------------------------------------------------
TypeOK ==
    /\ ids \in Nat /\ \A c \in todo : c.id \in 1 .. ids
    /\ up \in BOOLEAN /\ boot \in 0 .. MaxBoots /\ answers \in 0 .. MaxAnswers
    /\ pc \in [Task -> {"idle", "waiting", "booting", "pausing", "told", "back"}]
    /\ \A t \in Task : job[t] \in Job[t] \cup {"none"}
    /\ sent \in [Task -> 0 .. ids]
    /\ news \in [Task -> SUBSET Text] /\ last \in [Task -> Text \cup {Nothing}]
    /\ tries \in [Task -> 0 .. Tries] /\ since \in [Task -> 0 .. MaxBoots]
    /\ owed \in [Task -> BOOLEAN] /\ crossed \in [Task -> BOOLEAN]
    /\ calls \in 0 .. MaxCalls

(* While nobody else sends a command, a tool returns what the userbot has  *)
(* answered to its own: an edit always is, a new message if no other       *)
(* command was still waiting for an answer (_in_scope: "stale message, or  *)
(* one from before the send").                                             *)
AnswersOwn ==
    \A t \in Task : last[t] # Nothing /\ ~crossed[t] /\ (last[t].edit \/ ~owed[t])
                       => last[t].by = "userbot" /\ last[t].of = sent[t]

(* ... whatever others do.                                                 *)
AnswersOwnAlways ==
    \A t \in Task : last[t] # Nothing => last[t].of = sent[t]

(* restart_userbot says "userbot is back" only if a userbot has answered   *)
(* the .help of that attempt or what came before it, unless another call   *)
(* has sent a command meanwhile.                                           *)
BackMeansAlive ==
    \A t \in Task : pc[t] = "back" /\ ~crossed[t]
                       => last[t] # Nothing /\ last[t].by = "userbot"

(* ... whatever others do.                                                 *)
BackMeansAliveAlways ==
    \A t \in Task : pc[t] = "back" => last[t] # Nothing /\ last[t].by = "userbot"

(* It says so of a userbot that was started since .restart was sent.       *)
BackMeansRestarted ==
    \A t \in Task : pc[t] = "back" /\ last[t].by = "userbot" => last[t].boot > since[t]

(* Every tool returns, however silent the userbot is.                      *)
EveryToolReturns == \A t \in Task : pc[t] # "idle" ~> pc[t] = "idle"
=============================================================================
