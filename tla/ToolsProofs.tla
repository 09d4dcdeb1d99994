----------------------------- MODULE ToolsProofs ----------------------------
(***************************************************************************)
(* Theorems about CommandTools, for any number of calls, tools, attempts   *)
(* and answers, and for a userbot that stops, boots and answers as it      *)
(* likes.                                                                  *)
(***************************************************************************)
EXTENDS CommandTools, TLAPS

(* Every call has its tool, also where TypeOK only says which.             *)
HasJob == job \in [Task -> {"none", "evaluate", "list", "restart"}]

(* A text that answers the command of a call.                              *)
Own(t, text) ==
    /\ text.by = "userbot"
    /\ text.edit \/ ~owed[t] => text.of = sent[t]

(* What holds of a call t whose window nobody's command has crossed: its   *)
(* own command is the newest, the only one unanswered if none was owed     *)
(* before, and all it may take or has taken are answers.                   *)
OwnWindow(t) ==
    /\ pc[t] = "waiting" => sent[t] = ids
    /\ pc[t] = "waiting" /\ ~owed[t] => \A c \in todo : c.id = sent[t]
    /\ \A text \in news[t] : Own(t, text)
    /\ last[t] # Nothing => Own(t, last[t])

Windowed ==
    \A t \in Task :
        /\ ~crossed[t] => OwnWindow(t)
        /\ pc[t] # "waiting" => news[t] = {}
        /\ pc[t] = "back" => last[t] # Nothing

IInv == TypeOK /\ HasJob /\ Windowed

-----------------------------------------------------------------------------
(* Constants, in the form the steps use.                                   *)
LEMMA Bounds ==
    /\ Tries \in Nat /\ Tries > 0
    /\ MaxCalls \in Nat /\ MaxAnswers \in Nat /\ MaxBoots \in Nat
    /\ \A t \in Task : Job[t] \subseteq {"evaluate", "list", "restart"}
BY ToolsAssumption DEF ToolsAssumption

(* What Show does to the window of a call: it adds the text or nothing,    *)
(* and nothing to who has no window.                                       *)
LEMMA ShowAdds ==
    ASSUME NEW windows, NEW id, NEW words, NEW text, Show(windows, id, words, text)
    PROVE  /\ news' = [t \in Task |-> news'[t]]
           /\ \A t \in Task : news'[t] \in {news[t], news[t] \cup {text}}
           /\ \A t \in Task : t \notin DOMAIN windows => news'[t] = news[t]
           /\ \A t \in Task : ~InScope(windows[t], id, words) => news'[t] = news[t]
BY DEF Show

(* What is posted is the call's own command; it crosses the windows of the *)
(* others, and its own shows nothing of it.                                *)
LEMMA PostShows ==
    ASSUME TypeOK, NEW t \in Task, NEW command, Post(t, command)
    PROVE  /\ ids' = ids + 1
           /\ todo' = todo \cup {[id |-> ids', command |-> command]}
           /\ sent' = [sent EXCEPT ![t] = ids']
           /\ last' = [last EXCEPT ![t] = Nothing]
           /\ pc' = [pc EXCEPT ![t] = "waiting"]
           /\ owed' = [owed EXCEPT ![t] = (todo # {})]
           /\ crossed' = [s \in Task |-> s # t /\ (crossed[s] \/ pc[s] = "waiting")]
           /\ news' \in [Task -> SUBSET Text] /\ news'[t] = news[t]
           /\ \A s \in Task : pc[s] # "waiting" => news'[s] = news[s]
           /\ UNCHANGED <<up, boot, answers>>
<1> DEFINE window  == [sent |-> ids + 1, command |-> command]
           windows == [s \in {t} \cup DOMAIN Windows |-> IF s = t THEN window ELSE Windows[s]]
           text    == [by |-> "server", of |-> ids + 1, boot |-> 0, edit |-> FALSE]
<1>1. Show(windows, ids + 1, command, text)
    BY DEF Post
<1>2. text \in Text
    BY DEF Text, TypeOK
<1>3. DOMAIN windows = {t} \cup {s \in Task : pc[s] = "waiting"}
    BY DEF Windows
<1>4. windows[t] = window
    OBVIOUS
<1>5. ~InScope(windows[t], ids + 1, command)
    BY <1>4 DEF InScope
<1> HIDE DEF windows, text
<1>6. news' \in [Task -> SUBSET Text]
    BY <1>1, <1>2, ShowAdds DEF TypeOK
<1>7. news'[t] = news[t] /\ \A s \in Task : pc[s] # "waiting" => news'[s] = news[s]
    BY <1>1, <1>3, <1>5, ShowAdds
<1> QED BY <1>6, <1>7 DEF Post, Goto

-----------------------------------------------------------------------------
(* Type correctness of CommandTools.                                       *)
PC == {"idle", "waiting", "booting", "pausing", "told", "back"}

LEMMA TypeInit == Init => TypeOK /\ HasJob
<1> SUFFICES ASSUME Init PROVE TypeOK /\ HasJob
    OBVIOUS
<1>1. /\ ids \in Nat /\ todo = {}
      /\ up \in BOOLEAN /\ boot \in 0 .. MaxBoots /\ answers \in 0 .. MaxAnswers
      /\ calls \in 0 .. MaxCalls
    BY Bounds DEF Init
<1>2. pc \in [Task -> PC] /\ HasJob /\ \A t \in Task : job[t] \in Job[t] \cup {"none"}
    BY DEF Init, PC, HasJob
<1>3. /\ sent \in [Task -> 0 .. ids] /\ tries \in [Task -> 0 .. Tries]
      /\ since \in [Task -> 0 .. MaxBoots]
    BY Bounds DEF Init
<1>4. /\ news \in [Task -> SUBSET Text] /\ last \in [Task -> Text \cup {Nothing}]
      /\ owed \in [Task -> BOOLEAN] /\ crossed \in [Task -> BOOLEAN]
    BY DEF Init
<1> QED BY <1>1, <1>2, <1>3, <1>4 DEF TypeOK, PC

(* The types of what Post changes.                                         *)
LEMMA PostTypes ==
    ASSUME TypeOK, NEW t \in Task, NEW command, Post(t, command)
    PROVE  /\ ids' \in Nat /\ \A c \in todo' : c.id \in 1 .. ids'
           /\ sent' \in [Task -> 0 .. ids'] /\ pc' \in [Task -> PC]
           /\ last' \in [Task -> Text \cup {Nothing}] /\ news' \in [Task -> SUBSET Text]
           /\ owed' \in [Task -> BOOLEAN] /\ crossed' \in [Task -> BOOLEAN]
           /\ UNCHANGED <<up, boot, answers>>
<1>1. ids \in Nat /\ ids' = ids + 1
    BY PostShows DEF TypeOK
<1>2. \A c \in todo' : c.id \in 1 .. ids'
    <2> SUFFICES ASSUME NEW c \in todo' PROVE c.id \in 1 .. ids'
        OBVIOUS
    <2>1. CASE c \in todo
        <3>1. c.id \in 1 .. ids
            BY <2>1 DEF TypeOK
        <3> QED BY <1>1, <3>1
    <2>2. CASE c = [id |-> ids', command |-> command]
        BY <1>1, <2>2
    <2> QED BY <2>1, <2>2, PostShows
<1>3. sent' \in [Task -> 0 .. ids']
    <2>1. 0 .. ids \subseteq 0 .. ids' /\ ids' \in 0 .. ids'
        BY <1>1
    <2> QED BY <2>1, PostShows DEF TypeOK
<1>4. pc' \in [Task -> PC] /\ last' \in [Task -> Text \cup {Nothing}]
    BY PostShows DEF TypeOK, PC
<1>5. owed' \in [Task -> BOOLEAN]
    BY PostShows DEF TypeOK
<1>6. crossed' \in [Task -> BOOLEAN]
    <2>1. crossed' = [s \in Task |-> s # t /\ (crossed[s] \/ pc[s] = "waiting")]
        BY PostShows
    <2> QED BY <2>1, Zenon
<1> QED BY <1>1, <1>2, <1>3, <1>4, <1>5, <1>6, PostShows

LEMMA ForgetTypes ==
    ASSUME TypeOK, HasJob, NEW t \in Task, Forget(t)
    PROVE  TypeOK' /\ HasJob'
<1>1. pc' \in [Task -> PC] /\ HasJob' /\ \A s \in Task : job'[s] \in Job[s] \cup {"none"}
    BY DEF Forget, Goto, TypeOK, HasJob, PC
<1>2. /\ sent' \in [Task -> 0 .. ids] /\ tries' \in [Task -> 0 .. Tries]
      /\ since' \in [Task -> 0 .. MaxBoots]
    BY Bounds DEF Forget, TypeOK
<1>3. /\ news' \in [Task -> SUBSET Text] /\ last' \in [Task -> Text \cup {Nothing}]
      /\ owed' \in [Task -> BOOLEAN] /\ crossed' \in [Task -> BOOLEAN]
    BY DEF Forget, TypeOK
<1> QED BY <1>1, <1>2, <1>3 DEF Forget, TypeOK, PC, userbot

LEMMA TypeStep ==
    ASSUME TypeOK, HasJob, [Next]_vars
    PROVE  TypeOK' /\ HasJob'
<1>1. ASSUME NEW t \in Task, NEW j \in Job[t], StartTool(t, j) PROVE TypeOK' /\ HasJob'
    <2>1. /\ HasJob' /\ \A s \in Task : job'[s] \in Job[s] \cup {"none"}
          /\ since' \in [Task -> 0 .. MaxBoots] /\ tries' = tries
          /\ calls' \in 0 .. MaxCalls
        BY <1>1, Bounds DEF StartTool, TypeOK, HasJob
    <2>2. PICK command : Post(t, command)
        BY <1>1 DEF StartTool
    <2> QED BY <2>1, <2>2, PostTypes DEF TypeOK, PC
<1>2. ASSUME NEW t \in Task, Take(t) PROVE TypeOK' /\ HasJob'
    BY <1>2 DEF Take, TypeOK, HasJob, userbot, ghosts
<1>3. ASSUME NEW t \in Task, Finish(t) PROVE TypeOK' /\ HasJob'
    <2>1. pc' \in [Task -> PC] /\ news' \in [Task -> SUBSET Text]
        BY <1>3 DEF Finish, Goto, AfterRestart, AfterHelp, TypeOK, PC
    <2> QED BY <1>3, <2>1 DEF Finish, TypeOK, HasJob, PC, userbot, ghosts
<1>4. ASSUME NEW t \in Task, Verify(t) PROVE TypeOK' /\ HasJob'
    <2>1. tries' \in [Task -> 0 .. Tries] /\ UNCHANGED <<job, since, calls>>
        BY <1>4, Bounds DEF Verify, TypeOK
    <2>2. Post(t, <<".help">>)
        BY <1>4 DEF Verify
    <2> QED BY <2>1, <2>2, PostTypes DEF TypeOK, HasJob, PC
<1>5. ASSUME NEW t \in Task, GiveUp(t) \/ Return(t) \/ Cancel(t) PROVE TypeOK' /\ HasJob'
    BY <1>5, ForgetTypes DEF GiveUp, Return, Cancel
<1>6. CASE UserbotAnswers
    <2>1. PICK c \in todo :
            /\ todo' \in {todo, todo \ {c}}
            /\ Show(Windows, IF c.command \in Edited THEN c.id ELSE ids + 1, <<"answer">>,
                    [by |-> "userbot", of |-> c.id, boot |-> boot,
                     edit |-> c.command \in Edited])
        BY <1>6 DEF UserbotAnswers
    <2>2. [by |-> "userbot", of |-> c.id, boot |-> boot, edit |-> c.command \in Edited] \in Text
        <3>1. c.id \in Nat /\ boot \in Nat
            BY DEF TypeOK
        <3> QED BY <3>1 DEF Text
    <2>3. news' \in [Task -> SUBSET Text]
        BY <2>1, <2>2, ShowAdds DEF TypeOK
    <2>4. answers' \in 0 .. MaxAnswers /\ \A d \in todo' : d.id \in 1 .. ids
        BY <1>6, <2>1, Bounds DEF UserbotAnswers, TypeOK
    <2> QED BY <1>6, <2>3, <2>4 DEF UserbotAnswers, TypeOK, HasJob, ghosts
<1>7. CASE UserbotStops
    BY <1>7 DEF UserbotStops, TypeOK, HasJob, ghosts
<1>8. CASE UserbotBoots
    BY <1>8, Bounds DEF UserbotBoots, TypeOK, HasJob, ghosts
<1>9. CASE UNCHANGED vars
    BY <1>9 DEF vars, TypeOK, HasJob, userbot, ghosts
<1> QED BY <1>1, <1>2, <1>3, <1>4, <1>5, <1>6, <1>7, <1>8, <1>9 DEF Next, Step

(* The tools keep their types: attempts stay within their number, and no   *)
(* window counts a command that was not sent (restart_userbot,             *)
(* send_command).                                                          *)
THEOREM TypeCorrect == Spec => []TypeOK
<1>1. TypeOK /\ HasJob /\ [Next]_vars => (TypeOK /\ HasJob)'
    BY TypeStep
<1> QED BY <1>1, TypeInit, PTL DEF Spec

-----------------------------------------------------------------------------
(* A command opens a window of its own, and crosses the others.            *)
LEMMA PostWindows ==
    ASSUME TypeOK, Windowed, NEW t \in Task, pc[t] # "waiting",
           NEW command, Post(t, command)
    PROVE  Windowed'
<1> SUFFICES ASSUME NEW s \in Task
             PROVE  /\ ~crossed'[s] => OwnWindow(s)'
                    /\ pc'[s] # "waiting" => news'[s] = {}
                    /\ pc'[s] = "back" => last'[s] # Nothing
    BY DEF Windowed
<1>1. CASE s = t
    <2>1. pc'[t] = "waiting" /\ sent'[t] = ids' /\ last'[t] = Nothing /\ news'[t] = {}
        BY PostShows DEF TypeOK, Windowed
    <2>2. owed'[t] = (todo # {}) /\ todo' = todo \cup {[id |-> ids', command |-> command]}
        BY PostShows DEF TypeOK
    <2>3. ~owed'[t] => todo = {}
        BY <2>2, Zenon
    <2>4. ~owed'[t] => \A c \in todo' : c.id = ids'
        BY <2>2, <2>3
    <2> QED BY <1>1, <2>1, <2>4 DEF OwnWindow
<1>2. CASE s # t
    <2>1. /\ pc'[s] = pc[s] /\ sent'[s] = sent[s] /\ last'[s] = last[s]
          /\ owed'[s] = owed[s] /\ (pc[s] # "waiting" => news'[s] = news[s])
        BY <1>2, PostShows DEF TypeOK
    <2>4. crossed' = [u \in Task |-> u # t /\ (crossed[u] \/ pc[u] = "waiting")]
        BY PostShows
    <2>5. crossed'[s] <=> crossed[s] \/ pc[s] = "waiting"
        BY <1>2, <2>4, Zenon
    <2>2. CASE pc[s] = "waiting"
        BY <2>1, <2>2, <2>5
    <2>3. CASE pc[s] # "waiting"
        BY <2>1, <2>3, <2>5 DEF Windowed, OwnWindow, Own
    <2> QED BY <2>2, <2>3
<1> QED BY <1>1, <1>2

LEMMA ForgetWindows ==
    ASSUME TypeOK, Windowed, NEW t \in Task, Forget(t)
    PROVE  Windowed'
<1> SUFFICES ASSUME NEW s \in Task
             PROVE  /\ ~crossed'[s] => OwnWindow(s)'
                    /\ pc'[s] # "waiting" => news'[s] = {}
                    /\ pc'[s] = "back" => last'[s] # Nothing
    BY DEF Windowed
<1>1. CASE s = t
    BY <1>1 DEF Forget, Goto, TypeOK, OwnWindow
<1>2. CASE s # t
    BY <1>2 DEF Forget, Goto, TypeOK, Windowed, OwnWindow, Own, userbot
<1> QED BY <1>1, <1>2

(* An answer that a window counts answers its own command, if no other     *)
(* command crossed it: an edit has the id of the newest command, and a     *)
(* message can answer no other when none was owed.                         *)
LEMMA AnswerIsOwn ==
    ASSUME TypeOK, Windowed, NEW t \in Task, ~crossed[t], pc[t] = "waiting",
           NEW c \in todo,
           InScope(Windows[t], IF c.command \in Edited THEN c.id ELSE ids + 1,
                   <<"answer">>)
    PROVE  (c.command \in Edited) \/ ~owed[t] => c.id = sent[t]
<1>1. sent[t] = ids /\ (~owed[t] => \A d \in todo : d.id = sent[t])
    BY DEF Windowed, OwnWindow
<1>2. Windows[t].sent = sent[t]
    BY DEF Windows
<1>3. c.id \in 1 .. ids /\ ids \in Nat
    BY DEF TypeOK
<1>4. CASE c.command \in Edited
    BY <1>1, <1>2, <1>3, <1>4 DEF InScope
<1> QED BY <1>1, <1>4

LEMMA AnswerWindows ==
    ASSUME TypeOK, Windowed, UserbotAnswers
    PROVE  Windowed'
<1>1. PICK c \in todo :
        /\ todo' \in {todo, todo \ {c}}
        /\ Show(Windows, IF c.command \in Edited THEN c.id ELSE ids + 1, <<"answer">>,
                [by |-> "userbot", of |-> c.id, boot |-> boot,
                 edit |-> c.command \in Edited])
    BY DEF UserbotAnswers
<1> DEFINE id   == IF c.command \in Edited THEN c.id ELSE ids + 1
           text == [by |-> "userbot", of |-> c.id, boot |-> boot,
                    edit |-> c.command \in Edited]
<1>2. Show(Windows, id, <<"answer">>, text)
    BY <1>1
<1>3. UNCHANGED <<ids, pc, sent, last, owed, crossed>>
    BY DEF UserbotAnswers, ghosts
<1> SUFFICES ASSUME NEW s \in Task
             PROVE  /\ ~crossed[s] => OwnWindow(s)'
                    /\ pc[s] # "waiting" => news'[s] = {}
                    /\ pc[s] = "back" => last[s] # Nothing
    BY <1>3 DEF Windowed
<1>4. pc[s] # "waiting" => news'[s] = news[s]
    <2>1. pc[s] # "waiting" => s \notin DOMAIN Windows
        BY DEF Windows
    <2> HIDE DEF id, text
    <2> QED BY <1>2, <2>1, ShowAdds
<1>5. ASSUME ~crossed[s] PROVE OwnWindow(s)'
    <2>1. \A new \in news'[s] : Own(s, new)
        <3>1. CASE pc[s] # "waiting"
            BY <1>4, <1>5, <3>1 DEF Windowed, OwnWindow
        <3>2. CASE pc[s] = "waiting" /\ ~InScope(Windows[s], id, <<"answer">>)
            <4> HIDE DEF id, text
            <4>1. news'[s] = news[s]
                BY <1>2, <3>2, ShowAdds
            <4> QED BY <1>5, <4>1 DEF Windowed, OwnWindow
        <3>3. CASE pc[s] = "waiting" /\ InScope(Windows[s], id, <<"answer">>)
            <4>1. (c.command \in Edited) \/ ~owed[s] => c.id = sent[s]
                BY <1>5, <3>3, AnswerIsOwn
            <4>2. Own(s, text)
                BY <4>1 DEF Own
            <4> HIDE DEF id, text
            <4>3. news'[s] \subseteq news[s] \cup {text}
                BY <1>2, ShowAdds
            <4> QED BY <1>5, <4>2, <4>3 DEF Windowed, OwnWindow
        <3> QED BY <3>1, <3>2, <3>3
    <2> QED BY <1>1, <1>3, <1>5, <2>1 DEF Windowed, OwnWindow, Own
<1> QED BY <1>4, <1>5 DEF Windowed

LEMMA WindowStep ==
    ASSUME TypeOK, HasJob, Windowed, [Next]_vars
    PROVE  Windowed'
<1>1. ASSUME NEW t \in Task, NEW j \in Job[t], StartTool(t, j) PROVE Windowed'
    BY <1>1, PostWindows DEF StartTool
<1>2. ASSUME NEW t \in Task, Take(t) PROVE Windowed'
    BY <1>2 DEF Take, TypeOK, Windowed, OwnWindow, Own, userbot, ghosts
<1>3. ASSUME NEW t \in Task, Finish(t) PROVE Windowed'
    <2>1. PICK where \in PC \ {"waiting"} :
            pc' = [pc EXCEPT ![t] = where] /\ (where = "back" => last[t] # Nothing)
        BY <1>3 DEF Finish, Goto, AfterRestart, AfterHelp, PC
    <2> QED BY <1>3, <2>1 DEF Finish, TypeOK, Windowed, OwnWindow, Own, userbot, ghosts
<1>4. ASSUME NEW t \in Task, Verify(t) PROVE Windowed'
    BY <1>4, PostWindows DEF Verify
<1>5. ASSUME NEW t \in Task, GiveUp(t) \/ Return(t) \/ Cancel(t) PROVE Windowed'
    BY <1>5, ForgetWindows DEF GiveUp, Return, Cancel
<1>6. CASE UserbotAnswers
    BY <1>6, AnswerWindows
<1>7. CASE UserbotStops \/ UserbotBoots
    BY <1>7 DEF UserbotStops, UserbotBoots, Windowed, OwnWindow, Own, ghosts
<1>8. CASE UNCHANGED vars
    BY <1>8 DEF vars, Windowed, OwnWindow, Own, userbot, ghosts
<1> QED BY <1>1, <1>2, <1>3, <1>4, <1>5, <1>6, <1>7, <1>8 DEF Next, Step

LEMMA Inductive == Spec => []IInv
<1>1. Init => IInv
    <2>1. Init => Windowed
        BY DEF Init, Windowed, OwnWindow
    <2> QED BY <2>1, TypeInit DEF IInv
<1>2. IInv /\ [Next]_vars => IInv'
    BY TypeStep, WindowStep DEF IInv
<1> QED BY <1>1, <1>2, PTL DEF Spec

(* A tool whose window no other command crossed returns what the userbot   *)
(* has answered to its own: an edit always is, a new message if no command *)
(* was unanswered when it was sent (_in_scope, _accept).                   *)
THEOREM OwnAnswers == Spec => []AnswersOwn
<1>1. IInv => AnswersOwn
    BY DEF IInv, Windowed, OwnWindow, Own, AnswersOwn
<1> QED BY <1>1, Inductive, PTL

(* restart_userbot says "userbot is back" only if a userbot has answered,  *)
(* unless another call has sent a command meanwhile.                       *)
THEOREM BackIsAlive == Spec => []BackMeansAlive
<1>1. IInv => BackMeansAlive
    BY DEF IInv, Windowed, OwnWindow, Own, BackMeansAlive
<1> QED BY <1>1, Inductive, PTL
=============================================================================
