---------------------------- MODULE SettleWindow ----------------------------
(***************************************************************************)
(* One send_command (telegram.py): post a command to the chat, watch the   *)
(* events of the client and poll the chat as a fallback, and return the    *)
(* last text once it has been quiet long enough.                           *)
(*                                                                         *)
(* Time is counted in ticks of the loop's wait, half a second.  The        *)
(* userbot's behaviour is a script: what it does to the command message    *)
(* (edits) and what it posts, in order; when it does it is open.           *)
(***************************************************************************)
EXTENDS Integers, Sequences, FiniteSets, FiniteSetsExt

CONSTANTS Script,     \* sequence of [how : {"edit", "post"}, text], texts distinct
          Content,    \* the texts with an alphanumeric character (_has_content)
          Wait,       \* the argument wait, in ticks
          Quiet,      \* the argument quiet, in ticks
          PollEvery,  \* ticks between two polls (3 s)
          MaxPoll,    \* ticks one request of a poll may take
          MaxReset,   \* ticks a reconnect may take
          Lossy,      \* may events be lost?
          InOrder,    \* no answer to a request overtakes the event of what it shows
          PollErrors  \* may a request of the poll fail?

Steps == 1 .. Len(Script)
Texts == {Script[i].text : i \in Steps}

ASSUME SettleAssumption ==
    /\ Script \in Seq([how : {"edit", "post"}, text : STRING])
    /\ \A i, j \in Steps : Script[i].text = Script[j].text => i = j
    /\ "" \notin Texts
    /\ Wait \in Nat /\ Quiet \in Nat \ {0} /\ PollEvery \in Nat \ {0}
    /\ MaxPoll \in Nat /\ MaxReset \in Nat
    /\ Lossy \in BOOLEAN /\ InOrder \in BOOLEAN /\ PollErrors \in BOOLEAN

VARIABLES pc,           \* the await send_command is suspended at
          now,          \* loop.time()
          due,          \* when the await in progress is over at the latest
          deadline, nextPoll,
          fut,          \* settled_fut is done
          last, lastAt, \* last_text, last_at
          seen,         \* seen_texts
          reconnected,  \* _poll_reconnected
          failed,       \* a request of a poll has failed (history)
          asked,        \* steps the userbot had done when the request left
          done,         \* steps of the script the userbot has done
          postedAt,     \* when it did each
          inbox         \* steps whose event has not been handled yet

window == <<last, lastAt, seen, fut>>
chat   == <<done, postedAt>>
vars   == <<pc, now, due, deadline, nextPoll, window, reconnected, failed, asked, chat, inbox>>

Over   == {"returned", "raised"}
Active == pc \notin Over

Init ==
    /\ pc = "sending" /\ now = 0 /\ due = 0
    /\ deadline = 0 /\ nextPoll = 0
    /\ fut = FALSE /\ last = "" /\ lastAt = 0 /\ seen = {}
    /\ reconnected = FALSE /\ failed = FALSE
    /\ asked = 0 /\ done = 0
    /\ postedAt = [i \in Steps |-> 0]
    /\ inbox = {}

-----------------------------------------------------------------------------
(* The chat: the userbot's next step, and what a request sees of it.       *)
Userbot ==
    /\ Active /\ done < Len(Script)
    /\ done' = done + 1
    /\ postedAt' = [postedAt EXCEPT ![done + 1] = now]
    /\ inbox' = inbox \cup {done + 1}
    /\ UNCHANGED <<pc, now, due, deadline, nextPoll, window, reconnected, failed, asked>>

Posts(s) == {i \in 1 .. s : Script[i].how = "post"}
Edits(s) == {i \in 1 .. s : Script[i].how = "edit"}

CommandText(s) == IF Edits(s) = {} THEN "command" ELSE Script[Max(Edits(s))].text

(* Mutants of Accept: the command's own echo is taken for an answer; a     *)
(* second text is taken before the loop has seen the first; a text is      *)
(* not remembered.                                                         *)
Accept_Echo(text) ==
    IF text \in seen \/ fut
    THEN UNCHANGED window
    ELSE seen' = seen \cup {text} /\ last' = text /\ lastAt' = now /\ fut' = TRUE

Accept_NoFuture(text) ==
    IF text = "command" \/ text \in seen
    THEN UNCHANGED window
    ELSE seen' = seen \cup {text} /\ last' = text /\ lastAt' = now /\ fut' = TRUE

Accept_Forgets(text) ==
    IF text = "command" \/ text \in seen \/ fut
    THEN UNCHANGED window
    ELSE seen' = seen /\ last' = text /\ lastAt' = now /\ fut' = TRUE

(* _accept: only a text never seen, and only one until the loop has woken. *)
Accept(text) ==
    IF text = "command" \/ text \in seen \/ fut
    THEN UNCHANGED window
    ELSE seen' = seen \cup {text} /\ last' = text /\ lastAt' = now /\ fut' = TRUE

(* _on_answer.  Before send_message has answered, sent_id is None and the  *)
(* event is dropped.  Handlers run in the order of the updates.            *)
OnAnswer ==
    /\ Active /\ inbox # {}
    /\ IF pc = "sending" THEN UNCHANGED window
                         ELSE Accept(Script[Min(inbox)].text)
    /\ inbox' = inbox \ {Min(inbox)}
    /\ UNCHANGED <<pc, now, due, deadline, nextPoll, reconnected, failed, asked, chat>>

LoseEvent ==
    /\ Lossy /\ Active
    /\ \E i \in inbox : inbox' = inbox \ {i}
    /\ UNCHANGED <<pc, now, due, deadline, nextPoll, window, reconnected, failed, asked, chat>>

-----------------------------------------------------------------------------
(* Mutant: the while condition does not look at the deadline.              *)
Iterate_Forever == pc' = "waiting" /\ due' = now + 1

(* The end of an iteration: the while condition is tested.                 *)
Iterate ==
    IF now < deadline THEN pc' = "waiting" /\ due' = now + 1
                      ELSE pc' = "returned" /\ UNCHANGED due

(* Mutant: the first text with content settles.                            *)
SettleOrIterate_Eager ==
    IF last' \in Content THEN pc' = "returned" /\ UNCHANGED due
                         ELSE Iterate

(* The settle test comes only after a poll, whether or not it succeeded.   *)
SettleOrIterate ==
    IF last' \in Content /\ now - lastAt' >= Quiet
    THEN pc' = "returned" /\ UNCHANGED due
    ELSE Iterate

Sent ==
    /\ pc = "sending"
    /\ deadline' = now + Wait
    /\ IF Wait > 0 THEN pc' = "waiting" /\ due' = now + 1
                   ELSE pc' = "returned" /\ UNCHANGED due
    /\ UNCHANGED <<now, nextPoll, window, reconnected, failed, asked, chat, inbox>>

SendFails ==
    /\ pc = "sending"
    /\ pc' = "raised"
    /\ UNCHANGED <<now, due, deadline, nextPoll, window, reconnected, failed, asked, chat, inbox>>

(* Mutant: the future is not renewed, so nothing is accepted any more.     *)
Wake_KeepsFuture ==
    /\ pc = "waiting" /\ fut
    /\ Iterate
    /\ UNCHANGED <<now, deadline, nextPoll, window, reconnected, failed, asked, chat, inbox>>

(* wait_for returns: the future is renewed.                                *)
Wake ==
    /\ pc = "waiting" /\ fut
    /\ fut' = FALSE
    /\ Iterate
    /\ UNCHANGED <<now, deadline, nextPoll, last, lastAt, seen, reconnected, failed, asked,
                   chat, inbox>>

(* It times out, possibly just as the future is set.                       *)
KeepWaiting ==
    /\ pc = "waiting" /\ now = due /\ now < nextPoll
    /\ Iterate
    /\ UNCHANGED <<now, deadline, nextPoll, window, reconnected, failed, asked, chat, inbox>>

Poll ==
    /\ pc = "waiting" /\ now = due /\ now >= nextPoll
    /\ nextPoll' = now + PollEvery
    /\ pc' = "listing" /\ due' = now + MaxPoll /\ asked' = done
    /\ UNCHANGED <<now, deadline, window, reconnected, failed, chat, inbox>>

(* What a request may show: the chat at some moment since it was asked.    *)
Snapshots == {s \in asked .. done : InOrder => \A i \in inbox : i > s}

(* get_messages(min_id=sent_id) answers: the oldest new text is accepted,   *)
(* the others find the future done.                                        *)
Listed ==
    /\ pc = "listing"
    /\ \E s \in Snapshots :
         LET new == {i \in Posts(s) : Script[i].text \notin seen}
         IN  IF new = {} THEN UNCHANGED window ELSE Accept(Script[Min(new)].text)
    /\ pc' = "fetching" /\ due' = now + MaxPoll /\ asked' = done
    /\ UNCHANGED <<now, deadline, nextPoll, reconnected, failed, chat, inbox>>

(* Mutant: the poll does not look at the command message.                  *)
Fetched_NotAsked ==
    /\ pc = "fetching"
    /\ UNCHANGED window
    /\ SettleOrIterate
    /\ UNCHANGED <<now, deadline, nextPoll, reconnected, failed, asked, chat, inbox>>

(* get_messages(ids=sent_id): the command message as it is now.            *)
Fetched ==
    /\ pc = "fetching"
    /\ \E s \in Snapshots : Accept(CommandText(s))
    /\ SettleOrIterate
    /\ UNCHANGED <<now, deadline, nextPoll, reconnected, failed, asked, chat, inbox>>

(* A request fails: the first transient error reconnects, others are       *)
(* swallowed.                                                              *)
PollReconnects ==
    /\ PollErrors /\ pc \in {"listing", "fetching"} /\ ~reconnected
    /\ reconnected' = TRUE /\ failed' = TRUE
    /\ pc' = "reconnecting" /\ due' = now + MaxReset
    /\ UNCHANGED <<now, deadline, nextPoll, window, asked, chat, inbox>>

PollFails ==
    /\ PollErrors /\ pc \in {"listing", "fetching"}
    /\ failed' = TRUE
    /\ UNCHANGED window
    /\ SettleOrIterate
    /\ UNCHANGED <<now, deadline, nextPoll, reconnected, asked, chat, inbox>>

(* The handlers move to the new client, which gets no update from before.  *)
Reconnected ==
    /\ pc = "reconnecting"
    /\ inbox' = {}
    /\ UNCHANGED window
    /\ SettleOrIterate
    /\ UNCHANGED <<now, deadline, nextPoll, reconnected, failed, asked, chat>>

ReconnectFails ==
    /\ pc = "reconnecting"
    /\ pc' = "raised"
    /\ UNCHANGED <<now, due, deadline, nextPoll, window, reconnected, failed, asked, chat, inbox>>

Tick ==
    /\ pc \in {"waiting", "listing", "fetching", "reconnecting"}
    /\ now < due
    /\ ~(pc = "waiting" /\ fut)
    /\ now' = now + 1
    /\ UNCHANGED <<pc, due, deadline, nextPoll, window, reconnected, failed, asked, chat, inbox>>

SendCommand ==
    \/ Sent \/ SendFails \/ Wake \/ KeepWaiting \/ Poll \/ Listed \/ Fetched
    \/ PollReconnects \/ PollFails \/ Reconnected \/ ReconnectFails

Finished == ~Active /\ UNCHANGED vars

Next == SendCommand \/ OnAnswer \/ LoseEvent \/ Userbot \/ Tick \/ Finished

Spec == Init /\ [][Next]_vars

(* The event loop runs what is ready and time passes.                      *)
FairSpec == Spec /\ WF_vars(SendCommand) /\ WF_vars(Tick)

-----------------------------------------------------------------------------
TypeOK ==
    /\ pc \in Over \cup {"sending", "waiting", "listing", "fetching", "reconnecting"}
    /\ now \in Nat /\ due \in Nat /\ deadline \in Nat /\ nextPoll \in Nat
    /\ fut \in BOOLEAN /\ last \in (Texts \ {"command"}) \cup {""} /\ lastAt \in Nat
    /\ seen \subseteq Texts
    /\ reconnected \in BOOLEAN /\ failed \in BOOLEAN /\ (reconnected => failed)
    /\ done \in 0 .. Len(Script) /\ asked \in 0 .. done
    /\ postedAt \in [Steps -> Nat]
    /\ inbox \subseteq 1 .. done

(* The step whose text is returned; 0 when there is none.                  *)
Returned == IF last = "" THEN 0
            ELSE CHOOSE i \in Steps : Script[i].text = last

Missed == {i \in 1 .. done : i > Returned /\ Script[i].text # "command"}

(* A call whose polls were answered and that settles before the deadline   *)
(* returns the newest text: what it misses has been in the chat for less   *)
(* than quiet (send_command: "settled after this many seconds without a    *)
(* newer one").  A poll that failed has shown nothing and settles as well. *)
QuietBeforeSettle ==
    pc = "returned" /\ now < deadline /\ ~failed =>
        \A i \in Missed : now - postedAt[i] < Quiet

(* From the start of one poll to the end of the next, at the longest.      *)
Period == IF 2 * MaxPoll < PollEvery THEN PollEvery ELSE 2 * MaxPoll + 1
Round  == Period + 2 * MaxPoll

(* Polling is a safety net: whatever events are lost, no text is in the    *)
(* chat for more than a round before the call has it or a newer one, unless *)
(* a poll has failed.  Each text the call takes meanwhile may cost another *)
(* round: a wake-up skips the poll, and a poll during which a text is      *)
(* accepted takes no other.                                                *)
PollsAreSafetyNet ==
    ~failed => \A i \in Missed :
                   now - postedAt[i] <= Round * (Cardinality(seen) + 1)

(* The window only moves on to newer texts (_accept: "a poll returning an  *)
(* older stage text must not regress the state machine").                  *)
NoRegress ==
    [][\A i \in Steps : last = Script[i].text /\ last' # last
          => \E j \in Steps : j > i /\ last' = Script[j].text]_vars

(* The last content-bearing text wins over an ack: a call that has seen    *)
(* content returns content.                                                *)
ContentWins ==
    pc = "returned" /\ seen \cap Content # {} => last \in Content

(* wait is the ceiling of the call, plus what one poll or one reconnect    *)
(* that is under way when it expires may take.                             *)
BoundedOverrun ==
    pc # "sending" => now <= deadline + 2 * MaxPoll + MaxReset

(* wait is the ceiling: "Max seconds to wait overall".                     *)
WaitIsCeiling == pc # "sending" => now <= deadline

(* The call implements Answer: a text it moves to is in the chat since the *)
(* send, is not the command and was not taken before, and its answer is    *)
(* final (_accept, and the two ways out of the loop).                      *)
A == INSTANCE Answer WITH
        Text <- Texts \ {"command"}, Nothing <- "",
        posted <- {Script[i].text : i \in 1 .. done} \ {"command"},
        taken <- seen, answer <- last, over <- ~Active

ImplementsAnswer == A!Spec

(* The call comes back, whatever the userbot does.                         *)
CallReturns == <>(~Active)
=============================================================================
