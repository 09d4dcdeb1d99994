---------------------------- MODULE SettleProofs ----------------------------
(***************************************************************************)
(* Theorems about SettleWindow, for any script of the userbot, any times   *)
(* and any losses: the call implements Answer, and the overrun of its      *)
(* ceiling is bounded.  For a userbot that answers by editing the command  *)
(* (EditsOnly), over a connection whose answers do not overtake its        *)
(* updates (InOrder): the window only moves forward, a call settles on the *)
(* newest text, and polls make up for the events that are lost.            *)
(***************************************************************************)
EXTENDS SettleWindow, SequenceTheorems, WellFoundedInduction, FiniteSetTheorems, TLAPS

(* What bounds the overrun: the await in progress ends by due, and due is  *)
(* at most the time of the requests made since the deadline was tested.    *)
Timing ==
    /\ pc = "sending" => now <= deadline
    /\ pc = "waiting" => now <= due /\ due <= deadline
    /\ pc = "listing" => now <= due /\ due <= deadline + MaxPoll
    /\ pc = "fetching" => now <= due /\ due <= deadline + 2 * MaxPoll
    /\ pc = "reconnecting" =>
         now <= due /\ due <= deadline + 2 * MaxPoll + MaxReset
    /\ pc \in Over => now <= deadline + 2 * MaxPoll + MaxReset

TInv == TypeOK /\ Timing

-----------------------------------------------------------------------------
(* What the steps use of the assumption.                                   *)
LEMMA LenIsNat == Len(Script) \in Nat
BY SettleAssumption, LenProperties DEF SettleAssumption

LEMMA Times ==
    /\ Wait \in Nat /\ Quiet \in Nat /\ PollEvery \in Nat
    /\ MaxPoll \in Nat /\ MaxReset \in Nat
BY SettleAssumption DEF SettleAssumption

(* Min and Max pick a member of a set of steps that is not empty.          *)
LEMMA MinIsMember ==
    ASSUME NEW S, S \subseteq Nat, S # {}
    PROVE  Min(S) \in S /\ \A y \in S : Min(S) <= y
<1>1. PICK x \in S : \A y \in S : ~ (<<y, x>> \in OpToRel(<, Nat))
    BY NatLessThanWellFounded, WFMin
<1>2. \A y \in S : x <= y
    <2> SUFFICES ASSUME NEW y \in S, y < x PROVE FALSE
        BY S \subseteq Nat
    <2>1. <<y, x>> \in OpToRel(<, Nat)
        BY S \subseteq Nat DEF OpToRel
    <2> QED BY <1>1, <2>1
<1> QED BY <1>2 DEF Min

LEMMA MaxIsMember ==
    ASSUME NEW n \in Nat, NEW S, S \subseteq 1 .. n, S # {}
    PROVE  Max(S) \in S /\ \A y \in S : Max(S) >= y
<1> DEFINE D == {n - x : x \in S}
<1>0. \A x \in S : x \in Nat /\ n - x \in Nat
    OBVIOUS
<1>1. D \subseteq Nat /\ D # {}
    BY <1>0
<1>2. PICK d \in D : \A e \in D : d <= e
    BY <1>1, MinIsMember
<1>3. PICK x \in S : d = n - x
    BY <1>2
<1>4. \A y \in S : x >= y
    <2> SUFFICES ASSUME NEW y \in S PROVE x >= y
        OBVIOUS
    <2>1. n - y \in D
        OBVIOUS
    <2>2. d <= n - y
        BY <1>2, <2>1
    <2> QED BY <1>3, <2>2
<1> QED BY <1>3, <1>4 DEF Max

(* A request shows the command as it was sent or as some edit left it.     *)
LEMMA CommandTextShown ==
    ASSUME NEW s \in 0 .. Len(Script)
    PROVE  \/ CommandText(s) = "command"
           \/ \E i \in 1 .. s : CommandText(s) = Script[i].text
<1>2. CASE Edits(s) = {}
    BY <1>2 DEF CommandText
<1>1. CASE Edits(s) # {}
    <2>1. Edits(s) \subseteq 1 .. s
        BY DEF Edits
    <2>0. s \in Nat
        BY LenIsNat
    <2>2. Max(Edits(s)) \in 1 .. s
        BY <2>0, <2>1, <1>1, MaxIsMember
    <2> QED BY <1>1, <2>2 DEF CommandText, Steps
<1> QED BY <1>1, <1>2

-----------------------------------------------------------------------------
(* The steps that events and requests are about have been done.            *)
LEMMA StepsDone ==
    ASSUME TypeOK
    PROVE  /\ done \in Nat /\ done <= Len(Script)
           /\ inbox \subseteq 1 .. done /\ inbox \subseteq Nat
           /\ \A s \in Snapshots : s \in 0 .. done /\ s \in 0 .. Len(Script)
           /\ \A s \in Snapshots : Posts(s) \subseteq 1 .. done
<1>1. done \in Nat /\ done <= Len(Script)
    <2>1. done \in 0 .. Len(Script)
        BY DEF TypeOK
    <2> QED BY <2>1, LenIsNat
<1>2. inbox \subseteq 1 .. done
    BY DEF TypeOK
<1>3. ASSUME NEW s \in Snapshots
      PROVE  s \in 0 .. done /\ s \in 0 .. Len(Script)
    <2>1. asked \in 0 .. done /\ s \in asked .. done
        BY DEF TypeOK, Snapshots
    <2> QED BY <1>1, <2>1, LenIsNat
<1>4. ASSUME NEW s \in Snapshots
      PROVE  Posts(s) \subseteq 1 .. done
    BY <1>1, <1>3 DEF Posts
<1> QED BY <1>1, <1>2, <1>3, <1>4

(* What a step may do to the window: nothing, take one text of a step the  *)
(* userbot has done, or renew the future.                                  *)
Takes(text) ==
    /\ text # "command" /\ text \notin seen
    /\ seen' = seen \cup {text} /\ last' = text

Follows ==
    \/ seen' = seen /\ last' = last
    \/ \E i \in 1 .. done : Takes(Script[i].text)

LEMMA AcceptFollows ==
    ASSUME NEW text, Accept(text), TypeOK,
           text = "command" \/ \E i \in 1 .. done : text = Script[i].text
    PROVE  Follows /\ fut' \in BOOLEAN /\ lastAt' \in Nat
BY DEF Accept, Follows, Takes, TypeOK, window

(* Every step of the call, and every event, moves the window like this.    *)
LEMMA WindowFollows ==
    ASSUME TypeOK, [Next]_vars
    PROVE  Follows /\ fut' \in BOOLEAN /\ lastAt' \in Nat
<1>1. CASE OnAnswer
    <2>1. CASE pc = "sending"
        BY <1>1, <2>1 DEF OnAnswer, Follows, window, TypeOK
    <2>2. CASE pc # "sending"
        <3>1. inbox # {}
            BY <1>1 DEF OnAnswer
        <3>2. Min(inbox) \in 1 .. done
            BY <3>1, StepsDone, MinIsMember
        <3>3. Accept(Script[Min(inbox)].text)
            BY <1>1, <2>2 DEF OnAnswer
        <3> QED BY <3>2, <3>3, AcceptFollows
    <2> QED BY <2>1, <2>2
<1>2. CASE Listed
    <2> DEFINE New(s) == {i \in Posts(s) : Script[i].text \notin seen}
    <2>1. PICK s \in Snapshots :
            IF New(s) = {} THEN UNCHANGED window
                           ELSE Accept(Script[Min(New(s))].text)
        BY <1>2 DEF Listed
    <2>2. CASE New(s) = {}
        BY <2>1, <2>2 DEF Follows, window, TypeOK, Listed
    <2>3. CASE New(s) # {}
        <3>2. New(s) \subseteq 1 .. done /\ New(s) \subseteq Nat
            BY StepsDone
        <3>3. Min(New(s)) \in 1 .. done
            BY <2>3, <3>2, MinIsMember
        <3>4. Accept(Script[Min(New(s))].text)
            BY <2>1, <2>3
        <3> HIDE DEF New
        <3> QED BY <3>3, <3>4, AcceptFollows
    <2> QED BY <2>2, <2>3
<1>3. CASE Fetched
    <2>1. PICK s \in Snapshots : Accept(CommandText(s))
        BY <1>3 DEF Fetched
    <2>2. s \in 0 .. done /\ s \in 0 .. Len(Script)
        BY StepsDone
    <2>3. \/ CommandText(s) = "command"
          \/ \E i \in 1 .. done : CommandText(s) = Script[i].text
        BY <2>2, CommandTextShown, StepsDone
    <2> QED BY <2>1, <2>3, AcceptFollows
<1>4. CASE Wake
    BY <1>4 DEF Wake, Follows, TypeOK
<1>5. CASE \/ Sent \/ SendFails \/ KeepWaiting \/ Poll
           \/ PollReconnects \/ PollFails \/ Reconnected \/ ReconnectFails
    BY <1>5 DEF Sent, SendFails, KeepWaiting, Poll, PollReconnects, PollFails,
                Reconnected, ReconnectFails, Follows, window, TypeOK
<1>6. CASE LoseEvent \/ Userbot \/ Tick \/ Finished \/ UNCHANGED vars
    BY <1>6 DEF LoseEvent, Userbot, Tick, Finished, vars, Follows, window, TypeOK
<1> QED BY <1>1, <1>2, <1>3, <1>4, <1>5, <1>6 DEF Next, SendCommand
-----------------------------------------------------------------------------
(* Type correctness of SettleWindow: whatever events are lost and polls    *)
(* fail, the answer is a text of the script, and no event is of a step     *)
(* that has not been done (_on_answer, _accept).                           *)
LEMMA TypeInit == Init => TypeOK
<1> SUFFICES ASSUME Init PROVE TypeOK
    OBVIOUS
<1>1. done \in 0 .. Len(Script) /\ asked \in 0 .. done
    <2>1. done = 0 /\ asked = 0
        BY DEF Init
    <2> QED BY <2>1, LenIsNat
<1>2. postedAt \in [Steps -> Nat]
    BY DEF Init
<1>3. /\ pc \in Over \cup {"sending", "waiting", "listing", "fetching", "reconnecting"}
      /\ now \in Nat /\ due \in Nat /\ deadline \in Nat /\ nextPoll \in Nat
      /\ fut \in BOOLEAN /\ last = "" /\ lastAt \in Nat /\ seen = {} /\ inbox = {}
      /\ reconnected \in BOOLEAN /\ failed \in BOOLEAN /\ (reconnected => failed)
    BY DEF Init
<1> QED BY <1>1, <1>2, <1>3 DEF TypeOK

(* TypeOK but for the window.                                              *)
RestOK ==
    /\ pc \in Over \cup {"sending", "waiting", "listing", "fetching", "reconnecting"}
    /\ now \in Nat /\ due \in Nat /\ deadline \in Nat /\ nextPoll \in Nat
    /\ reconnected \in BOOLEAN /\ failed \in BOOLEAN /\ (reconnected => failed)
    /\ done \in Nat /\ done <= Len(Script)
    /\ asked \in Nat /\ asked <= done
    /\ postedAt \in [Steps -> Nat]
    /\ inbox \subseteq 1 .. done

LEMMA RestFromType == TypeOK => RestOK
<1> SUFFICES ASSUME TypeOK PROVE RestOK
    OBVIOUS
<1>1. done \in Nat /\ done <= Len(Script)
    BY StepsDone
<1>2. asked \in 0 .. done
    BY DEF TypeOK
<1>3. asked \in Nat /\ asked <= done
    BY <1>1, <1>2
<1> QED BY <1>1, <1>3 DEF TypeOK, RestOK

(* Where an iteration may end, and what it does to due.                    *)
LEMMA IterateOutcome ==
    ASSUME Iterate \/ SettleOrIterate
    PROVE  \/ pc' = "waiting" /\ due' = now + 1 /\ now < deadline
           \/ pc' = "returned" /\ due' = due
BY DEF Iterate, SettleOrIterate

LEMMA RestStep ==
    ASSUME RestOK, [Next]_vars
    PROVE  RestOK'
<1> USE Times DEF RestOK
<1>1. CASE Sent
    BY <1>1 DEF Sent, chat, Over
<1>2. CASE SendFails
    BY <1>2 DEF SendFails, chat, Over
<1>16. CASE ReconnectFails
    BY <1>16 DEF ReconnectFails, chat, Over
<1>3. CASE Wake
    BY <1>3, IterateOutcome DEF Wake, chat, Over
<1>4. CASE KeepWaiting
    BY <1>4, IterateOutcome DEF KeepWaiting, chat, Over
<1>5. CASE Poll
    BY <1>5 DEF Poll, chat, Over
<1>6. CASE Listed
    BY <1>6 DEF Listed, chat, Over
<1>7. CASE Fetched
    BY <1>7, IterateOutcome DEF Fetched, chat, Over
<1>8. CASE PollReconnects
    BY <1>8 DEF PollReconnects, chat, Over
<1>9. CASE PollFails
    BY <1>9, IterateOutcome DEF PollFails, chat, Over
<1>10. CASE Reconnected
    BY <1>10, IterateOutcome DEF Reconnected, chat, Over
<1>11. CASE OnAnswer
    BY <1>11 DEF OnAnswer, chat
<1>12. CASE LoseEvent
    BY <1>12 DEF LoseEvent, chat
<1>13. CASE Userbot
    <2>1. done + 1 <= Len(Script) /\ done' = done + 1
        BY <1>13, LenIsNat DEF Userbot
    <2>2. inbox' \subseteq 1 .. done'
        BY <1>13, <2>1 DEF Userbot
    <2>3. postedAt' \in [Steps -> Nat]
        BY <1>13 DEF Userbot
    <2> QED BY <1>13, <2>1, <2>2, <2>3 DEF Userbot
<1>14. CASE Tick
    BY <1>14 DEF Tick, chat
<1>15. CASE UNCHANGED vars
    BY <1>15 DEF vars, chat
<1> QED BY <1>1, <1>2, <1>3, <1>4, <1>5, <1>6, <1>7, <1>8, <1>9, <1>10, <1>11,
           <1>12, <1>13, <1>14, <1>15, <1>16 DEF Finished, Next, SendCommand

LEMMA TypeStep ==
    ASSUME TypeOK, [Next]_vars
    PROVE  TypeOK'
<1>1. Follows /\ fut' \in BOOLEAN /\ lastAt' \in Nat
    BY WindowFollows
<1>2. last' \in (Texts \ {"command"}) \cup {""} /\ seen' \subseteq Texts
    <2>1. last \in (Texts \ {"command"}) \cup {""} /\ seen \subseteq Texts
        BY DEF TypeOK
    <2>2. \A i \in 1 .. done : Script[i].text \in Texts
        BY StepsDone, LenIsNat DEF Texts, Steps
    <2> QED BY <1>1, <2>1, <2>2 DEF Follows, Takes
<1>3. RestOK'
    BY RestFromType, RestStep
<1>4. done' \in 0 .. Len(Script) /\ asked' \in 0 .. done'
    BY <1>3, LenIsNat DEF RestOK
<1> QED BY <1>1, <1>2, <1>3, <1>4 DEF RestOK, TypeOK

THEOREM TypeCorrect == Spec => []TypeOK
BY TypeInit, TypeStep, PTL DEF Spec

-----------------------------------------------------------------------------
(* wait is the ceiling of the call but for the requests under way when it  *)
(* expires: two of a poll and one reconnect (the while condition, the      *)
(* wait_for, and the reconnect of the poll).                               *)
LEMMA TimingInit == Init => Timing
<1> SUFFICES ASSUME pc = "sending", now = 0, deadline = 0 PROVE Timing
    BY DEF Init
<1> QED BY DEF Timing, Over

LEMMA TimingStep ==
    ASSUME TypeOK, Timing, [Next]_vars
    PROVE  Timing'
<1> USE Times DEF Timing, Over
<1>0. now \in Nat /\ due \in Nat /\ deadline \in Nat
    BY DEF TypeOK
<1>1. CASE Sent
    BY <1>0, <1>1 DEF Sent
<1>2. CASE SendFails
    BY <1>0, <1>2 DEF SendFails
<1>3. CASE Wake
    BY <1>0, <1>3, IterateOutcome DEF Wake
<1>4. CASE KeepWaiting
    BY <1>0, <1>4, IterateOutcome DEF KeepWaiting
<1>5. CASE Poll
    BY <1>0, <1>5 DEF Poll
<1>6. CASE Listed
    BY <1>0, <1>6 DEF Listed
<1>7. CASE Fetched
    BY <1>0, <1>7, IterateOutcome DEF Fetched
<1>8. CASE PollReconnects
    BY <1>0, <1>8 DEF PollReconnects
<1>9. CASE PollFails
    BY <1>0, <1>9, IterateOutcome DEF PollFails
<1>10. CASE Reconnected
    BY <1>0, <1>10, IterateOutcome DEF Reconnected
<1>11. CASE ReconnectFails
    BY <1>0, <1>11 DEF ReconnectFails
<1>12. CASE Tick
    BY <1>0, <1>12 DEF Tick
<1>13. CASE OnAnswer \/ LoseEvent \/ Userbot \/ Finished \/ UNCHANGED vars
    BY <1>13 DEF OnAnswer, LoseEvent, Userbot, Finished, vars
<1> QED BY <1>1, <1>2, <1>3, <1>4, <1>5, <1>6, <1>7, <1>8, <1>9, <1>10, <1>11,
           <1>12, <1>13 DEF Next, SendCommand

LEMMA TimingBounds == ASSUME TypeOK, Timing PROVE BoundedOverrun
<1>1. now \in Nat /\ due \in Nat /\ deadline \in Nat
    BY DEF TypeOK
<1>2. pc \in Over \cup {"sending", "waiting", "listing", "fetching", "reconnecting"}
    BY DEF TypeOK
<1> QED BY <1>1, <1>2, Times DEF Timing, BoundedOverrun

THEOREM OverrunBounded == Spec => []BoundedOverrun
<1>1. Init => TInv
    BY TypeInit, TimingInit DEF TInv
<1>2. TInv /\ [Next]_vars => TInv'
    BY TypeStep, TimingStep DEF TInv
<1>3. TInv => BoundedOverrun
    BY TimingBounds DEF TInv
<1> QED BY <1>1, <1>2, <1>3, PTL DEF Spec

-----------------------------------------------------------------------------
(* The call implements Answer: what it takes is in the chat since the      *)
(* command and was not taken before, and its answer is final.              *)
LEMMA AnswerInit == Init => A!Init
<1> SUFFICES ASSUME Init PROVE A!Init
    OBVIOUS
<1>1. done = 0 /\ seen = {} /\ last = "" /\ ~(~Active)
    BY DEF Init, Active, Over
<1>2. {Script[i].text : i \in 1 .. done} \ {"command"} = {}
    <2>1. 1 .. 0 = {}
        OBVIOUS
    <2> QED BY <1>1, <2>1
<1> QED BY <1>1, <1>2 DEF A!Init

LEMMA AnswerStep ==
    ASSUME TypeOK, [Next]_vars
    PROVE  [A!Next]_A!vars
<1> DEFINE Posted == {Script[i].text : i \in 1 .. done} \ {"command"}
<1>1. CASE Userbot
    <2>1. /\ done' = done + 1 /\ done + 1 \in Steps
          /\ seen' = seen /\ last' = last /\ Active /\ pc' = pc
        BY <1>1, StepsDone, LenIsNat DEF Userbot, window, Steps
    <2>2. 1 .. done' = (1 .. done) \cup {done + 1}
        BY <2>1, StepsDone
    <2>3. Posted' = Posted \cup ({Script[done + 1].text} \ {"command"})
        BY <2>2
    <2>4. Script[done + 1].text \in Texts
        BY <2>1 DEF Texts
    <2>5. CASE Script[done + 1].text = "command"
        BY <2>1, <2>3, <2>5 DEF A!vars, Active
    <2>6. CASE Script[done + 1].text # "command"
        <3>1. A!Appear
            BY <2>1, <2>3, <2>4, <2>6 DEF A!Appear, Active
        <3> QED BY <3>1 DEF A!Next
    <2> QED BY <2>5, <2>6
<1>2. CASE SendCommand \/ OnAnswer \/ LoseEvent \/ Tick
    <2>1. done' = done /\ Active
        BY <1>2 DEF SendCommand, Sent, SendFails, Wake, KeepWaiting, Poll, Listed,
                    Fetched, PollReconnects, PollFails, Reconnected, ReconnectFails,
                    OnAnswer, LoseEvent, Tick, chat, Active, Over
    <2>2. Posted' = Posted
        BY <2>1
    <2>3. A!Take \/ (seen' = seen /\ last' = last)
        <3>1. Follows
            BY WindowFollows
        <3> QED BY <3>1 DEF Follows, Takes, A!Take
    <2>4. A!Follow
        BY <2>1, <2>2, <2>3 DEF A!Follow
    <2> QED BY <2>4 DEF A!Next
<1>3. CASE Finished \/ UNCHANGED vars
    BY <1>3 DEF Finished, vars, window, chat, A!vars, Active
<1> QED BY <1>1, <1>2, <1>3 DEF Next

THEOREM AnswerImplemented == Spec => ImplementsAnswer
BY TypeCorrect, AnswerInit, AnswerStep, PTL DEF Spec, ImplementsAnswer, A!Spec

-----------------------------------------------------------------------------
(* A userbot that answers by editing the command: what it posts is at most *)
(* the echo of the command.                                                *)
EditsOnly == \A i \in Steps : Script[i].how = "edit" <=> Script[i].text # "command"

(* The window is ahead of everything it has seen, and behind every event   *)
(* that is still to come.                                                  *)
Ahead ==
    /\ Returned <= done
    /\ last # "" => last \in seen
    /\ \A k \in Steps : Script[k].text \in seen => k <= Returned
    /\ \A i \in inbox : i > Returned

(* While a poll is out the future remembers whether the window has moved   *)
(* on since the request left; if not, the request shows at least as much.  *)
PollSeesWindow ==
    pc \in {"listing", "fetching"} /\ ~fut => Returned <= asked

(* What a set future says of the time: the text was taken in the tick that *)
(* ends the wait, or since the poll began.                                 *)
TakenLately ==
    /\ pc = "waiting" /\ fut /\ now = due => lastAt = now
    /\ pc \in {"listing", "fetching"} => due <= now + MaxPoll
    /\ pc = "listing" /\ fut => due <= lastAt + MaxPoll
    /\ pc = "fetching" /\ fut => due <= lastAt + 2 * MaxPoll

(* What the userbot does after a request left is no older than it.         *)
UnaskedIsNew ==
    pc = "fetching" =>
        \A i \in Steps : asked < i /\ i <= done => due <= postedAt[i] + MaxPoll

ReconnectMeansFailed == pc = "reconnecting" => failed

FInv == TypeOK /\ Timing /\ Ahead /\ PollSeesWindow

QInv ==
    /\ FInv /\ TakenLately /\ UnaskedIsNew /\ ReconnectMeansFailed
    /\ QuietBeforeSettle

(* Texts are distinct, so the step behind the answer is the only one.      *)
LEMMA ReturnedIs ==
    ASSUME TypeOK
    PROVE  /\ Returned \in Nat
           /\ last = "" => Returned = 0
           /\ last # "" => /\ Returned \in Steps /\ Script[Returned].text = last
                           /\ last # "command"
           /\ \A i \in Steps : Script[i].text = last => i = Returned
<1>1. "" \notin Texts /\ \A i, j \in Steps : Script[i].text = Script[j].text => i = j
    BY SettleAssumption DEF SettleAssumption
<1>2. last \in (Texts \ {"command"}) \cup {""}
    BY DEF TypeOK
<1>3. CASE last = ""
  <2>1. \A i \in Steps : Script[i].text # last
      BY <1>1, <1>3 DEF Texts
  <2> QED BY <1>3, <2>1 DEF Returned
<1>4. CASE last # ""
  <2>1. \E i \in Steps : Script[i].text = last
      BY <1>2, <1>4 DEF Texts
  <2>2. Returned \in Steps /\ Script[Returned].text = last
      BY <1>4, <2>1 DEF Returned
  <2>3. Returned \in Nat
      BY <2>2, LenIsNat DEF Steps
  <2> QED BY <1>1, <1>2, <1>4, <2>2, <2>3
<1> QED BY <1>3, <1>4

(* Accepting the text of a step leaves the window alone or moves it there. *)
LEMMA AcceptMoves ==
    ASSUME TypeOK, NEW j \in 1 .. done, Accept(Script[j].text)
    PROVE  \/ /\ UNCHANGED window /\ Returned' = Returned
              /\ Script[j].text = "command" \/ Script[j].text \in seen \/ fut
           \/ /\ Script[j].text # "command" /\ Script[j].text \notin seen /\ ~fut
              /\ seen' = seen \cup {Script[j].text} /\ last' = Script[j].text
              /\ lastAt' = now /\ fut' = TRUE
              /\ Returned' = j
<1>1. j \in Steps
    BY StepsDone, LenIsNat DEF Steps
<1>2. ASSUME UNCHANGED window PROVE Returned' = Returned
    BY <1>2 DEF window, Returned
<1>3. ASSUME last' = Script[j].text PROVE Returned' = j
  <2>1. last' # ""
      BY <1>1, <1>3, SettleAssumption DEF SettleAssumption, Texts
  <2>2. \A i \in Steps : Script[i].text = last' <=> i = j
      BY <1>1, <1>3, SettleAssumption DEF SettleAssumption
  <2>3. Returned' = CHOOSE i \in Steps : Script[i].text = last'
      BY <2>1 DEF Returned
  <2> QED BY <1>1, <2>2, <2>3
<1> QED BY <1>2, <1>3 DEF Accept

(* What a poll of an editing userbot shows: nothing to take in the list,   *)
(* and of the command the newest edit, if there has been one.              *)
LEMMA ListShowsNothing ==
    ASSUME EditsOnly, TypeOK, Listed
    PROVE  UNCHANGED window
<1> DEFINE New(s) == {i \in Posts(s) : Script[i].text \notin seen}
<1>1. PICK s \in Snapshots :
        IF New(s) = {} THEN UNCHANGED window
                       ELSE Accept(Script[Min(New(s))].text)
    BY DEF Listed
<1>2. CASE New(s) # {}
  <2>1. New(s) \subseteq 1 .. done /\ New(s) \subseteq Nat
      BY StepsDone
  <2>2. Min(New(s)) \in New(s)
      BY <1>2, <2>1, MinIsMember
  <2>3. Min(New(s)) \in Steps /\ Script[Min(New(s))].how = "post"
      BY <2>1, <2>2, StepsDone, LenIsNat DEF Posts, Steps
  <2>4. Script[Min(New(s))].text = "command"
      BY <2>3 DEF EditsOnly
  <2> HIDE DEF New
  <2> QED BY <1>1, <1>2, <2>4 DEF Accept
<1> QED BY <1>1, <1>2

LEMMA CommandShowsNewest ==
    ASSUME EditsOnly, TypeOK, NEW s \in Snapshots
    PROVE  \/ /\ CommandText(s) = "command"
              /\ \A i \in 1 .. s : Script[i].text = "command"
           \/ \E j \in 1 .. s :
                /\ CommandText(s) = Script[j].text /\ Script[j].text # "command"
                /\ \A i \in 1 .. s : Script[i].text # "command" => i <= j
<1>1. s \in Nat /\ s <= Len(Script) /\ 1 .. s \subseteq Steps
    BY StepsDone, LenIsNat DEF Steps
<1>2. \A i \in 1 .. s : i \in Edits(s) <=> Script[i].text # "command"
    BY <1>1 DEF Edits, EditsOnly
<1>3. CASE Edits(s) = {}
    BY <1>2, <1>3 DEF CommandText
<1>4. CASE Edits(s) # {}
  <2>1. Edits(s) \subseteq 1 .. s
      BY DEF Edits
  <2>2. Max(Edits(s)) \in Edits(s) /\ \A y \in Edits(s) : Max(Edits(s)) >= y
      BY <1>1, <1>4, <2>1, MaxIsMember
  <2>3. PICK j \in 1 .. s : j = Max(Edits(s))
      BY <2>1, <2>2
  <2>4. CommandText(s) = Script[j].text
      BY <1>4, <2>3 DEF CommandText
  <2>5. \A i \in 1 .. s : Script[i].text # "command" => i <= j
      BY <1>1, <1>2, <2>2, <2>3
  <2>6. Script[j].text # "command"
      BY <1>2, <2>2, <2>3
  <2> QED BY <2>4, <2>5, <2>6
<1> QED BY <1>3, <1>4

-----------------------------------------------------------------------------
(* A step that leaves the window and the chat alone, and takes events away *)
(* at most, keeps the window ahead.                                        *)
LEMMA StillAhead ==
    ASSUME Ahead, UNCHANGED <<last, seen, done>>, inbox' \subseteq inbox
    PROVE  Ahead' /\ Returned' = Returned
<1>1. Returned' = Returned
    BY DEF Returned
<1> QED BY <1>1 DEF Ahead

(* Taking a newer text that no event is still to bring does so too.        *)
LEMMA AheadByTaking ==
    ASSUME TypeOK, Ahead, NEW j \in 1 .. done, UNCHANGED done,
           Returned' = j, j > Returned,
           last' = Script[j].text, seen' = seen \cup {Script[j].text},
           inbox' \subseteq inbox, \A i \in inbox' : i > j
    PROVE  Ahead'
<1>1. done \in Nat /\ j \in Steps /\ j \in Nat /\ Steps \subseteq Nat
    BY StepsDone, LenIsNat DEF Steps
<1>2. Returned \in Nat
    BY ReturnedIs
<1>3. Returned' <= done'
    BY <1>1
<1>4. ASSUME NEW k \in Steps, Script[k].text \in seen' PROVE k <= Returned'
  <2>1. CASE Script[k].text \in seen
    <3>1. k <= Returned
        BY <2>1 DEF Ahead
    <3> QED BY <3>1, <1>1, <1>2
  <2>2. CASE Script[k].text = Script[j].text
    <3>1. k = j
        BY <1>1, <2>2, SettleAssumption DEF SettleAssumption
    <3> QED BY <3>1, <1>1
  <2> QED BY <1>4, <2>1, <2>2
<1>5. \A i \in inbox' : i > Returned'
    OBVIOUS
<1> QED BY <1>3, <1>4, <1>5 DEF Ahead

(* What is taken while the future is not set is newer than the answer, and *)
(* older than what events are still to bring.                              *)
TakesNewer ==
    \/ UNCHANGED <<last, seen>>
    \/ \E j \in 1 .. done :
         /\ Returned' = j /\ j > Returned
         /\ last' = Script[j].text /\ seen' = seen \cup {Script[j].text}
         /\ \A i \in inbox' : i > j

LEMMA EventIsNewer ==
    ASSUME TypeOK, Ahead, OnAnswer
    PROVE  TakesNewer
<1>1. inbox # {} /\ inbox \subseteq Nat /\ inbox \subseteq 1 .. done
    BY StepsDone DEF OnAnswer
<1>2. PICK j \in 1 .. done : j = Min(inbox) /\ j \in inbox /\ \A i \in inbox : j <= i
    BY <1>1, MinIsMember
<1>3. CASE pc = "sending"
    BY <1>3 DEF OnAnswer, window, TakesNewer
<1>4. CASE pc # "sending"
  <2>1. Accept(Script[j].text)
      BY <1>2, <1>4 DEF OnAnswer
  <2>2. inbox' = inbox \ {j}
      BY <1>2 DEF OnAnswer
  <2>3. \A i \in inbox' : i > j
      BY <1>1, <1>2, <2>2
  <2>4. j > Returned
      BY <1>2 DEF Ahead
  <2>5. UNCHANGED window => TakesNewer
      BY DEF window, TakesNewer
  <2> QED BY <2>1, <2>3, <2>4, <2>5, AcceptMoves DEF TakesNewer
<1> QED BY <1>3, <1>4

LEMMA PollIsNewer ==
    ASSUME EditsOnly, InOrder, TypeOK, Ahead, PollSeesWindow, Fetched
    PROVE  TakesNewer
<1>1. PICK s \in Snapshots : Accept(CommandText(s))
    BY DEF Fetched
<1>2. s \in Nat /\ s <= done /\ asked \in Nat /\ asked <= s /\ \A i \in inbox : i > s
  <2>1. asked \in 0 .. done /\ s \in asked .. done /\ \A i \in inbox : i > s
      BY DEF Snapshots, TypeOK
  <2> QED BY <2>1, StepsDone
<1>3. ASSUME UNCHANGED window PROVE TakesNewer
    BY <1>3 DEF window, TakesNewer
<1>4. CASE CommandText(s) = "command"
    BY <1>1, <1>3, <1>4 DEF Accept
<1>5. ASSUME NEW j \in 1 .. s,
             CommandText(s) = Script[j].text, Script[j].text # "command",
             \A i \in 1 .. s : Script[i].text # "command" => i <= j
      PROVE  TakesNewer
  <2>1. j \in 1 .. done /\ j \in Nat
      BY <1>2, StepsDone
  <2>2. Accept(Script[j].text)
      BY <1>1, <1>5
  <2>3. \A i \in inbox' : i > j
    <3>1. inbox' = inbox /\ inbox \subseteq Nat
        BY StepsDone DEF Fetched
    <3> QED BY <1>2, <2>1, <3>1
  <2>4. ASSUME ~fut, Script[j].text \notin seen PROVE j > Returned
    <3>0. pc = "fetching" /\ Returned \in Nat
        BY ReturnedIs DEF Fetched
    <3>1. Returned \in Nat /\ Returned <= s
      <4>1. Returned <= asked
          BY <3>0, <2>4 DEF PollSeesWindow
      <4> QED BY <1>2, <3>0, <4>1
    <3>2. CASE last = ""
      <4>1. Returned = 0
          BY <3>2, ReturnedIs
      <4> QED BY <2>1, <4>1
    <3>3. CASE last # ""
      <4>1. Returned \in Steps /\ Script[Returned].text = last /\ last # "command"
          BY <3>3, ReturnedIs
      <4>2. Returned \in 1 .. s
          BY <3>1, <4>1, LenIsNat, <1>2 DEF Steps
      <4>3. Returned <= j
          BY <1>5, <4>1, <4>2
      <4>4. Returned # j
          BY <2>4, <3>3, <4>1 DEF Ahead
      <4> QED BY <2>1, <3>1, <4>3, <4>4
    <3> QED BY <3>2, <3>3
  <2> QED BY <1>3, <2>1, <2>2, <2>3, <2>4, AcceptMoves DEF TakesNewer
<1> QED BY <1>4, <1>5, CommandShowsNewest

(* No step moves the window to an older text.                              *)
LEMMA MovesOn ==
    ASSUME EditsOnly, InOrder, TypeOK, Ahead, PollSeesWindow, [Next]_vars
    PROVE  TakesNewer
<1>1. CASE OnAnswer
    BY <1>1, EventIsNewer
<1>2. CASE Fetched
    BY <1>2, PollIsNewer
<1>3. CASE Listed
    BY <1>3, ListShowsNothing DEF window, TakesNewer
<1>4. CASE \/ Sent \/ SendFails \/ Wake \/ KeepWaiting \/ Poll
           \/ PollReconnects \/ PollFails \/ Reconnected \/ ReconnectFails
    BY <1>4 DEF Sent, SendFails, Wake, KeepWaiting, Poll, PollReconnects, PollFails,
                Reconnected, ReconnectFails, TakesNewer, window
<1>5. CASE LoseEvent \/ Userbot \/ Tick \/ Finished \/ UNCHANGED vars
    BY <1>5 DEF LoseEvent, Userbot, Tick, Finished, vars, TakesNewer, window
<1> QED BY <1>1, <1>2, <1>3, <1>4, <1>5 DEF Next, SendCommand

LEMMA AheadStep ==
    ASSUME EditsOnly, InOrder, TypeOK, Ahead, PollSeesWindow, [Next]_vars
    PROVE  Ahead'
<1>1. CASE Userbot
  <2>1. /\ UNCHANGED <<last, seen>>
        /\ done' = done + 1 /\ inbox' = inbox \cup {done + 1}
      BY <1>1 DEF Userbot, window
  <2>2. Returned' = Returned
      BY <2>1 DEF Returned
  <2>3. Returned \in Nat /\ done \in Nat
      BY ReturnedIs, StepsDone
  <2>4. Returned <= done /\ \A i \in inbox : i > Returned
      BY DEF Ahead
  <2>5. Returned' <= done'
      BY <2>1, <2>2, <2>3, <2>4
  <2>6. \A i \in inbox' : i > Returned'
      BY <2>1, <2>2, <2>3, <2>4
  <2>7. /\ last' # "" => last' \in seen'
        /\ \A k \in Steps : Script[k].text \in seen' => k <= Returned'
      BY <2>1, <2>2 DEF Ahead
  <2> QED BY <2>5, <2>6, <2>7 DEF Ahead
<1>2. CASE ~Userbot
  <2>1. UNCHANGED done /\ inbox' \subseteq inbox
    <3>1. CASE SendCommand
        BY <3>1 DEF SendCommand, Sent, SendFails, Wake, KeepWaiting, Poll, Listed, Fetched,
           PollReconnects, PollFails, Reconnected, ReconnectFails, chat
    <3>2. CASE OnAnswer \/ LoseEvent
        BY <3>2 DEF OnAnswer, LoseEvent, chat
    <3>3. CASE Tick \/ Finished \/ UNCHANGED vars
        BY <3>3 DEF Tick, Finished, vars, chat
    <3> QED BY <1>2, <3>1, <3>2, <3>3 DEF Next
  <2>2. TakesNewer
      BY MovesOn
  <2> QED BY <2>1, <2>2, StillAhead, AheadByTaking DEF TakesNewer
<1> QED BY <1>1, <1>2

LEMMA PollSeesStep ==
    ASSUME EditsOnly, TypeOK, Ahead, PollSeesWindow, [Next]_vars
    PROVE  PollSeesWindow'
<1> SUFFICES ASSUME pc' \in {"listing", "fetching"}, ~fut'
             PROVE  Returned' <= asked'
    BY DEF PollSeesWindow
<1>1. Returned <= done
    BY DEF Ahead
<1>2. ASSUME UNCHANGED window PROVE Returned' = Returned /\ ~fut
    BY <1>2 DEF window, Returned
<1>3. CASE Poll
  <2>1. UNCHANGED window /\ asked' = done
      BY <1>3 DEF Poll
  <2> QED BY <1>1, <1>2, <2>1
<1>4. CASE Listed
  <2>1. UNCHANGED window /\ asked' = done
      BY <1>4, ListShowsNothing DEF Listed
  <2> QED BY <1>1, <1>2, <2>1
<1>5. CASE OnAnswer \/ LoseEvent \/ Userbot \/ Tick \/ Finished \/ UNCHANGED vars
  <2>1. pc' = pc /\ asked' = asked
      BY <1>5 DEF OnAnswer, LoseEvent, Userbot, Tick, Finished, vars
  <2>2. UNCHANGED window
    <3>1. CASE OnAnswer
        BY <3>1 DEF OnAnswer, Accept
    <3>2. CASE LoseEvent \/ Userbot \/ Tick \/ Finished \/ UNCHANGED vars
        BY <3>2 DEF LoseEvent, Userbot, Tick, Finished, vars
    <3> QED BY <1>5, <3>1, <3>2
  <2>3. Returned <= asked
      BY <1>2, <2>1, <2>2 DEF PollSeesWindow
  <2> QED BY <1>2, <2>1, <2>2, <2>3
<1>6. CASE \/ Sent \/ SendFails \/ Wake \/ KeepWaiting \/ Fetched
           \/ PollReconnects \/ PollFails \/ Reconnected \/ ReconnectFails
  <2>1. pc' \in {"waiting", "returned", "raised", "reconnecting"}
      BY <1>6, IterateOutcome DEF Sent, SendFails, Wake, KeepWaiting, Fetched,
         PollReconnects, PollFails, Reconnected, ReconnectFails
  <2> QED BY <2>1
<1> QED BY <1>3, <1>4, <1>5, <1>6 DEF Next, SendCommand

LEMMA ForwardInit == Init => FInv
<1> SUFFICES ASSUME Init PROVE FInv
    OBVIOUS
<1>1. TypeOK /\ Timing
    BY TypeInit, TimingInit
<1>2. Returned = 0 /\ done = 0 /\ seen = {} /\ inbox = {} /\ last = "" /\ pc = "sending"
    BY DEF Init, Returned
<1>3. Ahead
  <2>1. Returned <= done
    <3>1. 0 <= 0
        OBVIOUS
    <3> QED BY ONLY <1>2, <3>1, Zenon
  <2>2. \A i \in inbox : i > Returned
      BY <1>2
  <2>3. \A k \in Steps : Script[k].text \in seen => k <= Returned
      BY <1>2
  <2> QED BY <1>2, <2>1, <2>2, <2>3 DEF Ahead
<1>4. PollSeesWindow
    BY <1>2 DEF PollSeesWindow
<1> QED BY <1>1, <1>3, <1>4 DEF FInv

LEMMA ForwardStep ==
    ASSUME EditsOnly, InOrder, FInv, [Next]_vars
    PROVE  FInv'
<1>1. TypeOK /\ Timing /\ Ahead /\ PollSeesWindow
    BY DEF FInv
<1>2. TypeOK' /\ Timing'
    BY <1>1, TypeStep, TimingStep
<1>3. Ahead' /\ PollSeesWindow'
    BY <1>1, AheadStep, PollSeesStep
<1> QED BY <1>2, <1>3 DEF FInv

(* Of a userbot that edits the command, over a connection whose answers do *)
(* not overtake its updates, the window never goes back to an older text,  *)
(* whatever events are lost, late or handled during a poll (_accept: "must *)
(* not regress the state machine").                                        *)
THEOREM OnlyForward ==
    ASSUME EditsOnly, InOrder
    PROVE  Spec => NoRegress
<1> DEFINE Newer ==
      \A i \in Steps : last = Script[i].text /\ last' # last
          => \E j \in Steps : j > i /\ last' = Script[j].text
<1>1. FInv /\ [Next]_vars => FInv'
    BY ForwardStep
<1>2. FInv /\ [Next]_vars => [Newer]_vars
  <2> SUFFICES ASSUME FInv, [Next]_vars, NEW i \in Steps,
                      last = Script[i].text, last' # last
               PROVE  \E j \in Steps : j > i /\ last' = Script[j].text
      OBVIOUS
  <2>1. TypeOK /\ TakesNewer
      BY MovesOn DEF FInv
  <2>2. i = Returned
      BY <2>1, ReturnedIs
  <2>3. PICK j \in 1 .. done : j > Returned /\ last' = Script[j].text
      BY <2>1 DEF TakesNewer
  <2>4. j \in Steps
      BY <2>1, StepsDone, LenIsNat DEF Steps
  <2> QED BY <2>2, <2>3, <2>4
<1> QED BY <1>1, <1>2, ForwardInit, PTL DEF Spec, NoRegress

-----------------------------------------------------------------------------
(* When a text is taken: now, and only while the future is not set.        *)
TakesNow == lastAt' = now /\ fut' = TRUE /\ ~fut

LEMMA AcceptTakesNow ==
    ASSUME NEW text, Accept(text), fut \in BOOLEAN
    PROVE  UNCHANGED window \/ TakesNow
BY DEF Accept, TakesNow

LEMMA TakenLatelyStep ==
    ASSUME TypeOK, Timing, TakenLately, [Next]_vars
    PROVE  TakenLately'
<1>0. /\ now \in Nat /\ due \in Nat /\ lastAt \in Nat /\ MaxPoll \in Nat
      /\ fut \in BOOLEAN
    BY Times DEF TypeOK
<1>i. ASSUME now' = now, pc' \in Over \/ (pc' = "waiting" /\ due' = now + 1)
      PROVE  TakenLately'
    BY <1>i, <1>0 DEF TakenLately, Over
<1>1. CASE Sent \/ SendFails \/ ReconnectFails
  <2>1. now' = now /\ (pc' \in Over \/ (pc' = "waiting" /\ due' = now + 1))
      BY <1>1 DEF Sent, SendFails, ReconnectFails, Over
  <2> QED BY <1>i, <2>1
<1>2. CASE Wake \/ KeepWaiting \/ Fetched \/ PollFails \/ Reconnected
  <2>1. now' = now /\ (Iterate \/ SettleOrIterate)
      BY <1>2 DEF Wake, KeepWaiting, Fetched, PollFails, Reconnected
  <2>2. pc' \in Over \/ (pc' = "waiting" /\ due' = now + 1)
      BY <2>1, IterateOutcome DEF Over
  <2> QED BY <1>i, <2>1, <2>2
<1>3. CASE Poll
  <2>1. /\ pc = "waiting" /\ now = due /\ pc' = "listing" /\ due' = now + MaxPoll
        /\ now' = now /\ fut' = fut /\ lastAt' = lastAt
      BY <1>3 DEF Poll, window
  <2> QED BY <1>0, <2>1 DEF TakenLately
<1>4. CASE PollReconnects
    BY <1>4 DEF PollReconnects, TakenLately
<1>5. CASE Listed
  <2>1. UNCHANGED window \/ TakesNow
      BY <1>0, <1>5, AcceptTakesNow DEF Listed
  <2>2. /\ pc = "listing" /\ pc' = "fetching" /\ due' = now + MaxPoll /\ now' = now
        /\ now <= due
      BY <1>5 DEF Listed, Timing
  <2>3. CASE UNCHANGED window
      BY <1>0, <2>2, <2>3 DEF TakenLately, window
  <2>4. CASE TakesNow
      BY <1>0, <2>2, <2>4 DEF TakenLately, TakesNow
  <2> QED BY <2>1, <2>3, <2>4
<1>6. CASE OnAnswer
  <2>1. UNCHANGED window \/ TakesNow
      BY <1>0, <1>6, AcceptTakesNow DEF OnAnswer
  <2>2. UNCHANGED <<pc, due, now>>
      BY <1>6 DEF OnAnswer
  <2>3. CASE UNCHANGED window
      BY <1>0, <2>2, <2>3 DEF TakenLately, window
  <2>4. CASE TakesNow
      BY <1>0, <2>2, <2>4 DEF TakenLately, TakesNow
  <2> QED BY <2>1, <2>3, <2>4
<1>7. CASE Tick
    BY <1>0, <1>7 DEF Tick, TakenLately, window
<1>8. CASE LoseEvent \/ Userbot \/ Finished \/ UNCHANGED vars
    BY <1>8 DEF LoseEvent, Userbot, Finished, vars, TakenLately, window
<1> QED BY <1>1, <1>2, <1>3, <1>4, <1>5, <1>6, <1>7, <1>8 DEF Next, SendCommand

LEMMA UnaskedStep ==
    ASSUME TypeOK, TakenLately, UnaskedIsNew, [Next]_vars
    PROVE  UnaskedIsNew'
<1>0. done \in Nat /\ postedAt \in [Steps -> Nat] /\ Steps \subseteq Nat
  <2>1. Steps \subseteq Nat
      BY LenIsNat DEF Steps
  <2>2. postedAt \in [Steps -> Nat]
      BY DEF TypeOK
  <2> QED BY <2>1, <2>2, StepsDone
<1>1. CASE Listed
    BY <1>0, <1>1 DEF Listed, chat, UnaskedIsNew
<1>2. CASE Userbot
  <2> SUFFICES ASSUME pc' = "fetching", NEW i \in Steps, asked' < i, i <= done'
               PROVE  due' <= postedAt'[i] + MaxPoll
      BY DEF UnaskedIsNew
  <2>1. /\ pc = "fetching" /\ done' = done + 1 /\ UNCHANGED <<asked, due>>
        /\ postedAt' = [postedAt EXCEPT ![done + 1] = now]
      BY <1>2 DEF Userbot
  <2>2. due <= now + MaxPoll
      BY <2>1 DEF TakenLately
  <2>3. CASE i = done + 1
      BY <1>0, <2>1, <2>2, <2>3
  <2>4. CASE i # done + 1
    <3>1. i <= done
        BY <1>0, <2>1, <2>4
    <3>2. due <= postedAt[i] + MaxPoll
        BY <2>1, <3>1 DEF UnaskedIsNew
    <3> QED BY <1>0, <2>1, <2>4, <3>2
  <2> QED BY <2>3, <2>4
<1>3. CASE \/ Sent \/ SendFails \/ Wake \/ KeepWaiting \/ Poll \/ Fetched
           \/ PollReconnects \/ PollFails \/ Reconnected \/ ReconnectFails
  <2>1. pc' # "fetching"
      BY <1>3, IterateOutcome DEF Sent, SendFails, Wake, KeepWaiting, Poll, Fetched,
         PollReconnects, PollFails, Reconnected, ReconnectFails
  <2> QED BY <2>1 DEF UnaskedIsNew
<1>4. CASE OnAnswer \/ LoseEvent \/ Tick \/ Finished \/ UNCHANGED vars
    BY <1>4 DEF OnAnswer, LoseEvent, Tick, Finished, vars, chat, UnaskedIsNew
<1> QED BY <1>1, <1>2, <1>3, <1>4 DEF Next, SendCommand

LEMMA ReconnectStep ==
    ASSUME ReconnectMeansFailed, [Next]_vars
    PROVE  ReconnectMeansFailed'
BY IterateOutcome
   DEF ReconnectMeansFailed, Next, SendCommand, Sent, SendFails, Wake, KeepWaiting, Poll,
       Listed, Fetched, PollReconnects, PollFails, Reconnected, ReconnectFails, OnAnswer,
       LoseEvent, Userbot, Tick, Finished, vars

(* A poll that does not move a window whose future is not set has shown    *)
(* nothing newer than the answer: what is missed came after it left.       *)
LEMMA PollShowsOlder ==
    ASSUME EditsOnly, InOrder, FInv, Fetched, UNCHANGED window, ~fut,
           NEW i \in 1 .. done, i > Returned, Script[i].text # "command"
    PROVE  i > asked
<1>1. TypeOK /\ Ahead
    BY DEF FInv
<1>2. PICK s \in Snapshots : Accept(CommandText(s))
    BY DEF Fetched
<1>3. s \in Nat /\ s <= done /\ asked \in Nat /\ asked <= s /\ done \in Nat
  <2>1. asked \in 0 .. done /\ s \in asked .. done
      BY <1>1 DEF Snapshots, TypeOK
  <2> QED BY <1>1, <2>1, StepsDone
<1>4. i \in Nat /\ Returned \in Nat
  <2>1. i \in Nat
      BY <1>3
  <2> QED BY <1>1, <2>1, ReturnedIs
<1> SUFFICES ASSUME i <= asked PROVE FALSE
    BY <1>3, <1>4
<1>5. i \in 1 .. s
    BY <1>3, <1>4
<1>6. PICK j \in 1 .. s :
         /\ CommandText(s) = Script[j].text /\ Script[j].text # "command"
         /\ i <= j
    BY <1>1, <1>5, CommandShowsNewest
<1>7. j \in Steps /\ j \in Nat
    BY <1>1, <1>3, StepsDone, LenIsNat DEF Steps
<1>8. Script[j].text \in seen
    BY <1>1, <1>2, <1>6 DEF Accept, window, TypeOK
<1>9. j <= Returned
    BY <1>1, <1>7, <1>8 DEF Ahead
<1> QED BY <1>4, <1>6, <1>7, <1>9

(* Where a poll is shorter than half of quiet, a poll that settles has not *)
(* taken a text and no event has since it began: it has looked at the      *)
(* command and found nothing newer than the answer.                        *)
LEMMA SettlesOnNewest ==
    ASSUME EditsOnly, InOrder, 2 * MaxPoll < Quiet,
           FInv, TakenLately, UnaskedIsNew,
           Fetched, pc' = "returned", now < deadline
    PROVE  \A i \in Missed' : now - postedAt[i] < Quiet
<1>1. TypeOK /\ Timing /\ Ahead
    BY DEF FInv
<1>2. /\ now \in Nat /\ due \in Nat /\ lastAt \in Nat /\ MaxPoll \in Nat
      /\ Quiet \in Nat \ {0} /\ fut \in BOOLEAN /\ postedAt \in [Steps -> Nat]
    BY <1>1, Times, SettleAssumption DEF TypeOK, SettleAssumption
<1>3. PICK s \in Snapshots : Accept(CommandText(s))
    BY DEF Fetched
<1>4. s \in Nat /\ s <= done /\ asked \in Nat /\ asked <= s /\ done \in Nat
  <2>1. asked \in 0 .. done /\ s \in asked .. done
      BY <1>1 DEF Snapshots, TypeOK
  <2> QED BY <1>1, <2>1, StepsDone
<1>5. pc = "fetching" /\ now <= due /\ UNCHANGED chat
    BY <1>1 DEF Fetched, Timing
<1>6. now - lastAt' >= Quiet
    BY DEF Fetched, SettleOrIterate, Iterate
<1>7. UNCHANGED window
  <2>1. ~TakesNow
      BY <1>2, <1>6 DEF TakesNow
  <2> QED BY <1>2, <1>3, <2>1, AcceptTakesNow
<1>8. ~fut
  <2> SUFFICES ASSUME fut PROVE FALSE
      OBVIOUS
  <2>1. due <= lastAt + 2 * MaxPoll
      BY <1>5 DEF TakenLately
  <2>2. now - lastAt >= Quiet
      BY <1>6, <1>7 DEF window
  <2> QED BY <1>2, <1>5, <2>1, <2>2
<1>9. Returned' = Returned /\ Returned \in Nat
    BY <1>1, <1>7, ReturnedIs DEF window, Returned
<1>10. ASSUME NEW i \in 1 .. done, i > Returned, Script[i].text # "command"
       PROVE  now - postedAt[i] < Quiet
  <2>1. i \in Steps /\ i \in Nat /\ postedAt[i] \in Nat
      BY <1>1, <1>2, <1>4, StepsDone, LenIsNat DEF Steps
  <2>2. i > asked
      BY <1>7, <1>8, <1>10, PollShowsOlder
  <2>3. due <= postedAt[i] + MaxPoll
    <3>1. i <= done
        BY <1>4
    <3> QED BY <1>5, <2>1, <2>2, <3>1 DEF UnaskedIsNew
  <2>4. now <= postedAt[i] + MaxPoll
      BY <1>2, <1>5, <2>1, <2>3
  <2> QED BY <1>2, <2>1, <2>4
<1>11. Missed' = {i \in 1 .. done : i > Returned /\ Script[i].text # "command"}
    BY <1>5, <1>9 DEF Missed, chat
<1> QED BY <1>10, <1>11

LEMMA QuietInit == Init => QInv
<1> SUFFICES ASSUME Init PROVE QInv
    OBVIOUS
<1>1. pc = "sending" /\ FInv
    BY ForwardInit DEF Init
<1> QED BY <1>1 DEF QInv, TakenLately, UnaskedIsNew, ReconnectMeansFailed,
                    QuietBeforeSettle

LEMMA QuietStep ==
    ASSUME EditsOnly, InOrder, 2 * MaxPoll < Quiet, QInv, [Next]_vars
    PROVE  QInv'
<1>1. /\ FInv /\ TypeOK /\ Timing /\ TakenLately /\ UnaskedIsNew
      /\ ReconnectMeansFailed /\ QuietBeforeSettle
    BY DEF QInv, FInv
<1>2. FInv' /\ TakenLately' /\ UnaskedIsNew' /\ ReconnectMeansFailed'
    BY <1>1, ForwardStep, TakenLatelyStep, UnaskedStep, ReconnectStep
<1>3. QuietBeforeSettle'
  <2> SUFFICES ASSUME pc' = "returned", now' < deadline', ~failed'
               PROVE  \A i \in Missed' : now' - postedAt'[i] < Quiet
      BY DEF QuietBeforeSettle
  <2>1. CASE Fetched
    <3>1. UNCHANGED <<now, deadline, postedAt>>
        BY <2>1 DEF Fetched, chat
    <3>2. \A i \in Missed' : now - postedAt[i] < Quiet
        BY <1>1, <2>1, <3>1, SettlesOnNewest
    <3> QED BY <3>1, <3>2
  <2>2. CASE PollFails \/ Reconnected
      BY <1>1, <2>2 DEF PollFails, Reconnected, ReconnectMeansFailed
  <2>3. CASE Wake \/ KeepWaiting
    <3>1. Iterate /\ UNCHANGED <<now, deadline>>
        BY <2>3 DEF Wake, KeepWaiting
    <3> QED BY <3>1 DEF Iterate
  <2>4. CASE Sent
    <3>1. Wait = 0 /\ now' = now /\ deadline' = now + Wait
        BY <2>4, Times DEF Sent
    <3>2. now \in Nat
        BY <1>1 DEF TypeOK
    <3> QED BY <3>1, <3>2
  <2>5. CASE SendFails \/ Poll \/ Listed \/ PollReconnects \/ ReconnectFails
      BY <2>5 DEF SendFails, Poll, Listed, PollReconnects, ReconnectFails
  <2>6. CASE OnAnswer \/ LoseEvent \/ Userbot \/ Tick
      BY <2>6 DEF OnAnswer, LoseEvent, Userbot, Tick, Active, Over
  <2>7. CASE Finished \/ UNCHANGED vars
    <3>1. /\ UNCHANGED <<pc, now, deadline, failed, postedAt, done, last>>
        BY <2>7 DEF Finished, vars, window, chat
    <3>2. Missed' = Missed
        BY <3>1 DEF Missed, Returned
    <3> QED BY <1>1, <3>1, <3>2 DEF QuietBeforeSettle
  <2> QED BY <2>1, <2>2, <2>3, <2>4, <2>5, <2>6, <2>7 DEF Next, SendCommand
<1> QED BY <1>2, <1>3 DEF QInv

(* Of a userbot that edits the command, a call that settles returns the    *)
(* newest text, or one that was newest less than quiet ago, whatever       *)
(* events are lost (send_command: "settled after this many seconds without *)
(* a newer one"): as long as the requests of a poll take less than half of *)
(* quiet.  A slower poll may settle on a text taken while it was out.      *)
THEOREM SettlesQuiet ==
    ASSUME EditsOnly, InOrder, 2 * MaxPoll < Quiet
    PROVE  Spec => []QuietBeforeSettle
<1>1. QInv /\ [Next]_vars => QInv'
    BY QuietStep
<1>2. QInv => QuietBeforeSettle
    BY DEF QInv
<1> QED BY <1>1, <1>2, QuietInit, PTL DEF Spec

-----------------------------------------------------------------------------
(* When a text that the call has missed got its last chance so far: when   *)
(* it appeared, or when the call took another.                             *)
Since(i) == IF postedAt[i] > lastAt THEN postedAt[i] ELSE lastAt

(* No clock runs ahead of the loop by more than its await.                 *)
Clocks ==
    /\ lastAt <= now /\ \A i \in Steps : postedAt[i] <= now
    /\ nextPoll <= now + PollEvery
    /\ pc = "sending" => now = 0 /\ nextPoll = 0
    /\ pc = "waiting" => due <= now + 1

(* What a poll leaves for the next one was taken, or appeared, after it    *)
(* began.                                                                  *)
PollLeaves ==
    /\ pc = "waiting" /\ fut => now <= lastAt + 2 * MaxPoll
    /\ pc \in {"listing", "fetching"} /\ fut => nextPoll <= lastAt + PollEvery
    /\ pc = "fetching" =>
         \A i \in Steps : asked < i /\ i <= done => nextPoll <= postedAt[i] + PollEvery

(* So a poll follows within a period of t, and ends within a round: in     *)
(* terms of pc, now, due and nextPoll.                                     *)
ComesBy(at, time, until, next, t) ==
    /\ at = "waiting" => next <= t + PollEvery /\ until <= t + Period
    /\ at = "listing" => until <= t + Period + MaxPoll
    /\ at = "fetching" => until <= t + Round
    /\ at \in Over => time <= t + Round

NextPollComes == \A i \in Missed : ComesBy(pc, now, due, nextPoll, Since(i))

(* Each text that was taken has cost a round at most.                      *)
RoundsCounted ==
    \A i \in Missed : lastAt <= postedAt[i] + Round * Cardinality(seen)

NetInv ==
    /\ FInv /\ TakenLately /\ UnaskedIsNew /\ ReconnectMeansFailed /\ Clocks
    /\ ~failed => PollLeaves /\ NextPollComes /\ RoundsCounted

LEMMA RoundsAreTimes ==
    /\ Period \in Nat /\ Round \in Nat /\ MaxPoll \in Nat /\ PollEvery \in Nat
    /\ Period >= PollEvery /\ Period >= 2 * MaxPoll + 1 /\ Period >= 1
    /\ Round = Period + 2 * MaxPoll
<1>1. MaxPoll \in Nat /\ PollEvery \in Nat /\ PollEvery >= 1
  <2>1. PollEvery \in Nat \ {0}
      BY SettleAssumption DEF SettleAssumption
  <2> QED BY <2>1, Times
<1>2. Period \in Nat /\ Period >= PollEvery /\ Period >= 2 * MaxPoll + 1
    BY <1>1 DEF Period
<1>3. Round = Period + 2 * MaxPoll /\ Round \in Nat
    BY <1>1, <1>2 DEF Round
<1> QED BY <1>1, <1>2, <1>3

(* What the proofs use of a text that was missed, and of the state.        *)
LEMMA MissedIs ==
    ASSUME TypeOK, NEW i \in Missed
    PROVE  /\ i \in 1 .. done /\ i \in Steps /\ i \in Nat
           /\ i > Returned /\ Script[i].text # "command"
           /\ postedAt[i] \in Nat /\ lastAt \in Nat /\ Since(i) \in Nat
           /\ postedAt[i] <= Since(i) /\ lastAt <= Since(i)
           /\ Since(i) \in {postedAt[i], lastAt}
<1>1. i \in 1 .. done /\ i > Returned /\ Script[i].text # "command"
    BY DEF Missed
<1>2. i \in Steps /\ i \in Nat
    BY <1>1, StepsDone, LenIsNat DEF Steps
<1>3. postedAt[i] \in Nat /\ lastAt \in Nat
    BY <1>2 DEF TypeOK
<1>4. /\ Since(i) \in Nat /\ postedAt[i] <= Since(i) /\ lastAt <= Since(i)
      /\ Since(i) \in {postedAt[i], lastAt}
    BY <1>3 DEF Since
<1> QED BY <1>1, <1>2, <1>3, <1>4

(* A step leaves the window alone, but for the future it may renew, or     *)
(* takes a text now.                                                       *)
TakesText == TakesNow /\ \E text \in Texts \ seen : seen' = seen \cup {text}

LEMMA TextsAreTaken ==
    ASSUME TypeOK, [Next]_vars
    PROVE  \/ UNCHANGED <<last, seen, lastAt>> /\ (fut' => fut)
           \/ TakesText /\ UNCHANGED chat
<1>0. fut \in BOOLEAN
    BY DEF TypeOK
<1>1. ASSUME NEW text, Accept(text), Follows
      PROVE  UNCHANGED window \/ TakesText
  <2>1. CASE text = "command" \/ text \in seen \/ fut
      BY <1>1, <2>1 DEF Accept
  <2>2. CASE ~(text = "command" \/ text \in seen \/ fut)
    <3>1. /\ seen' = seen \cup {text} /\ last' = text /\ lastAt' = now /\ fut' = TRUE
          /\ ~fut /\ text \notin seen
        BY <1>1, <2>2 DEF Accept
    <3>2. text \in Texts
      <4>1. PICK i \in 1 .. done : text = Script[i].text
          BY <1>1, <3>1 DEF Follows, Takes
      <4>2. i \in Steps
          BY StepsDone, LenIsNat DEF Steps
      <4> QED BY <4>1, <4>2 DEF Texts
    <3> QED BY <3>1, <3>2 DEF TakesText, TakesNow
  <2> QED BY <2>1, <2>2
<1>f. Follows
    BY WindowFollows
<1>u. UNCHANGED window => UNCHANGED <<last, seen, lastAt>> /\ (fut' => fut)
    BY DEF window
<1>2. CASE OnAnswer
  <2>1. UNCHANGED window \/ \E text : Accept(text)
      BY <1>2 DEF OnAnswer
  <2>2. UNCHANGED chat
      BY <1>2 DEF OnAnswer
  <2> QED BY <1>1, <1>f, <1>u, <2>1, <2>2
<1>3. CASE Listed \/ Fetched
  <2>1. UNCHANGED window \/ \E text : Accept(text)
    <3>1. CASE Listed
        BY <3>1 DEF Listed
    <3>2. CASE Fetched
        BY <3>2 DEF Fetched
    <3> QED BY <1>3, <3>1, <3>2
  <2>2. UNCHANGED chat
      BY <1>3 DEF Listed, Fetched
  <2> QED BY <1>1, <1>f, <1>u, <2>1, <2>2
<1>4. CASE Wake
    BY <1>4 DEF Wake
<1>5. CASE \/ Sent \/ SendFails \/ KeepWaiting \/ Poll
           \/ PollReconnects \/ PollFails \/ Reconnected \/ ReconnectFails
           \/ LoseEvent \/ Userbot \/ Tick \/ Finished \/ UNCHANGED vars
  <2>1. UNCHANGED window
      BY <1>5 DEF Sent, SendFails, KeepWaiting, Poll, PollReconnects, PollFails,
         Reconnected, ReconnectFails, LoseEvent, Userbot, Tick, Finished, vars
  <2> QED BY <1>u, <2>1
<1> QED BY <1>2, <1>3, <1>4, <1>5 DEF Next, SendCommand

(* Only the userbot adds to what is missed, and only its newest step; the  *)
(* last chance of a text never moves back.                                 *)
LEMMA MissedShrinks ==
    ASSUME EditsOnly, InOrder, FInv, Clocks, [Next]_vars, UNCHANGED chat
    PROVE  /\ Missed' \subseteq Missed
           /\ \A i \in Missed' : Since(i)' >= Since(i)
<1>0. TypeOK
    BY DEF FInv
<1>1. TakesNewer
    BY MovesOn DEF FInv
<1>2. Returned \in Nat /\ Returned' >= Returned /\ Returned' \in Nat
  <2>0. Returned \in Nat /\ done \in Nat
      BY <1>0, ReturnedIs, StepsDone
  <2>1. CASE UNCHANGED <<last, seen>>
    <3>1. Returned' = Returned
        BY <2>1 DEF Returned
    <3> QED BY <2>0, <3>1
  <2>2. CASE ~UNCHANGED <<last, seen>>
    <3>1. PICK j \in 1 .. done : Returned' = j /\ j > Returned
        BY <1>1, <2>2 DEF TakesNewer
    <3> QED BY <2>0, <3>1
  <2> QED BY <2>1, <2>2
<1>3. Missed' \subseteq Missed
  <2> SUFFICES ASSUME NEW i \in Missed' PROVE i \in Missed
      OBVIOUS
  <2>1. i \in 1 .. done /\ i > Returned' /\ Script[i].text # "command"
      BY DEF Missed, chat
  <2>2. i > Returned
      BY <1>0, <1>2, <2>1, StepsDone
  <2> QED BY <2>1, <2>2 DEF Missed
<1>4. ASSUME NEW i \in Missed PROVE Since(i)' >= Since(i)
  <2>1. lastAt' >= lastAt /\ lastAt' \in Nat
    <3>1. now \in Nat /\ lastAt \in Nat /\ lastAt <= now
        BY <1>0 DEF TypeOK, Clocks
    <3>2. lastAt' = lastAt \/ lastAt' = now
        BY <1>0, TextsAreTaken DEF TakesText, TakesNow
    <3> QED BY <3>1, <3>2
  <2>2. postedAt[i] \in Nat /\ lastAt \in Nat
      BY <1>0, MissedIs
  <2>3. postedAt' = postedAt
      BY DEF chat
  <2> QED BY <2>1, <2>2, <2>3 DEF Since
<1> QED BY <1>3, <1>4

LEMMA ClocksStep ==
    ASSUME TypeOK, Timing, Clocks, [Next]_vars
    PROVE  Clocks'
<1>0. /\ now \in Nat /\ due \in Nat /\ lastAt \in Nat /\ nextPoll \in Nat
      /\ PollEvery \in Nat /\ done \in Nat
      /\ postedAt \in [Steps -> Nat]
    BY Times, StepsDone DEF TypeOK
<1>1. lastAt' <= now /\ lastAt' \in Nat
  <2>1. lastAt' = lastAt \/ lastAt' = now
      BY TextsAreTaken DEF TakesText, TakesNow
  <2> QED BY <1>0, <2>1 DEF Clocks
<1>2. /\ now' = now \/ (now' = now + 1 /\ Tick)
      /\ nextPoll' = nextPoll \/ nextPoll' = now + PollEvery
      /\ pc' = "sending" => pc = "sending" /\ ~Tick /\ nextPoll' = nextPoll
      /\ pc' = "waiting" => due' = now + 1 \/ (pc = "waiting" /\ due' = due)
  <2>1. CASE \/ Sent \/ SendFails \/ Wake \/ KeepWaiting \/ Poll \/ Listed \/ Fetched
             \/ PollReconnects \/ PollFails \/ Reconnected \/ ReconnectFails
    <3>1. now' = now /\ ~(pc' = "sending")
        BY <2>1, IterateOutcome DEF Sent, SendFails, Wake, KeepWaiting, Poll, Listed,
           Fetched, PollReconnects, PollFails, Reconnected, ReconnectFails
    <3>2. nextPoll' = nextPoll \/ nextPoll' = now + PollEvery
        BY <2>1 DEF Sent, SendFails, Wake, KeepWaiting, Poll, Listed, Fetched,
           PollReconnects, PollFails, Reconnected, ReconnectFails
    <3>3. pc' = "waiting" => due' = now + 1
        BY <2>1, IterateOutcome DEF Sent, SendFails, Wake, KeepWaiting, Poll, Listed,
           Fetched, PollReconnects, PollFails, Reconnected, ReconnectFails
    <3> QED BY <3>1, <3>2, <3>3
  <2>2. CASE Tick
      BY <2>2 DEF Tick
  <2>3. CASE OnAnswer \/ LoseEvent \/ Userbot \/ Finished \/ UNCHANGED vars
    <3>1. UNCHANGED <<pc, now, due, nextPoll>>
        BY <2>3 DEF OnAnswer, LoseEvent, Userbot, Finished, vars
    <3>2. pc = "sending" => ~Tick
        BY DEF Tick
    <3> QED BY <3>1, <3>2
  <2> QED BY <2>1, <2>2, <2>3 DEF Next, SendCommand
<1>3. now' \in Nat /\ now' >= now
    BY <1>0, <1>2
<1>4. \A i \in Steps : postedAt'[i] <= now
  <2>1. CASE Userbot
      BY <1>0, <2>1 DEF Userbot, Clocks
  <2>2. CASE ~Userbot
    <3>1. postedAt' = postedAt
        BY <2>2 DEF Next, SendCommand, Sent, SendFails, Wake, KeepWaiting, Poll, Listed,
           Fetched, PollReconnects, PollFails, Reconnected, ReconnectFails, OnAnswer,
           LoseEvent, Tick, Finished, vars, chat
    <3> QED BY <3>1 DEF Clocks
  <2> QED BY <2>1, <2>2
<1>5. \A i \in Steps : postedAt'[i] <= now'
  <2>1. postedAt' \in [Steps -> Nat]
      BY TypeStep DEF TypeOK
  <2> QED BY <1>0, <1>3, <1>4, <2>1
<1>6. lastAt' <= now'
    BY <1>0, <1>1, <1>3
<1>7. nextPoll' <= now' + PollEvery
    BY <1>0, <1>2, <1>3 DEF Clocks
<1>8. pc' = "sending" => now' = 0 /\ nextPoll' = 0
    BY <1>2 DEF Clocks
<1>9. pc' = "waiting" => due' <= now' + 1
  <2>1. PICK n : n = now'
      OBVIOUS
  <2>2. n \in Nat /\ now <= n
      BY <1>0, <1>3, <2>1
  <2>3. due' = now + 1 => due' <= n + 1
      BY <1>0, <2>2
  <2>4. pc = "waiting" /\ due' = due => due' <= n + 1
      BY <1>0, <2>2 DEF Clocks
  <2> QED BY <1>2, <2>1, <2>3, <2>4
<1> QED BY <1>5, <1>6, <1>7, <1>8, <1>9 DEF Clocks

LEMMA PollLeavesStep ==
    ASSUME TypeOK, Timing, TakenLately, ReconnectMeansFailed, Clocks,
           PollLeaves, ~failed', [Next]_vars
    PROVE  PollLeaves'
<1>0. /\ now \in Nat /\ due \in Nat /\ lastAt \in Nat /\ nextPoll \in Nat
      /\ PollEvery \in Nat /\ MaxPoll \in Nat /\ done \in Nat /\ fut \in BOOLEAN
      /\ postedAt \in [Steps -> Nat]
    BY Times, StepsDone DEF TypeOK
<1>s. Steps \subseteq Nat
    BY LenIsNat DEF Steps
<1>t. (lastAt' = lastAt /\ (fut' => fut)) \/ TakesNow
    BY TextsAreTaken DEF TakesText
<1>n. nextPoll <= now + PollEvery /\ lastAt <= now
    BY DEF Clocks
<1>1. CASE Sent \/ SendFails \/ Wake \/ KeepWaiting \/ Fetched \/ ReconnectFails
  <2>1. now' = now /\ pc' \in {"waiting", "returned", "raised"}
      BY <1>1, IterateOutcome DEF Sent, SendFails, Wake, KeepWaiting, Fetched,
         ReconnectFails
  <2> SUFFICES ASSUME pc' = "waiting", fut' PROVE now <= lastAt' + 2 * MaxPoll
      BY <2>1 DEF PollLeaves
  <2>2. CASE TakesNow
      BY <1>0, <2>2 DEF TakesNow
  <2>3. CASE lastAt' = lastAt /\ fut
    <3>1. CASE Sent
      <4>1. now = 0
          BY <3>1 DEF Sent, Clocks
      <4> QED BY <1>0, <2>3, <4>1
    <3>2. CASE Wake
        BY <3>2 DEF Wake
    <3>3. CASE KeepWaiting
      <4>1. pc = "waiting"
          BY <3>3 DEF KeepWaiting
      <4> QED BY <2>3, <4>1 DEF PollLeaves
    <3>4. CASE Fetched
      <4>1. now <= due /\ due <= lastAt + 2 * MaxPoll
          BY <2>3, <3>4 DEF Fetched, Timing, TakenLately
      <4> QED BY <1>0, <2>3, <4>1
    <3>5. ~SendFails /\ ~ReconnectFails
        BY DEF SendFails, ReconnectFails
    <3> QED BY <1>1, <3>1, <3>2, <3>3, <3>4, <3>5
  <2> QED BY <1>t, <2>2, <2>3
<1>2. CASE PollReconnects \/ PollFails \/ Reconnected
    BY <1>2 DEF PollReconnects, PollFails, Reconnected, ReconnectMeansFailed
<1>3. CASE Poll
  <2>1. /\ pc = "waiting" /\ now = due /\ pc' = "listing" /\ fut' = fut /\ lastAt' = lastAt
        /\ nextPoll' = now + PollEvery
      BY <1>3 DEF Poll, window
  <2>2. fut => lastAt = now
      BY <2>1 DEF TakenLately
  <2>3. fut' => nextPoll' <= lastAt' + PollEvery
      BY <1>0, <2>1, <2>2
  <2> QED BY <2>1, <2>3 DEF PollLeaves
<1>4. CASE Listed
  <2>1. /\ pc = "listing" /\ pc' = "fetching" /\ asked' = done /\ done' = done
        /\ nextPoll' = nextPoll
      BY <1>4 DEF Listed, chat
  <2>2. fut' => nextPoll' <= lastAt' + PollEvery
    <3>1. CASE TakesNow
        BY <1>0, <1>n, <2>1, <3>1 DEF TakesNow
    <3>2. CASE lastAt' = lastAt /\ (fut' => fut)
        BY <2>1, <3>2 DEF PollLeaves
    <3> QED BY <1>t, <3>1, <3>2
  <2>3. \A i \in Steps : ~(asked' < i /\ i <= done')
      BY <1>0, <1>s, <2>1
  <2> QED BY <2>1, <2>2, <2>3 DEF PollLeaves
<1>5. CASE OnAnswer \/ LoseEvent \/ Tick \/ Finished \/ UNCHANGED vars
  <2>1. /\ pc' = pc /\ nextPoll' = nextPoll /\ asked' = asked /\ UNCHANGED chat
        /\ now' = now \/ (Tick /\ fut' = fut)
      BY <1>5 DEF OnAnswer, LoseEvent, Tick, Finished, vars, window
  <2>2. pc = "waiting" /\ fut' => now' <= lastAt' + 2 * MaxPoll
    <3>1. CASE TakesNow
      <4>1. now' = now /\ lastAt' = now
          BY <2>1, <3>1 DEF TakesNow
      <4> QED BY <1>0, <4>1
    <3>2. CASE lastAt' = lastAt /\ (fut' => fut)
      <4>1. pc = "waiting" /\ fut => now' = now
          BY <2>1 DEF Tick
      <4> QED BY <3>2, <4>1 DEF PollLeaves
    <3> QED BY <1>t, <3>1, <3>2
  <2>3. pc \in {"listing", "fetching"} /\ fut' => nextPoll <= lastAt' + PollEvery
    <3>1. CASE TakesNow
        BY <1>0, <1>n, <3>1 DEF TakesNow
    <3>2. CASE lastAt' = lastAt /\ (fut' => fut)
        BY <3>2 DEF PollLeaves
    <3> QED BY <1>t, <3>1, <3>2
  <2> QED BY <2>1, <2>2, <2>3 DEF PollLeaves, chat
<1>6. CASE Userbot
  <2>1. /\ UNCHANGED <<pc, now, nextPoll, asked, fut, lastAt>>
        /\ done' = done + 1 /\ postedAt' = [postedAt EXCEPT ![done + 1] = now]
      BY <1>6 DEF Userbot, window
  <2>2. ASSUME pc = "fetching", NEW i \in Steps, asked < i, i <= done + 1
        PROVE  nextPoll <= postedAt'[i] + PollEvery
    <3>1. CASE i = done + 1
        BY <1>0, <1>n, <2>1, <2>2, <3>1
    <3>2. CASE i # done + 1
      <4>1. i <= done
          BY <1>0, <1>s, <2>2, <3>2
      <4>2. nextPoll <= postedAt[i] + PollEvery
          BY <2>2, <4>1 DEF PollLeaves
      <4> QED BY <1>0, <2>1, <2>2, <3>2, <4>2
    <3> QED BY <3>1, <3>2
  <2> QED BY <2>1, <2>2 DEF PollLeaves
<1> QED BY <1>1, <1>2, <1>3, <1>4, <1>5, <1>6 DEF Next, SendCommand

LEMMA ComesLater ==
    ASSUME NEW at, NEW time, NEW until, NEW next, NEW t \in Nat, NEW u \in Nat,
           t <= u, time \in Nat, until \in Nat, next \in Nat,
           ComesBy(at, time, until, next, t)
    PROVE  ComesBy(at, time, until, next, u)
BY RoundsAreTimes DEF ComesBy

(* Of a text that is new now, the poll is still to come.                   *)
LEMMA ComesAfterNow ==
    ASSUME NEW at, NEW time \in Nat, NEW until \in Nat, NEW next \in Nat, NEW t \in Nat,
           time <= t, next <= time + PollEvery,
           at = "waiting" => until <= time + 1,
           at \in {"listing", "fetching"} => until <= time + MaxPoll
    PROVE  ComesBy(at, time, until, next, t)
BY RoundsAreTimes DEF ComesBy

LEMMA NextPollStep ==
    ASSUME EditsOnly, InOrder, FInv, TakenLately, UnaskedIsNew, ReconnectMeansFailed,
           Clocks, PollLeaves, NextPollComes, ~failed, ~failed', [Next]_vars
    PROVE  NextPollComes'
<1>0. TypeOK /\ Timing /\ TypeOK' /\ Clocks' /\ TakenLately'
    BY TypeStep, ClocksStep, TakenLatelyStep DEF FInv
<1>1. /\ now \in Nat /\ due \in Nat /\ lastAt \in Nat /\ nextPoll \in Nat
      /\ PollEvery \in Nat /\ MaxPoll \in Nat /\ done \in Nat /\ fut \in BOOLEAN
      /\ postedAt \in [Steps -> Nat]
    BY <1>0, Times, StepsDone DEF TypeOK
<1>2. /\ now' \in Nat /\ due' \in Nat /\ nextPoll' \in Nat
      /\ now <= due \/ pc \notin {"waiting", "listing", "fetching"}
    BY <1>0 DEF TypeOK, Timing
<1>3. CASE Userbot
  <2>1. /\ UNCHANGED <<pc, now, due, nextPoll, last, lastAt>>
        /\ done' = done + 1 /\ postedAt' = [postedAt EXCEPT ![done + 1] = now]
        /\ pc \notin Over
      BY <1>3 DEF Userbot, window, Active
  <2> SUFFICES ASSUME NEW i \in Missed' PROVE ComesBy(pc, now, due, nextPoll, Since(i)')
      BY <2>1 DEF NextPollComes
  <2>2. i \in 1 .. done + 1 /\ i > Returned' /\ Script[i].text # "command"
      BY <2>1 DEF Missed
  <2>3. Returned' = Returned
      BY <2>1 DEF Returned
  <2>4. CASE i = done + 1
    <3>1. done + 1 \in Steps
        BY <1>0, <1>1, <1>3, LenIsNat DEF Userbot, Steps
    <3>2. postedAt'[i] = now
        BY <1>1, <2>1, <2>4, <3>1
    <3>3. Since(i)' \in Nat /\ now <= Since(i)'
        BY <1>1, <2>1, <3>2 DEF Since
    <3>4. /\ nextPoll <= now + PollEvery
          /\ pc = "waiting" => due <= now + 1
          /\ pc \in {"listing", "fetching"} => due <= now + MaxPoll
        BY DEF Clocks, TakenLately
    <3> QED BY <1>1, <3>3, <3>4, ComesAfterNow
  <2>5. CASE i # done + 1
    <3>1. i \in Missed
        BY <1>1, <2>2, <2>3, <2>5 DEF Missed
    <3>2. postedAt'[i] = postedAt[i]
        BY <1>0, <1>1, <2>1, <2>5, <3>1, MissedIs
    <3>3. Since(i)' = Since(i)
        BY <2>1, <3>2 DEF Since
    <3> QED BY <3>1, <3>3 DEF NextPollComes
  <2> QED BY <2>4, <2>5
<1>4. CASE ~Userbot
  <2>0. UNCHANGED chat
      BY <1>4 DEF Next, SendCommand, Sent, SendFails, Wake, KeepWaiting, Poll, Listed,
         Fetched, PollReconnects, PollFails, Reconnected, ReconnectFails, OnAnswer,
         LoseEvent, Tick, Finished, vars
  <2> SUFFICES ASSUME NEW i \in Missed' PROVE ComesBy(pc, now, due, nextPoll, Since(i))'
      BY DEF NextPollComes
  <2>1. i \in Missed /\ Since(i)' >= Since(i)
      BY <2>0, MissedShrinks
  <2>2. PICK t \in Nat : /\ t = Since(i) /\ lastAt <= t /\ postedAt[i] <= t
                         /\ postedAt[i] \in Nat
      BY <1>0, <2>1, MissedIs
  <2>3. PICK u \in Nat : u = Since(i)' /\ t <= u /\ lastAt' <= u
    <3>1. lastAt' \in Nat /\ postedAt' = postedAt
        BY <1>0, <2>0 DEF TypeOK, chat
    <3>2. Since(i)' \in Nat /\ lastAt' <= Since(i)'
        BY <2>2, <3>1 DEF Since
    <3> QED BY <2>1, <2>2, <3>2
  <2>4. ComesBy(pc, now, due, nextPoll, t)
      BY <2>1, <2>2 DEF NextPollComes
  <2> SUFFICES ComesBy(pc', now', due', nextPoll', u)
      BY <2>3
  <2>5. CASE UNCHANGED <<pc, due, nextPoll>> /\ (now' = now \/ pc \notin Over)
    <3>1. ComesBy(pc, now, due, nextPoll, u)
        BY <1>1, <2>3, <2>4, ComesLater
    <3> QED BY <2>5, <3>1 DEF ComesBy
  <2>6. CASE OnAnswer \/ LoseEvent \/ Tick \/ Finished \/ UNCHANGED vars
    <3>1. UNCHANGED <<pc, due, nextPoll>> /\ (now' = now \/ pc \notin Over)
        BY <2>6 DEF OnAnswer, LoseEvent, Tick, Finished, vars, Over
    <3> QED BY <2>5, <3>1
  <2>7. CASE PollReconnects \/ PollFails \/ Reconnected \/ ReconnectFails
      BY <2>7 DEF PollReconnects, PollFails, Reconnected, ReconnectFails,
         ReconnectMeansFailed
  <2>8. CASE Sent \/ SendFails
    <3>1. now = 0 /\ nextPoll = 0
        BY <2>8 DEF Sent, SendFails, Clocks
    <3>2. now' = 0 /\ nextPoll' = 0 /\ pc' \in {"waiting"} \cup Over
        BY <2>8, <3>1 DEF Sent, SendFails, Over
    <3>3. pc' = "waiting" => due' <= 1
        BY <1>0, <1>2, <3>2 DEF Clocks
    <3> QED BY <1>2, <3>2, <3>3, RoundsAreTimes DEF ComesBy, Over
  <2>9. CASE Wake
    <3>1. /\ pc = "waiting" /\ now <= lastAt + 2 * MaxPoll
          /\ nextPoll' = nextPoll /\ now' = now
        BY <2>9 DEF Wake, PollLeaves
    <3>2. (pc' = "waiting" /\ due' = now + 1) \/ pc' = "returned"
        BY <2>9, IterateOutcome DEF Wake
    <3>3. nextPoll <= t + PollEvery
        BY <2>4, <3>1 DEF ComesBy
    <3>4. now <= u + 2 * MaxPoll /\ nextPoll <= u + PollEvery
        BY <1>1, <2>2, <2>3, <3>1, <3>3
    <3>5. now + 1 <= u + Period /\ now <= u + Round
        BY <1>1, <3>4, RoundsAreTimes
    <3> QED BY <3>1, <3>2, <3>4, <3>5 DEF ComesBy, Over
  <2>10. CASE KeepWaiting
    <3>1. /\ pc = "waiting" /\ now < nextPoll /\ nextPoll' = nextPoll /\ now' = now
        BY <2>10 DEF KeepWaiting
    <3>2. (pc' = "waiting" /\ due' = now + 1) \/ pc' = "returned"
        BY <2>10, IterateOutcome DEF KeepWaiting
    <3>3. nextPoll <= t + PollEvery
        BY <2>4, <3>1 DEF ComesBy
    <3>4. nextPoll <= u + PollEvery
        BY <1>1, <2>3, <3>3
    <3>5. now + 1 <= u + Period /\ now <= u + Round
        BY <1>1, <3>1, <3>4, RoundsAreTimes
    <3> QED BY <3>1, <3>2, <3>4, <3>5 DEF ComesBy, Over
  <2>11. CASE Poll
    <3>1. pc = "waiting" /\ now = due /\ pc' = "listing" /\ due' = now + MaxPoll
        BY <2>11 DEF Poll
    <3>2. due <= t + Period
        BY <2>4, <3>1 DEF ComesBy
    <3>3. now + MaxPoll <= u + Period + MaxPoll
        BY <1>1, <2>3, <3>1, <3>2, RoundsAreTimes
    <3> QED BY <3>1, <3>3 DEF ComesBy, Over
  <2>12. CASE Listed
    <3>1. pc = "listing" /\ pc' = "fetching" /\ due' = now + MaxPoll
        BY <2>12 DEF Listed
    <3>2. now <= due /\ due <= t + Period + MaxPoll
        BY <1>2, <2>4, <3>1 DEF ComesBy
    <3>3. now + MaxPoll <= u + Round
        BY <1>1, <2>3, <3>2, RoundsAreTimes
    <3> QED BY <3>1, <3>3 DEF ComesBy, Over
  <2>13. CASE Fetched
    <3>1. pc = "fetching" /\ nextPoll' = nextPoll /\ now' = now /\ now <= due
        BY <1>2, <2>13 DEF Fetched
    <3>2. (pc' = "waiting" /\ due' = now + 1) \/ (pc' = "returned" /\ due' = due)
        BY <2>13, IterateOutcome DEF Fetched
    <3>3. PICK s \in Snapshots : Accept(CommandText(s))
        BY <2>13 DEF Fetched
    <3>4. CASE TakesNow
      <4>1. now <= u /\ nextPoll <= now + PollEvery
          BY <2>3, <3>4 DEF TakesNow, Clocks
      <4>2. nextPoll <= u + PollEvery /\ now + 1 <= u + Period /\ now <= u + Round
          BY <1>1, <4>1, RoundsAreTimes
      <4> QED BY <3>1, <3>2, <4>2 DEF ComesBy, Over
    <3>5. CASE UNCHANGED window
      <4>1. nextPoll <= u + PollEvery /\ now <= u + 2 * MaxPoll
        <5>1. CASE fut
          <6>1. nextPoll <= lastAt + PollEvery /\ due <= lastAt + 2 * MaxPoll
              BY <3>1, <5>1 DEF PollLeaves, TakenLately
          <6> QED BY <1>1, <2>2, <2>3, <3>1, <6>1
        <5>2. CASE ~fut
          <6>1. i \in 1 .. done /\ i > Returned /\ Script[i].text # "command"
              BY <2>1 DEF Missed
          <6>2. i > asked
              BY <2>13, <3>5, <5>2, <6>1, PollShowsOlder
          <6>3. i \in Steps /\ i <= done /\ asked < i
            <7>1. asked \in Nat /\ i \in Nat /\ i \in Steps
                BY <1>0, <2>1, MissedIs, RestFromType DEF RestOK
            <7> QED BY <1>1, <6>1, <6>2, <7>1
          <6>4. nextPoll <= postedAt[i] + PollEvery /\ due <= postedAt[i] + MaxPoll
              BY <3>1, <6>3 DEF PollLeaves, UnaskedIsNew
          <6> QED BY <1>1, <2>2, <2>3, <3>1, <6>4
        <5> QED BY <1>1, <5>1, <5>2
      <4>2. now + 1 <= u + Period /\ now <= u + Round
          BY <1>1, <4>1, RoundsAreTimes
      <4> QED BY <3>1, <3>2, <4>1, <4>2 DEF ComesBy, Over
    <3> QED BY <1>1, <3>3, <3>4, <3>5, AcceptTakesNow
  <2> QED BY <1>4, <2>6, <2>7, <2>8, <2>9, <2>10, <2>11, <2>12, <2>13
          DEF Next, SendCommand
<1> QED BY <1>3, <1>4

(* Until a poll has failed, what is missed got its last chance less than a *)
(* round ago.                                                              *)
LEMMA WithinRound ==
    ASSUME TypeOK, Timing, Clocks, ReconnectMeansFailed, NextPollComes, ~failed,
           NEW i \in Missed
    PROVE  now <= Since(i) + Round
<1>1. PICK t \in Nat : t = Since(i)
    BY MissedIs
<1>2. now \in Nat /\ due \in Nat
    BY DEF TypeOK
<1>3. ComesBy(pc, now, due, nextPoll, t)
    BY <1>1 DEF NextPollComes
<1>4. CASE pc = "sending"
    BY <1>1, <1>2, <1>4, RoundsAreTimes DEF Clocks
<1>5. CASE pc \in {"waiting", "listing", "fetching"}
  <2>1. now <= due
      BY <1>5 DEF Timing
  <2>2. due <= t + Round
    <3>1. due <= t + Period \/ due <= t + Period + MaxPoll \/ due <= t + Round
        BY <1>3, <1>5 DEF ComesBy
    <3> QED BY <1>2, <3>1, RoundsAreTimes
  <2> QED BY <1>1, <1>2, <2>1, <2>2, RoundsAreTimes
<1>6. CASE pc \in Over
    BY <1>1, <1>3, <1>6 DEF ComesBy
<1>7. CASE pc = "reconnecting"
    BY <1>7 DEF ReconnectMeansFailed
<1> QED BY <1>4, <1>5, <1>6, <1>7 DEF TypeOK

LEMMA SeenCounts ==
    ASSUME TypeOK
    PROVE  /\ Cardinality(seen) \in Nat
           /\ \A text : text \notin seen =>
                Cardinality(seen \cup {text}) = Cardinality(seen) + 1
<1>1. IsFiniteSet(Steps)
    BY LenIsNat, FS_Interval DEF Steps
<1>2. IsFiniteSet(Texts)
  <2>1. [i \in Steps |-> Script[i].text] \in Surjection(Steps, Texts)
      BY DEF Surjection, Texts
  <2> QED BY <1>1, <2>1, FS_Surjection
<1>3. IsFiniteSet(seen)
    BY <1>2, FS_Subset DEF TypeOK
<1> QED BY <1>3, FS_CardinalityType, FS_AddElement

LEMMA OneMoreRound ==
    ASSUME NEW c \in Nat
    PROVE  /\ Round * c \in Nat /\ Round * (c + 1) \in Nat
           /\ Round * (c + 1) = Round * c + Round
BY RoundsAreTimes

(* What a text has waited, in rounds.                                      *)
LEMMA RoundsBound ==
    ASSUME TypeOK, Timing, Clocks, ReconnectMeansFailed, NextPollComes, RoundsCounted,
           ~failed, NEW i \in Missed
    PROVE  now <= postedAt[i] + Round * (Cardinality(seen) + 1)
<1>1. PICK c \in Nat : c = Cardinality(seen)
    BY SeenCounts
<1>2. /\ Round * c \in Nat /\ Round * (c + 1) = Round * c + Round /\ Round \in Nat
    BY OneMoreRound, RoundsAreTimes
<1>3. PICK r \in Nat : r = Round * c
    BY <1>2
<1>4. /\ postedAt[i] \in Nat /\ lastAt \in Nat /\ Since(i) \in {postedAt[i], lastAt}
      /\ now \in Nat
    BY MissedIs DEF TypeOK
<1>5. now <= Since(i) + Round
    BY WithinRound
<1>6. lastAt <= postedAt[i] + r
    BY <1>1, <1>3 DEF RoundsCounted
<1>7. Since(i) <= postedAt[i] + r
    BY <1>3, <1>4, <1>6
<1>8. now <= postedAt[i] + (r + Round)
    BY <1>2, <1>4, <1>5, <1>7
<1> QED BY <1>1, <1>2, <1>3, <1>8

LEMMA RoundsStep ==
    ASSUME EditsOnly, InOrder, FInv, Clocks, ReconnectMeansFailed, NextPollComes,
           RoundsCounted, ~failed, [Next]_vars
    PROVE  RoundsCounted'
<1>0. TypeOK /\ Timing
    BY DEF FInv
<1>1. CASE Userbot
  <2>1. /\ UNCHANGED <<seen, last, lastAt>>
        /\ done' = done + 1 /\ postedAt' = [postedAt EXCEPT ![done + 1] = now]
      BY <1>1 DEF Userbot, window
  <2> SUFFICES ASSUME NEW i \in Missed'
               PROVE  lastAt <= postedAt'[i] + Round * Cardinality(seen)
      BY <2>1 DEF RoundsCounted
  <2>2. i \in 1 .. done + 1 /\ i > Returned /\ Script[i].text # "command"
      BY <2>1 DEF Missed, Returned
  <2>3. done \in Nat
      BY <1>0, StepsDone
  <2>4. CASE i = done + 1
    <3>1. done + 1 \in Steps
        BY <1>0, <1>1, <2>3, LenIsNat DEF Userbot, Steps
    <3>2. postedAt'[i] = now
        BY <1>0, <2>1, <2>4, <3>1 DEF TypeOK
    <3>3. now \in Nat /\ lastAt \in Nat /\ lastAt <= now
        BY <1>0 DEF TypeOK, Clocks
    <3>4. Round * Cardinality(seen) \in Nat
        BY <1>0, SeenCounts, OneMoreRound
    <3> QED BY <3>2, <3>3, <3>4
  <2>5. CASE i # done + 1
    <3>1. i \in Missed
        BY <2>2, <2>3, <2>5 DEF Missed
    <3>2. postedAt'[i] = postedAt[i]
        BY <1>0, <2>1, <2>5, <3>1, MissedIs DEF TypeOK
    <3> QED BY <3>1, <3>2 DEF RoundsCounted
  <2> QED BY <2>4, <2>5
<1>2. CASE ~Userbot
  <2>1. UNCHANGED chat
      BY <1>2 DEF Next, SendCommand, Sent, SendFails, Wake, KeepWaiting, Poll, Listed,
         Fetched, PollReconnects, PollFails, Reconnected, ReconnectFails, OnAnswer,
         LoseEvent, Tick, Finished, vars
  <2>2. Missed' \subseteq Missed
      BY <2>1, MissedShrinks
  <2>3. postedAt' = postedAt
      BY <2>1 DEF chat
  <2>4. CASE UNCHANGED <<seen, lastAt>>
      BY <2>2, <2>3, <2>4 DEF RoundsCounted
  <2>5. CASE TakesText
    <3>1. lastAt' = now /\ Cardinality(seen') = Cardinality(seen) + 1
        BY <1>0, <2>5, SeenCounts DEF TakesText, TakesNow
    <3>2. \A i \in Missed : now <= postedAt[i] + Round * (Cardinality(seen) + 1)
        BY <1>0, RoundsBound
    <3> QED BY <2>2, <2>3, <3>1, <3>2 DEF RoundsCounted
  <2> QED BY <1>0, <2>4, <2>5, TextsAreTaken
<1> QED BY <1>1, <1>2

LEMMA NetInit == Init => NetInv
<1> SUFFICES ASSUME Init PROVE NetInv
    OBVIOUS
<1>1. /\ pc = "sending" /\ now = 0 /\ nextPoll = 0 /\ lastAt = 0 /\ done = 0
      /\ postedAt = [i \in Steps |-> 0] /\ reconnected = FALSE
    BY DEF Init
<1>2. FInv
    BY ForwardInit
<1>3. TakenLately /\ UnaskedIsNew /\ ReconnectMeansFailed /\ PollLeaves
    BY <1>1 DEF TakenLately, UnaskedIsNew, ReconnectMeansFailed, PollLeaves
<1>4. Clocks
    BY <1>1, RoundsAreTimes DEF Clocks
<1>5. Missed = {}
    BY <1>1 DEF Missed
<1> QED BY <1>2, <1>3, <1>4, <1>5 DEF NetInv, NextPollComes, RoundsCounted

LEMMA NetStep ==
    ASSUME EditsOnly, InOrder, NetInv, [Next]_vars
    PROVE  NetInv'
<1>1. /\ FInv /\ TypeOK /\ Timing /\ TakenLately /\ UnaskedIsNew
      /\ ReconnectMeansFailed /\ Clocks
      /\ ~failed => PollLeaves /\ NextPollComes /\ RoundsCounted
    BY DEF NetInv, FInv
<1>2. /\ FInv' /\ TakenLately' /\ UnaskedIsNew' /\ ReconnectMeansFailed' /\ Clocks'
    BY <1>1, ForwardStep, TakenLatelyStep, UnaskedStep, ReconnectStep, ClocksStep
<1>3. failed => failed'
    BY DEF Next, SendCommand, Sent, SendFails, Wake, KeepWaiting, Poll, Listed, Fetched,
       PollReconnects, PollFails, Reconnected, ReconnectFails, OnAnswer, LoseEvent,
       Userbot, Tick, Finished, vars
<1>4. ASSUME ~failed' PROVE PollLeaves' /\ NextPollComes' /\ RoundsCounted'
  <2>1. ~failed /\ PollLeaves /\ NextPollComes /\ RoundsCounted
      BY <1>1, <1>3, <1>4
  <2> QED BY <1>1, <1>4, <2>1, PollLeavesStep, NextPollStep, RoundsStep
<1> QED BY <1>2, <1>4 DEF NetInv

(* Of a userbot that edits the command, polling is a safety net: until a   *)
(* request of a poll fails, whatever events are lost or late, no text is   *)
(* in the chat for more than a round, and one more for each text taken     *)
(* meanwhile, before the call has it or a newer one (send_command: "the    *)
(* poll is only a fallback on a slow cadence").                            *)
THEOREM PollsCatchUp ==
    ASSUME EditsOnly, InOrder
    PROVE  Spec => []PollsAreSafetyNet
<1>1. NetInv /\ [Next]_vars => NetInv'
    BY NetStep
<1>2. NetInv => PollsAreSafetyNet
  <2> SUFFICES ASSUME NetInv, ~failed, NEW i \in Missed
               PROVE  now - postedAt[i] <= Round * (Cardinality(seen) + 1)
      BY DEF PollsAreSafetyNet
  <2>1. TypeOK /\ now <= postedAt[i] + Round * (Cardinality(seen) + 1)
      BY RoundsBound DEF NetInv, FInv
  <2>2. postedAt[i] \in Nat /\ now \in Nat
      BY <2>1, MissedIs DEF TypeOK
  <2>3. Round * (Cardinality(seen) + 1) \in Nat
      BY <2>1, SeenCounts, OneMoreRound
  <2> QED BY <2>1, <2>2, <2>3
<1> QED BY <1>1, <1>2, NetInit, PTL DEF Spec
=============================================================================
