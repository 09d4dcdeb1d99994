----------------------------- MODULE ChatProofs -----------------------------
(***************************************************************************)
(* Theorems about TargetChat, for any calls, chats and topics.             *)
(***************************************************************************)
EXTENDS TargetChat, TLAPS

(* get_me is asked for once the entity is there.                           *)
HasTarget == \A t \in Task : pc[t] = "whoami" => target[t] \in Entity

(* Everything is in step with the pair named last: the settings, always;   *)
(* and, while no switch runs beside other calls, the cached entity, the    *)
(* entities asked for and what the calls have read of the settings.        *)
Settings == chat = latest.chat /\ topic = latest.topic

InStep ==
    /\ entity # NoEntity => entity.chat = chat
    /\ \A t \in Task :
        /\ pc[t] = "asking" => wants[t] = chat
        /\ pc[t] = "whoami" => target[t].chat = chat /\ within[t] = topic

(* While one call reconnects at a time, no connection but the newest lives,*)
(* that one not during a reconnect, and the cached entity is from it.      *)
OneConnection ==
    /\ live \subseteq {generation}
    /\ \A t \in Task : pc[t] = "reset" => generation \notin live
    /\ \A s, t \in Task : pc[s] = "reset" /\ pc[t] = "reset" => s = t
    /\ entity # NoEntity => entity.generation = generation

IInv ==
    /\ TypeOK /\ HasTarget /\ Settings
    /\ ~ConcurrentSwitch => InStep
    /\ ~OverlappingResets => OneConnection

(* A link and its topic argument are read as the pair they were written    *)
(* for.                                                                    *)
Reads(p, pair) ==
    p.chat = pair.chat /\ p.topic = pair.topic /\ p.raised = "nothing"

-----------------------------------------------------------------------------
(* The chats that are written apart from Saved Messages.                   *)
LEMMA ChatKinds ==
    ASSUME NEW where \in Chat
    PROVE  /\ where # Me
           /\ \/ \E n \in DOMAIN Number \cup Negative : where = ById(n)
              \/ \E u \in Username \ DOMAIN Number : where = ByName(<<u>>)
<1>1. Me.id = FALSE /\ Me.path = <<"me">> /\ Me.path[1] = "me"
    BY DEF Me, ByName
<1>2. ASSUME NEW n \in DOMAIN Number \cup Negative, where = ById(n)
      PROVE  where # Me
  <2>1. where.path[1] = n
      BY <1>2 DEF ById
  <2> QED BY <1>1, <2>1, LinkAssumption
<1>3. ASSUME NEW u \in Username \ DOMAIN Number, where = ByName(<<u>>)
      PROVE  where # Me
  <2>1. where.path[1] = u
      BY <1>3 DEF ByName
  <2> QED BY <1>1, <2>1, LinkAssumption
<1> QED BY <1>2, <1>3, TargetAssumption

(* A chat written alone names that chat and no topic.                      *)
LEMMA BareIsRead ==
    ASSUME NEW where \in Chats, NEW link \in BareLinks(where)
    PROVE  ParseChatLink(link) = Parsed(where, 0)
<1>1. CASE where = Me
  <2>1. CASE link = Link("", <<>>, FALSE)
    <3>1. link.path = <<>> /\ link.prefix = "" /\ link.slash = FALSE
        BY <2>1 DEF Link
    <3>2. ~ Numeric(<<>>)
        BY DEF Numeric
    <3> QED BY <1>1, <3>1, <3>2 DEF ParseChatLink
  <2>2. CASE link = Link("", <<"me">>, FALSE)
    <3>1. link.path = <<"me">> /\ link.prefix = "" /\ link.slash = FALSE
        BY <2>2 DEF Link
    <3>2. ~ Numeric(<<"me">>) /\ <<"me">> # <<>>
        BY LinkAssumption DEF Numeric
    <3> QED BY <1>1, <3>1, <3>2 DEF ParseChatLink, Me
  <2> QED BY <1>1, <2>1, <2>2 DEF BareLinks
<1>2. ASSUME NEW n \in DOMAIN Number \cup Negative, where = ById(n), where # Me
      PROVE  ParseChatLink(link) = Parsed(where, 0)
  <2>1. where.id = TRUE /\ where.path = <<n>>
      BY <1>2 DEF ById
  <2>2. link = Link("", <<n>>, FALSE)
      BY <1>2, <2>1 DEF BareLinks
  <2>3. link.path = <<n>> /\ link.prefix = "" /\ link.slash = FALSE
      BY <2>2 DEF Link
  <2>4. Numeric(<<n>>) /\ <<n>> # <<>> /\ <<n>>[1] = n
      BY DEF Numeric
  <2> QED BY <1>2, <2>3, <2>4 DEF ParseChatLink
<1>3. ASSUME NEW u \in Username \ DOMAIN Number, where = ByName(<<u>>), where # Me
      PROVE  ParseChatLink(link) = Parsed(where, 0)
  <2>1. where.id = FALSE /\ where.path = <<u>>
      BY <1>3 DEF ByName
  <2>2. PICK prefix \in {"", "@", "t.me/"} : link = Link(prefix, <<u>>, FALSE)
      BY <1>3, <2>1 DEF BareLinks
  <2>3. link.path = <<u>> /\ link.slash = FALSE /\ link.prefix = prefix
      BY <2>2 DEF Link
  <2>4. /\ Len(<<u>>) = 1 /\ <<u>> # <<>>
        /\ ~ Numeric(<<u>>) /\ ~ Private(<<u>>) /\ ~ Public(<<u>>)
    <3>1. Len(<<u>>) = 1 /\ <<u>> # <<>> /\ <<u>>[1] = u
        OBVIOUS
    <3> QED BY <3>1, LinkAssumption DEF Numeric, Private, Public
  <2>5. CASE prefix = ""
      BY <1>3, <2>3, <2>4, <2>5 DEF ParseChatLink
  <2>6. CASE prefix = "@"
      BY <1>3, <2>3, <2>4, <2>6 DEF ParseChatLink
  <2>7. CASE prefix = "t.me/"
      BY <1>3, <2>3, <2>4, <2>7 DEF ParseChatLink
  <2> QED BY <2>5, <2>6, <2>7
<1> QED BY <1>1, <1>2, <1>3, ChatKinds DEF Chats

(* A topic link names its chat and its topic, which is not 0; a slash may  *)
(* follow.                                                                 *)
LEMMA TopicIsRead ==
    ASSUME NEW where \in Chats, NEW t, NEW link \in TopicLinks(where, t)
    PROVE  ParseChatLink(link) = Parsed(where, t) /\ t # 0
<1>1. PICK prefix \in {"t.me/", "T.me/"}, slash \in BOOLEAN,
           segment \in {n \in DOMAIN Number : Number[n] = t /\ HasTopicLink(where)} :
         link = Link(prefix, TopicPath(where, segment), slash)
    BY DEF TopicLinks
<1>2. /\ segment \in DOMAIN Number /\ Number[segment] = t /\ HasTopicLink(where)
      /\ link.prefix = prefix /\ link.path = TopicPath(where, segment)
    BY <1>1 DEF Link
<1>3. t # 0
    BY <1>2, LinkAssumption
<1>4. where \in Chat
    BY <1>2 DEF Chats, HasTopicLink
<1>5. ASSUME NEW n \in DOMAIN Number, where = ById(n)
      PROVE  ParseChatLink(link) = Parsed(where, t)
  <2>1. where.id = TRUE /\ where.path[1] = n
      BY <1>5 DEF ById
  <2>2. link.path = <<"c", n, segment>>
      BY <1>2, <2>1 DEF TopicPath
  <2>3. /\ Private(<<"c", n, segment>>) /\ <<"c", n, segment>> # <<>>
        /\ <<"c", n, segment>>[2] = n /\ <<"c", n, segment>>[3] = segment
      BY <1>2 DEF Private
  <2>4. prefix # "" /\ Number[segment] = t
      BY <1>2
  <2> QED BY <1>2, <1>5, <2>2, <2>3, <2>4 DEF ParseChatLink
<1>6. ASSUME NEW u \in Username \ DOMAIN Number, where = ByName(<<u>>)
      PROVE  ParseChatLink(link) = Parsed(where, t)
  <2>1. where.id = FALSE /\ where.path[1] = u
      BY <1>6 DEF ByName
  <2>2. link.path = <<u, segment>>
      BY <1>2, <2>1 DEF TopicPath
  <2>3. /\ Public(<<u, segment>>) /\ ~ Private(<<u, segment>>)
        /\ <<u, segment>>[1] = u /\ <<u, segment>>[2] = segment
      BY <1>2 DEF Public, Private
  <2>4. prefix # "" /\ Number[segment] = t
      BY <1>2
  <2> QED BY <1>2, <1>6, <2>2, <2>3, <2>4 DEF ParseChatLink
<1>7. ASSUME NEW n \in Negative, where = ById(n)
      PROVE  FALSE
  <2>1. where.path[1] = n
      BY <1>7 DEF ById
  <2> QED BY <1>2, <2>1 DEF HasTopicLink
<1> QED BY <1>3, <1>4, <1>5, <1>6, <1>7, ChatKinds

(* load_settings reads the pair an administrator wrote.                    *)
LEMMA ConfigIsRead ==
    ASSUME NEW pair \in Pair, NEW way \in ConfigWays(pair, Written)
    PROVE  Reads(LoadTarget(way.link, way.topic), pair)
<1>1. pair.chat \in Chats /\ pair.topic \in Topic
    BY DEF Pair
<1>2. ASSUME NEW l \in BareLinks(pair.chat), way = [link |-> l, topic |-> pair.topic]
      PROVE  Reads(LoadTarget(way.link, way.topic), pair)
    BY <1>1, <1>2, BareIsRead DEF Reads, LoadTarget, Parsed
<1>3. ASSUME NEW t, NEW l \in TopicLinks(pair.chat, t), pair.topic # 0,
             way = [link |-> l, topic |-> pair.topic]
      PROVE  Reads(LoadTarget(way.link, way.topic), pair)
    BY <1>1, <1>3, TopicIsRead DEF Reads, LoadTarget, Parsed
<1>4. ASSUME NEW l \in TopicLinks(pair.chat, pair.topic), way = [link |-> l, topic |-> 0]
      PROVE  Reads(LoadTarget(way.link, way.topic), pair)
    BY <1>1, <1>4, TopicIsRead DEF Reads, LoadTarget, Parsed
<1> QED BY <1>2, <1>3, <1>4 DEF ConfigWays

(* set_target_chat reads the pair a client of switch_chat means.           *)
LEMMA SwitchIsRead ==
    ASSUME NEW pair \in Pair, NEW way \in SwitchWays(pair, Written)
    PROVE  Reads(SwitchTarget(way.link, way.topic), pair)
<1>1. pair.chat \in Chats /\ pair.topic \in Topic
    BY DEF Pair
<1>2. ASSUME NEW l \in BareLinks(pair.chat), way = [link |-> l, topic |-> pair.topic]
      PROVE  Reads(SwitchTarget(way.link, way.topic), pair)
    BY <1>1, <1>2, BareIsRead DEF Reads, SwitchTarget, Parsed
<1>3. ASSUME NEW t, NEW l \in TopicLinks(pair.chat, pair.topic),
             way = [link |-> l, topic |-> t]
      PROVE  Reads(SwitchTarget(way.link, way.topic), pair)
    BY <1>1, <1>3, TopicIsRead DEF Reads, SwitchTarget, Parsed
<1> QED BY <1>2, <1>3 DEF SwitchWays

-----------------------------------------------------------------------------
(* What the entity of a call and the pair of its request look like.        *)
LEMMA Shapes ==
    /\ \A where \in Chats, g \in 0 .. MaxGeneration :
           LET e == [chat |-> where, generation |-> g]
           IN  e \in Entity /\ e.chat = where /\ e.generation = g
    /\ \A e \in Entity : e.chat \in Chats /\ e.generation \in 0 .. MaxGeneration
    /\ \A p \in Pair : p.chat \in Chats /\ p.topic \in Topic
                      /\ p = [chat |-> p.chat, topic |-> p.topic]
    /\ Me \in Chats /\ 0 \in Topic /\ 0 \in 0 .. MaxGeneration
BY TargetAssumption DEF Entity, Chats, Pair

LEMMA TypeInit == Init => TypeOK /\ HasTarget /\ Settings
<1> SUFFICES ASSUME Init PROVE TypeOK /\ HasTarget /\ Settings
    OBVIOUS
<1>1. PICK way \in ConfigWays(latest, Written) :
         LET loaded == LoadTarget(way.link, way.topic)
         IN  chat = loaded.chat /\ topic = loaded.topic
    BY DEF Init
<1>2. latest \in Pair
    BY DEF Init
<1>3. Settings
    BY <1>1, <1>2, ConfigIsRead DEF Reads, Settings
<1>4. chat \in Chats /\ topic \in Topic
    BY <1>2, <1>3, Shapes DEF Settings
<1>5. TypeOK
    BY <1>2, <1>4, Shapes DEF Init, TypeOK
<1> QED BY <1>3, <1>5 DEF Init, HasTarget

(* A call that is over leaves well-typed locals behind.                    *)
LEMMA TypeEnd ==
    ASSUME TypeOK, HasTarget, NEW t \in Task, End(t),
           entity' \in Entity \cup {NoEntity},
           UNCHANGED <<settings, network, ghosts>>
    PROVE  TypeOK' /\ HasTarget'
<1>1. TypeOK'
    BY Shapes DEF TypeOK, End, Goto, settings, network, ghosts
<1> QED BY <1>1 DEF TypeOK, HasTarget, End, Goto

(* A call goes on with its entity.                                         *)
LEMMA TypeResolved ==
    ASSUME TypeOK, HasTarget, NEW t \in Task, NEW e \in Entity,
           NEW on \in 0 .. MaxGeneration, Resolved(t, e, on),
           entity' \in Entity \cup {NoEntity},
           UNCHANGED <<settings, network, ghosts>>
    PROVE  TypeOK' /\ HasTarget'
<1>1. CASE kind[t] = "switch" /\ End(t)
    BY <1>1, TypeEnd
<1>2. CASE /\ Request(t, e, topic) /\ conn' = [conn EXCEPT ![t] = on]
           /\ UNCHANGED <<kind, wants, within>>
  <2>1. [chat |-> e.chat, topic |-> topic] \in Pair
      BY Shapes DEF TypeOK, Pair
  <2>2. TypeOK'
      BY <1>2, <2>1 DEF TypeOK, Request, Goto, settings, network, ghosts
  <2> QED BY <1>2, <2>2 DEF TypeOK, HasTarget, Request, Goto
<1>3. CASE /\ target' = [target EXCEPT ![t] = e] /\ within' = [within EXCEPT ![t] = topic]
           /\ conn' = [conn EXCEPT ![t] = on] /\ Goto(t, "whoami")
           /\ UNCHANGED <<kind, wants, sent>>
  <2>1. TypeOK'
      BY <1>3 DEF TypeOK, Goto, settings, network, ghosts
  <2> QED BY <1>3, <2>1 DEF TypeOK, HasTarget, Goto
<1> QED BY <1>1, <1>2, <1>3 DEF Resolved

(* The settings a switch leaves are those of its pair.                     *)
LEMMA SwitchSets ==
    ASSUME NEW t \in Task, NEW pair \in Pair, StartSwitch(t, pair)
    PROVE  /\ chat' = pair.chat /\ topic' = pair.topic /\ latest' = pair
           /\ Verify(t, pair.chat)
<1>1. PICK way \in SwitchWays(pair, Written) :
         LET to == SwitchTarget(way.link, way.topic)
         IN  chat' = to.chat /\ topic' = to.topic /\ Verify(t, to.chat)
    BY DEF StartSwitch
<1>2. Reads(SwitchTarget(way.link, way.topic), pair)
    BY SwitchIsRead
<1> QED BY <1>1, <1>2 DEF Reads, StartSwitch, Name

(* Every step keeps the types, and the settings those of the last pair.    *)
LEMMA TypeStep ==
    ASSUME TypeOK, HasTarget, Settings, [Next]_vars
    PROVE  TypeOK' /\ HasTarget' /\ Settings'
<1> USE DEF settings, network, locals, ghosts
<1> DEFINE Goal == TypeOK' /\ HasTarget' /\ Settings'
<1>0. ASSUME UNCHANGED <<settings, latest>>
      PROVE  Settings'
    BY <1>0 DEF Settings
<1>1. ASSUME NEW t \in Task, NEW k \in {"command", "history"}, StartCall(t, k)
      PROVE  Goal
  <2>1. TypeOK'
      BY <1>1 DEF StartCall, TypeOK, Goto
  <2>2. HasTarget'
      BY <1>1 DEF StartCall, TypeOK, HasTarget, Goto
  <2> QED BY <1>0, <1>1, <2>1, <2>2 DEF StartCall
<1>2. ASSUME NEW t \in Task, NEW pair \in Pair, StartSwitch(t, pair)
      PROVE  Goal
  <2>1. /\ chat' = pair.chat /\ topic' = pair.topic /\ latest' = pair
        /\ Verify(t, pair.chat)
      BY <1>2, SwitchSets
  <2>2. Settings'
      BY <2>1 DEF Settings
  <2>3. /\ chat' \in Chats /\ topic' \in Topic /\ latest' \in Pair /\ named' \subseteq Pair
        /\ entity' = NoEntity /\ UNCHANGED <<network, target, within, sent>>
      BY <1>2, <2>1, Shapes DEF StartSwitch, Name, TypeOK
  <2>4. CASE pair.chat = Me
    <3>1. UNCHANGED <<pc, kind, wants, conn>>
        BY <2>1, <2>4 DEF Verify
    <3> QED BY <2>2, <2>3, <3>1 DEF TypeOK, HasTarget
  <2>5. CASE pair.chat # Me
    <3>1. /\ kind' = [kind EXCEPT ![t] = "switch"] /\ wants' = [wants EXCEPT ![t] = pair.chat]
          /\ conn' = [conn EXCEPT ![t] = generation] /\ pc' = [pc EXCEPT ![t] = "asking"]
        BY <2>1, <2>5 DEF Verify, Goto
    <3>2. TypeOK'
        BY <2>1, <2>3, <3>1 DEF TypeOK
    <3> QED BY <2>2, <2>3, <3>1, <3>2 DEF TypeOK, HasTarget
  <2> QED BY <2>4, <2>5
<1>3. ASSUME NEW t \in Task, ResolveCached(t)
      PROVE  Goal
  <2>1. entity \in Entity /\ generation \in 0 .. MaxGeneration
      BY <1>3 DEF ResolveCached, TypeOK
  <2> QED BY <1>0, <1>3, <2>1, TypeResolved DEF ResolveCached, TypeOK
<1>4. ASSUME NEW t \in Task, ResolveMe(t)
      PROVE  Goal
  <2>1. [chat |-> Me, generation |-> generation] \in Entity
      BY Shapes DEF TypeOK
  <2> QED BY <1>0, <1>4, <2>1, TypeResolved DEF ResolveMe, TypeOK
<1>5. ASSUME NEW t \in Task, AskEntity(t)
      PROVE  Goal
  <2>1. TypeOK'
      BY <1>5 DEF AskEntity, TypeOK, Goto
  <2>2. HasTarget'
      BY <1>5 DEF AskEntity, TypeOK, HasTarget, Goto
  <2> QED BY <1>0, <1>5, <2>1, <2>2 DEF AskEntity
<1>6. ASSUME NEW t \in Task, EntityFound(t)
      PROVE  Goal
  <2>1. [chat |-> wants[t], generation |-> conn[t]] \in Entity
      BY Shapes DEF TypeOK
  <2> QED BY <1>0, <1>6, <2>1, TypeResolved DEF EntityFound, TypeOK
<1>7. ASSUME NEW t \in Task,
             EntityFails(t) \/ EndRequest(t) \/ EndCommand(t) \/ ReconnectFails(t)
      PROVE  Goal
    BY <1>0, <1>7, TypeEnd DEF EntityFails, EndRequest, EndCommand, ReconnectFails, TypeOK
<1>8. ASSUME NEW t \in Task, WhoAmI(t)
      PROVE  Goal
  <2>1. PICK where \in Topic : Request(t, target[t], where)
      BY <1>8 DEF WhoAmI, TypeOK
  <2>2. target[t] \in Entity
      BY <1>8 DEF WhoAmI, HasTarget
  <2>3. [chat |-> target[t].chat, topic |-> where] \in Pair
      BY <2>2, Shapes DEF Pair
  <2>4. TypeOK'
      BY <1>8, <2>1, <2>2, <2>3 DEF WhoAmI, TypeOK, Request, Goto
  <2>5. HasTarget'
      BY <2>1, <2>2 DEF TypeOK, HasTarget, Request, Goto
  <2> QED BY <1>0, <1>8, <2>4, <2>5 DEF WhoAmI
<1>9. ASSUME NEW t \in Task, Sent(t)
      PROVE  Goal
  <2>1. TypeOK'
      BY <1>9 DEF Sent, TypeOK, Goto
  <2>2. HasTarget'
      BY <1>9 DEF Sent, TypeOK, HasTarget, Goto
  <2> QED BY <1>0, <1>9, <2>1, <2>2 DEF Sent
<1>10. ASSUME NEW t \in Task, BeginReset(t)
      PROVE  Goal
  <2>1. TypeOK'
      BY <1>10 DEF BeginReset, TypeOK, Goto
  <2>2. HasTarget'
      BY <1>10 DEF BeginReset, TypeOK, HasTarget, Goto
  <2> QED BY <1>0, <1>10, <2>1, <2>2 DEF BeginReset
<1>11. ASSUME NEW t \in Task, Reconnect(t)
      PROVE  Goal
  <2>1. /\ generation' = generation + 1 /\ generation' \in 0 .. MaxGeneration
        /\ live' = live \cup {generation'} /\ entity' = NoEntity
        /\ UNCHANGED <<settings, kind, wants, target, within, sent, ghosts>>
      BY <1>11, TargetAssumption DEF Reconnect, Connected, TypeOK
  <2>2. PICK where \in {"repoll", "fetch"} : pc' = [pc EXCEPT ![t] = where]
      BY <1>11 DEF Reconnect, Connected, Goto
  <2>3. conn' \in [Task -> 0 .. MaxGeneration]
      BY <1>11, <2>1 DEF Reconnect, Connected, TypeOK
  <2>4. live' \subseteq 0 .. generation'
      BY <2>1, TargetAssumption DEF TypeOK
  <2>5. TypeOK'
      BY <2>1, <2>2, <2>3, <2>4 DEF TypeOK
  <2>6. HasTarget'
      BY <2>1, <2>2 DEF TypeOK, HasTarget
  <2> QED BY <1>0, <2>1, <2>5, <2>6
<1>12. CASE UNCHANGED vars
    BY <1>12 DEF vars, TypeOK, HasTarget, Settings
<1> QED BY <1>1, <1>2, <1>3, <1>4, <1>5, <1>6, <1>7, <1>8, <1>9, <1>10, <1>11, <1>12 DEF Next

-----------------------------------------------------------------------------
(* A call that goes on with an entity of the right chat stays in step.     *)
LEMMA InStepResolved ==
    ASSUME TypeOK, InStep, NEW t \in Task, NEW e \in Entity, NEW on,
           e.chat = chat, Resolved(t, e, on),
           entity' = entity \/ entity' = e,
           UNCHANGED <<settings, ghosts>>
    PROVE  InStep'
<1>1. entity' # NoEntity => entity'.chat = chat'
    BY DEF InStep, settings
<1>2. CASE End(t)
    BY <1>1, <1>2 DEF InStep, TypeOK, End, Goto, settings
<1>3. CASE Request(t, e, topic) /\ UNCHANGED <<kind, wants, within>>
    BY <1>1, <1>3 DEF InStep, TypeOK, Request, Goto, settings
<1>4. CASE /\ target' = [target EXCEPT ![t] = e] /\ within' = [within EXCEPT ![t] = topic]
           /\ Goto(t, "whoami") /\ UNCHANGED <<kind, wants, sent>>
    BY <1>1, <1>4 DEF InStep, TypeOK, Goto, settings
<1> QED BY <1>2, <1>3, <1>4 DEF Resolved

(* While no switch runs beside other calls, every step leaves all in step. *)
LEMMA InStepStep ==
    ASSUME TypeOK, HasTarget, InStep, ~ConcurrentSwitch, [Next]_vars
    PROVE  InStep'
<1> USE DEF settings, network, locals, ghosts
<1>1. ASSUME NEW t \in Task, NEW k \in {"command", "history"}, StartCall(t, k)
      PROVE  InStep'
    BY <1>1 DEF StartCall, Goto, InStep, TypeOK
<1>2. ASSUME NEW t \in Task, NEW pair \in Pair, StartSwitch(t, pair)
      PROVE  InStep'
  <2>1. chat' = pair.chat /\ Verify(t, pair.chat) /\ entity' = NoEntity
      BY <1>2, SwitchSets DEF StartSwitch
  <2>2. \A s \in Task : pc[s] = "idle"
      BY <1>2 DEF StartSwitch, MaySwitch
  <2>3. CASE UNCHANGED <<pc, kind, wants, conn>>
      BY <2>1, <2>2, <2>3 DEF InStep
  <2>4. CASE pc' = [pc EXCEPT ![t] = "asking"] /\ wants' = [wants EXCEPT ![t] = pair.chat]
      BY <2>1, <2>2, <2>4 DEF InStep, TypeOK
  <2> QED BY <2>1, <2>3, <2>4 DEF Verify, Goto
<1>3. ASSUME NEW t \in Task, ResolveCached(t)
      PROVE  InStep'
  <2>1. entity \in Entity /\ entity.chat = chat
      BY <1>3 DEF ResolveCached, TypeOK, InStep
  <2> QED BY <1>3, <2>1, InStepResolved DEF ResolveCached
<1>4. ASSUME NEW t \in Task, ResolveMe(t)
      PROVE  InStep'
  <2> DEFINE e == [chat |-> Me, generation |-> generation]
  <2>1. e \in Entity /\ e.chat = chat
      BY <1>4, Shapes DEF ResolveMe, TypeOK
  <2>2. Resolved(t, e, generation)
      BY <1>4 DEF ResolveMe
  <2> HIDE DEF e
  <2> QED BY <1>4, <2>1, <2>2, InStepResolved DEF ResolveMe
<1>5. ASSUME NEW t \in Task, AskEntity(t)
      PROVE  InStep'
    BY <1>5 DEF AskEntity, Goto, InStep, TypeOK
<1>6. ASSUME NEW t \in Task, EntityFound(t)
      PROVE  InStep'
  <2> DEFINE e == [chat |-> wants[t], generation |-> conn[t]]
  <2>1. wants[t] = chat
      BY <1>6 DEF EntityFound, InStep
  <2>2. e \in Entity /\ e.chat = chat
      BY <2>1, Shapes DEF TypeOK
  <2>3. Resolved(t, e, conn[t]) /\ entity' = e
      BY <1>6 DEF EntityFound
  <2> HIDE DEF e
  <2> QED BY <1>6, <2>2, <2>3, InStepResolved DEF EntityFound
<1>7. ASSUME NEW t \in Task,
             EntityFails(t) \/ EndRequest(t) \/ EndCommand(t) \/ ReconnectFails(t)
      PROVE  InStep'
  <2>1. End(t) /\ UNCHANGED <<settings, entity>>
      BY <1>7 DEF EntityFails, EndRequest, EndCommand, ReconnectFails
  <2> QED BY <2>1 DEF End, Goto, InStep, TypeOK
<1>8. ASSUME NEW t \in Task, WhoAmI(t)
      PROVE  InStep'
    BY <1>8 DEF WhoAmI, Request, Goto, InStep, TypeOK
<1>9. ASSUME NEW t \in Task, Sent(t) \/ BeginReset(t)
      PROVE  InStep'
    BY <1>9 DEF Sent, BeginReset, Goto, InStep, TypeOK
<1>10. ASSUME NEW t \in Task, Reconnect(t)
      PROVE  InStep'
    BY <1>10 DEF Reconnect, Connected, Goto, InStep, TypeOK
<1>11. CASE UNCHANGED vars
    BY <1>11 DEF vars, InStep
<1> QED BY <1>1, <1>2, <1>3, <1>4, <1>5, <1>6, <1>7, <1>8, <1>9, <1>10, <1>11 DEF Next

(* While one call reconnects at a time, every step leaves one connection.  *)
LEMMA OneConnectionStep ==
    ASSUME TypeOK, OneConnection, ~OverlappingResets, [Next]_vars
    PROVE  OneConnection'
<1> USE DEF settings, network, locals, ghosts
<1>1. ASSUME NEW t \in Task,
             NEW where \in {"idle", "resolve", "asking", "whoami", "send", "fetch", "poll"},
             pc' = [pc EXCEPT ![t] = where],
             generation' = generation, live' = live,
             entity' # NoEntity => entity'.generation = generation
      PROVE  OneConnection'
    BY <1>1 DEF OneConnection, TypeOK
<1>2. ASSUME NEW t \in Task, NEW k \in {"command", "history"}, StartCall(t, k)
      PROVE  OneConnection'
    BY <1>1, <1>2 DEF StartCall, Goto, OneConnection
<1>3. ASSUME NEW t \in Task, NEW pair \in Pair, StartSwitch(t, pair)
      PROVE  OneConnection'
  <2>1. Verify(t, pair.chat) /\ entity' = NoEntity /\ UNCHANGED network
      BY <1>3, SwitchSets DEF StartSwitch
  <2>2. CASE UNCHANGED pc
      BY <2>1, <2>2 DEF OneConnection
  <2>3. CASE Goto(t, "asking")
    <3>1. /\ pc' = [pc EXCEPT ![t] = "asking"]
          /\ generation' = generation /\ live' = live /\ entity' = NoEntity
        BY <2>1, <2>3 DEF Goto
    <3> QED BY <1>1, <3>1
  <2> QED BY <2>1, <2>2, <2>3 DEF Verify
<1>4. ASSUME NEW t \in Task, NEW e, NEW on, Resolved(t, e, on), UNCHANGED network,
             entity' # NoEntity => entity'.generation = generation
      PROVE  OneConnection'
  <2>1. PICK where \in {"idle", "send", "fetch", "whoami"} : Goto(t, where)
      BY <1>4 DEF Resolved, End, Request
  <2>2. pc' = [pc EXCEPT ![t] = where] /\ generation' = generation /\ live' = live
      BY <1>4, <2>1 DEF Goto
  <2> QED BY <1>1, <1>4, <2>2
<1>5. ASSUME NEW t \in Task, ResolveCached(t)
      PROVE  OneConnection'
    BY <1>4, <1>5 DEF ResolveCached, OneConnection
<1>6. ASSUME NEW t \in Task, ResolveMe(t)
      PROVE  OneConnection'
    BY <1>4, <1>6 DEF ResolveMe, OneConnection
<1>7. ASSUME NEW t \in Task, AskEntity(t)
      PROVE  OneConnection'
    BY <1>1, <1>7 DEF AskEntity, Goto, OneConnection
<1>8. ASSUME NEW t \in Task, EntityFound(t)
      PROVE  OneConnection'
  <2> DEFINE e == [chat |-> wants[t], generation |-> conn[t]]
  <2>1. conn[t] = generation
      BY <1>8 DEF EntityFound, OneConnection
  <2>2. e.generation = generation
      BY <2>1
  <2>3. Resolved(t, e, conn[t]) /\ entity' = e
      BY <1>8 DEF EntityFound
  <2> HIDE DEF e
  <2> QED BY <1>4, <1>8, <2>2, <2>3 DEF EntityFound
<1>9. ASSUME NEW t \in Task,
             EntityFails(t) \/ EndRequest(t) \/ EndCommand(t) \/ ReconnectFails(t)
      PROVE  OneConnection'
  <2>1. End(t) /\ UNCHANGED <<network, entity>>
      BY <1>9 DEF EntityFails, EndRequest, EndCommand, ReconnectFails
  <2> QED BY <1>1, <2>1 DEF End, Goto, OneConnection
<1>10. ASSUME NEW t \in Task, WhoAmI(t)
      PROVE  OneConnection'
  <2>1. PICK where \in {"send", "fetch"} : Goto(t, where)
      BY <1>10 DEF WhoAmI, Request
  <2> QED BY <1>1, <1>10, <2>1 DEF WhoAmI, Goto, OneConnection
<1>11. ASSUME NEW t \in Task, Sent(t)
      PROVE  OneConnection'
    BY <1>1, <1>11 DEF Sent, Goto, OneConnection
<1>12. ASSUME NEW t \in Task, BeginReset(t)
      PROVE  OneConnection'
  <2>1. \A s \in Task : pc[s] # "reset"
      BY <1>12 DEF BeginReset
  <2> QED BY <1>12, <2>1 DEF BeginReset, Goto, OneConnection, TypeOK
<1>13. ASSUME NEW t \in Task, Reconnect(t)
      PROVE  OneConnection'
  <2>1. /\ pc[t] = "reset" /\ live' = live \cup {generation'} /\ entity' = NoEntity
      BY <1>13 DEF Reconnect, Connected
  <2>2. PICK where \in {"repoll", "fetch"} : pc' = [pc EXCEPT ![t] = where]
      BY <1>13 DEF Reconnect, Connected, Goto
  <2>3. live' \subseteq {generation'}
      BY <2>1 DEF OneConnection
  <2>4. \A s \in Task : pc'[s] # "reset"
      BY <2>1, <2>2 DEF OneConnection, TypeOK
  <2> QED BY <2>1, <2>3, <2>4 DEF OneConnection
<1>14. CASE UNCHANGED vars
    BY <1>14 DEF vars, OneConnection
<1> QED BY <1>2, <1>3, <1>5, <1>6, <1>7, <1>8, <1>9, <1>10, <1>11, <1>12, <1>13, <1>14
        DEF Next

LEMMA Invariance == Spec => []IInv
<1>1. Init => IInv
  <2> SUFFICES ASSUME Init PROVE IInv
      OBVIOUS
  <2>1. InStep /\ OneConnection
      BY DEF Init, InStep, OneConnection
  <2> QED BY <2>1, TypeInit DEF IInv
<1>2. IInv /\ [Next]_vars => IInv'
  <2> SUFFICES ASSUME IInv, [Next]_vars PROVE IInv'
      OBVIOUS
  <2> QED BY TypeStep, InStepStep, OneConnectionStep DEF IInv
<1> QED BY <1>1, <1>2, PTL DEF Spec

-----------------------------------------------------------------------------
(* The state of the settings, the cache and the calls has its type, however*)
(* switches and reconnects overlap.                                        *)
THEOREM TypeCorrect == Spec => []TypeOK
<1>1. IInv => TypeOK
    BY DEF IInv
<1> QED BY <1>1, Invariance, PTL

(* _resolved_entity is that of her_chat_id and of the present connection,  *)
(* as long as no switch runs beside other calls and one call reconnects at *)
(* a time.                                                                 *)
THEOREM CacheCurrent ==
    ASSUME ~ConcurrentSwitch, ~OverlappingResets
    PROVE  Spec => []CacheIsCurrent
<1>1. IInv => CacheIsCurrent
    BY DEF IInv, InStep, OneConnection, CacheIsCurrent
<1> QED BY <1>1, Invariance, PTL

(* What switch_chat confirmed is where commands go, as long as no switch   *)
(* runs beside other calls; reconnects may overlap.                        *)
THEOREM SwitchHolds ==
    ASSUME ~ConcurrentSwitch
    PROVE  Spec => []SwitchSticks
<1>1. IInv => SwitchSticks
    BY DEF IInv, InStep, SwitchSticks
<1> QED BY <1>1, Invariance, PTL

(* A request is for the pair named last.                                   *)
LEMMA SentToLatest ==
    ASSUME IInv, ~ConcurrentSwitch, NEW t \in Task, NEW e,
           e.chat = chat, NEW where, where = topic,
           sent' = [sent EXCEPT ![t] = [chat |-> e.chat, topic |-> where]]
    PROVE  \A s \in Task : sent'[s] # sent[s] => sent'[s] \in {latest, NoEntity}
<1>1. latest = [chat |-> latest.chat, topic |-> latest.topic]
    BY Shapes DEF IInv, TypeOK
<1>2. [chat |-> e.chat, topic |-> where] = latest
    BY <1>1 DEF IInv, Settings
<1> QED BY <1>2 DEF IInv, TypeOK

(* Every send_message and get_messages goes to the chat and topic named    *)
(* last, as long as no switch runs beside other calls; reconnects may      *)
(* overlap.                                                                *)
THEOREM LatestFollowed ==
    ASSUME ~ConcurrentSwitch
    PROVE  Spec => FollowsLatest
<1> DEFINE Follows == \A t \in Task : sent'[t] # sent[t] => sent'[t] \in {latest, NoEntity}
<1>1. IInv /\ [Next]_vars => [Follows]_vars
  <2> SUFFICES ASSUME IInv, [Next]_vars PROVE Follows
      OBVIOUS
  <2> USE DEF settings, network, locals, ghosts
  <2>1. ASSUME NEW t \in Task, End(t)
        PROVE  Follows
      BY <2>1 DEF End, IInv, TypeOK
  <2>2. ASSUME NEW t \in Task, NEW e, NEW on, e.chat = chat, Resolved(t, e, on)
        PROVE  Follows
    <3>1. CASE Request(t, e, topic)
        BY <2>2, <3>1, SentToLatest DEF Request
    <3> QED BY <2>1, <2>2, <3>1 DEF Resolved
  <2>3. ASSUME NEW t \in Task, ResolveCached(t)
        PROVE  Follows
    <3>1. entity.chat = chat
        BY <2>3 DEF ResolveCached, IInv, InStep
    <3> QED BY <2>2, <2>3, <3>1 DEF ResolveCached
  <2>4. ASSUME NEW t \in Task, ResolveMe(t)
        PROVE  Follows
    <3> DEFINE e == [chat |-> Me, generation |-> generation]
    <3>1. e.chat = chat /\ Resolved(t, e, generation)
        BY <2>4 DEF ResolveMe
    <3> HIDE DEF e
    <3> QED BY <2>2, <3>1
  <2>5. ASSUME NEW t \in Task, EntityFound(t)
        PROVE  Follows
    <3> DEFINE e == [chat |-> wants[t], generation |-> conn[t]]
    <3>1. e.chat = chat /\ Resolved(t, e, conn[t])
        BY <2>5 DEF EntityFound, IInv, InStep
    <3> HIDE DEF e
    <3> QED BY <2>2, <3>1
  <2>6. ASSUME NEW t \in Task, WhoAmI(t)
        PROVE  Follows
    <3>1. target[t].chat = chat /\ within[t] = topic
        BY <2>6 DEF WhoAmI, IInv, InStep
    <3>2. Request(t, target[t], topic)
        BY <2>6, <3>1 DEF WhoAmI
    <3> QED BY <3>1, <3>2, SentToLatest DEF Request
  <2>7. CASE UNCHANGED sent
      BY <2>7
  <2>8. CASE Next
      BY <2>8, <2>1, <2>3, <2>4, <2>5, <2>6, <2>7
         DEF Next, StartCall, StartSwitch, AskEntity, EntityFails, Sent, EndRequest,
             EndCommand, BeginReset, Reconnect, Connected, ReconnectFails
  <2>9. CASE UNCHANGED vars
      BY <2>7, <2>9 DEF vars
  <2> QED BY <2>8, <2>9
<1> QED BY <1>1, Invariance, PTL DEF Spec, FollowsLatest
=============================================================================
