----------------------------- MODULE TargetChat -----------------------------
(***************************************************************************)
(* Where commands go: the chat and topic in the settings, the cached       *)
(* entity of the chat (_resolved_entity), the calls that resolve it and    *)
(* the switch that replaces it (telegram.py: _resolve_entity,              *)
(* set_target_chat, send_command, _reset_client; server.py: get_history).  *)
(*                                                                         *)
(* An entity is the chat it was resolved from and the generation of the    *)
(* connection it was resolved on.                                          *)
(***************************************************************************)
EXTENDS ChatLink

CONSTANTS Task,             \* tool calls in flight
          Chat,             \* chats that have to be resolved: not Saved Messages
          Topic,            \* topics; 0 is the whole chat
          NoEntity,         \* None
          MaxGeneration,    \* bound on the reconnects
          ConcurrentSwitch, \* may switch_chat run beside other calls?
          OverlappingResets \* may two calls reconnect at a time?

(* What can be written for a topic, 0 for none.                            *)
Written == {Number[n] : n \in DOMAIN Number} \cup {0}

ASSUME TargetAssumption ==
    /\ Chat \subseteq {ById(n) : n \in DOMAIN Number \cup Negative}
                     \cup {ByName(<<u>>) : u \in Username \ DOMAIN Number}
    /\ 0 \in Topic /\ Topic \subseteq Written
    /\ MaxGeneration \in Nat
    /\ ConcurrentSwitch \in BOOLEAN /\ OverlappingResets \in BOOLEAN

Chats  == Chat \cup {Me}
Entity == [chat : Chats, generation : 0 .. MaxGeneration]
Pair   == [chat : Chats, topic : Topic]

VARIABLES chat, topic,  \* settings.her_chat_id, settings.her_topic_id
          entity,       \* _resolved_entity
          generation,   \* the connection of _client
          live,         \* the connections that are not disconnected
          pc, kind,     \* of each call: its await, and what it is
          wants,        \* the chat_id it is resolving
          conn,         \* the connection its local client belongs to
          target,       \* the entity it addresses
          within,       \* its local variable topic
          sent,         \* where its request went (history)
          named,        \* the pairs the settings and the switches named (history)
          latest        \* the last of them (history)

settings == <<chat, topic>>
locals   == <<wants, conn, target, within, sent>>
network  == <<generation, live>>
ghosts   == <<named, latest>>
vars     == <<settings, entity, network, pc, kind, locals, ghosts>>

(* load_settings has parsed her_chat_id: a pair in one of its ways.        *)
Init ==
    /\ latest \in Pair
    /\ \E way \in ConfigWays(latest, Written) :
         LET loaded == LoadTarget(way.link, way.topic)
         IN  chat = loaded.chat /\ topic = loaded.topic
    /\ entity = NoEntity /\ generation = 0 /\ live = {0}
    /\ pc = [t \in Task |-> "idle"] /\ kind = [t \in Task |-> "none"]
    /\ wants = [t \in Task |-> Me]
    /\ conn = [t \in Task |-> 0]
    /\ target = [t \in Task |-> NoEntity]
    /\ within = [t \in Task |-> 0]
    /\ sent = [t \in Task |-> NoEntity]
    /\ named = {latest}

Goto(t, where) == pc' = [pc EXCEPT ![t] = where]

End(t) ==
    /\ Goto(t, "idle") /\ kind' = [kind EXCEPT ![t] = "none"]
    /\ wants' = [wants EXCEPT ![t] = Me] /\ conn' = [conn EXCEPT ![t] = 0]
    /\ target' = [target EXCEPT ![t] = NoEntity] /\ within' = [within EXCEPT ![t] = 0]
    /\ sent' = [sent EXCEPT ![t] = NoEntity]

-----------------------------------------------------------------------------
StartCall(t, k) ==
    /\ pc[t] = "idle"
    /\ ConcurrentSwitch \/ \A s \in Task : kind[s] # "switch"
    /\ kind' = [kind EXCEPT ![t] = k]
    /\ Goto(t, "resolve")
    /\ UNCHANGED <<settings, entity, network, locals, ghosts>>

Name(pair) == named' = named \cup {pair} /\ latest' = pair

(* What set_target_chat does once the settings are changed: ask for the    *)
(* entity, except for Saved Messages, which need none.                     *)
Verify(t, where) ==
    IF where = Me
    THEN UNCHANGED <<pc, kind, wants, conn>>
    ELSE /\ kind' = [kind EXCEPT ![t] = "switch"]
         /\ wants' = [wants EXCEPT ![t] = where]
         /\ conn' = [conn EXCEPT ![t] = generation]
         /\ Goto(t, "asking")

MaySwitch(t) ==
    /\ pc[t] = "idle"
    /\ ConcurrentSwitch \/ \A s \in Task : pc[s] = "idle"

(* set_target_chat: a link that does not parse raises at once; else the    *)
(* settings change and the cache is dropped, and a resolution that fails   *)
(* does not undo them.                                                     *)
StartSwitch(t, pair) ==
    /\ MaySwitch(t)
    /\ \E way \in SwitchWays(pair, Written) :
         LET to == SwitchTarget(way.link, way.topic)
         IN  /\ chat' = to.chat /\ topic' = to.topic
             /\ Verify(t, to.chat)
    /\ entity' = NoEntity
    /\ Name(pair)
    /\ UNCHANGED <<network, target, within, sent>>

(* A request leaves: send_message of a command, get_messages of a history. *)
Request(t, e, where) ==
    /\ target' = [target EXCEPT ![t] = e]
    /\ sent' = [sent EXCEPT ![t] = [chat |-> e.chat, topic |-> where]]
    /\ Goto(t, IF kind[t] = "command" THEN "send" ELSE "fetch")

(* The call has its entity and its client, and reads the topic.  Saved     *)
(* Messages need get_me before the request; a switch only reports.         *)
Resolved(t, e, on) ==
    \/ kind[t] = "switch" /\ End(t)
    \/ /\ kind[t] # "switch" /\ e.chat # Me
       /\ Request(t, e, topic)
       /\ conn' = [conn EXCEPT ![t] = on]
       /\ UNCHANGED <<kind, wants, within>>
    \/ /\ kind[t] # "switch" /\ e.chat = Me
       /\ target' = [target EXCEPT ![t] = e]
       /\ within' = [within EXCEPT ![t] = topic]
       /\ conn' = [conn EXCEPT ![t] = on]
       /\ Goto(t, "whoami")
       /\ UNCHANGED <<kind, wants, sent>>

(* get_client returned.  _resolve_entity: a cached entity and "me" need no *)
(* request.                                                                *)
ResolveCached(t) ==
    /\ pc[t] = "resolve" /\ entity # NoEntity
    /\ Resolved(t, entity, generation)
    /\ UNCHANGED <<settings, entity, network, ghosts>>

ResolveMe(t) ==
    /\ pc[t] = "resolve" /\ entity = NoEntity /\ chat = Me
    /\ Resolved(t, [chat |-> Me, generation |-> generation], generation)
    /\ UNCHANGED <<settings, entity, network, ghosts>>

AskEntity(t) ==
    /\ pc[t] = "resolve" /\ entity = NoEntity /\ chat # Me
    /\ wants' = [wants EXCEPT ![t] = chat]
    /\ conn' = [conn EXCEPT ![t] = generation]
    /\ Goto(t, "asking")
    /\ UNCHANGED <<settings, entity, network, kind, target, within, sent, ghosts>>

(* Mutant of EntityFound: the chat id is cached in the place of its entity.*)
EntityFound_CachesId(t) ==
    /\ pc[t] = "asking" /\ conn[t] \in live
    /\ entity' = wants[t]
    /\ Resolved(t, [chat |-> wants[t], generation |-> conn[t]], conn[t])
    /\ UNCHANGED <<settings, network, ghosts>>

(* The answer is cached, whatever the settings say by now.  A request dies *)
(* with its connection.                                                    *)
EntityFound(t) ==
    /\ pc[t] = "asking" /\ conn[t] \in live
    /\ LET e == [chat |-> wants[t], generation |-> conn[t]]
       IN  entity' = e /\ Resolved(t, e, conn[t])
    /\ UNCHANGED <<settings, network, ghosts>>

EntityFails(t) ==
    /\ pc[t] = "asking"
    /\ End(t)
    /\ UNCHANGED <<settings, entity, network, ghosts>>

(* get_me answered: a command uses the topic it read before, the lambda of *)
(* get_history reads it now.                                               *)
WhoAmI(t) ==
    /\ pc[t] = "whoami" /\ conn[t] \in live
    /\ Request(t, target[t], IF kind[t] = "command" THEN within[t] ELSE topic)
    /\ UNCHANGED <<settings, entity, network, kind, wants, conn, within, ghosts>>

Sent(t) ==
    /\ pc[t] = "send" /\ conn[t] \in live
    /\ Goto(t, "poll")
    /\ UNCHANGED <<settings, entity, network, kind, locals, ghosts>>

(* A request fails or, for a history, answers: the call is over.           *)
EndRequest(t) ==
    /\ pc[t] \in {"whoami", "send", "fetch"}
    /\ End(t)
    /\ UNCHANGED <<settings, entity, network, ghosts>>

EndCommand(t) ==
    /\ pc[t] \in {"poll", "repoll"}
    /\ End(t)
    /\ UNCHANGED <<settings, entity, network, ghosts>>

(* _reset_client disconnects first.  A command reconnects once, a history  *)
(* again and again (_call_with_recovery).                                  *)
BeginReset(t) ==
    /\ pc[t] \in {"poll", "fetch"} /\ generation < MaxGeneration
    /\ OverlappingResets \/ \A s \in Task : pc[s] # "reset"
    /\ Goto(t, "reset")
    /\ live' = live \ {generation}
    /\ UNCHANGED <<settings, entity, generation, kind, locals, ghosts>>

(* A new connection: a command takes it, a history keeps the one it has.   *)
Connected(t) ==
    /\ pc[t] = "reset" /\ generation < MaxGeneration
    /\ generation' = generation + 1 /\ live' = live \cup {generation'}
    /\ \/ /\ kind[t] = "command" /\ Goto(t, "repoll")
          /\ conn' = [conn EXCEPT ![t] = generation']
       \/ /\ kind[t] = "history" /\ Goto(t, "fetch") /\ UNCHANGED conn
    /\ UNCHANGED <<settings, kind, wants, target, within, sent, ghosts>>

(* Mutant: the reconnect keeps the cached entity.                          *)
Reconnect_KeepsEntity(t) == Connected(t) /\ UNCHANGED entity

(* "entity access hashes can differ across DCs": the cache is dropped.     *)
Reconnect(t) == Connected(t) /\ entity' = NoEntity

ReconnectFails(t) ==
    /\ pc[t] = "reset"
    /\ End(t)
    /\ UNCHANGED <<settings, entity, network, ghosts>>

Next ==
    \E t \in Task :
        \/ \E k \in {"command", "history"} : StartCall(t, k)
        \/ \E pair \in Pair : StartSwitch(t, pair)
        \/ ResolveCached(t) \/ ResolveMe(t) \/ AskEntity(t)
        \/ EntityFound(t) \/ EntityFails(t)
        \/ WhoAmI(t) \/ Sent(t) \/ EndRequest(t) \/ EndCommand(t)
        \/ BeginReset(t) \/ Reconnect(t) \/ ReconnectFails(t)

Spec == Init /\ [][Next]_vars

-----------------------------------------------------------------------------
TypeOK ==
    /\ chat \in Chats /\ topic \in Topic
    /\ entity \in Entity \cup {NoEntity} /\ generation \in 0 .. MaxGeneration
    /\ live \subseteq 0 .. generation
    /\ pc \in [Task -> {"idle", "resolve", "asking", "whoami", "send", "fetch",
                        "poll", "reset", "repoll"}]
    /\ kind \in [Task -> {"none", "command", "history", "switch"}]
    /\ wants \in [Task -> Chats] /\ conn \in [Task -> 0 .. MaxGeneration]
    /\ target \in [Task -> Entity \cup {NoEntity}] /\ within \in [Task -> Topic]
    /\ sent \in [Task -> Pair \cup {NoEntity}] /\ named \subseteq Pair /\ latest \in Pair

(* The cache holds the entity of the chat the settings name, resolved on   *)
(* the present connection (invalidate_entity, _reset_client).              *)
CacheIsCurrent ==
    entity # NoEntity => entity.chat = chat /\ entity.generation = generation

(* Between two calls the cache holds no other chat than the settings: what *)
(* switch_chat confirmed is where commands go.                             *)
SwitchSticks ==
    (\A t \in Task : pc[t] = "idle") /\ entity # NoEntity => entity.chat = chat

(* Every request goes to the chat and topic named last (switch_chat: "the  *)
(* chat (and optional forum topic) all commands are sent to").             *)
FollowsLatest ==
    [][\A t \in Task : sent'[t] # sent[t] => sent'[t] \in {latest, NoEntity}]_vars

(* No request goes to a chat and a topic nobody named together.            *)
PairsAreNamed == \A t \in Task : sent[t] \in named \cup {NoEntity}

(* A request is made with an entity resolved on the connection it uses     *)
(* (_reset_client: "force re-resolution").                                 *)
EntityFitsConnection ==
    \A t \in Task :
        pc[t] \in {"poll", "repoll"} /\ target[t].chat # Me
            => target[t].generation = conn[t]
=============================================================================
