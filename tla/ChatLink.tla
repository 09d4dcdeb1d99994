------------------------------ MODULE ChatLink ------------------------------
(***************************************************************************)
(* How a chat and a topic are written, in the configuration and in         *)
(* switch_chat (config.py: parse_chat_link, load_settings; telegram.py:    *)
(* set_target_chat).                                                       *)
(*                                                                         *)
(* A link is what stands before its path ("t.me/" with or without a        *)
(* scheme, "T.me/", "@", or nothing), the segments of the path, and        *)
(* whether a slash follows.                                                *)
(***************************************************************************)
EXTENDS Naturals, Sequences

CONSTANTS Username,  \* segments a public link may name: 3 to 64 of [A-Za-z0-9_]
          Number,    \* the segments of digits, and the number each is
          Negative   \* segments of a minus sign and digits

ASSUME LinkAssumption ==
    /\ Number \in [DOMAIN Number -> Nat \ {0}]
    /\ Negative \cap (DOMAIN Number \cup Username) = {}
    /\ "c" \notin Username \cup DOMAIN Number
    /\ "me" \notin Username \cup DOMAIN Number \cup Negative

Link(prefix, path, slash) == [prefix |-> prefix, path |-> path, slash |-> slash]

(* A chat is a number or a name.                                           *)
ById(segment) == [id |-> TRUE, path |-> <<segment>>]
ByName(path)  == [id |-> FALSE, path |-> path]
Me            == ByName(<<"me">>)

Private(path) == Len(path) = 3 /\ path[1] = "c" /\ {path[2], path[3]} \subseteq DOMAIN Number
Public(path)  == Len(path) = 2 /\ path[1] \in Username /\ path[2] \in DOMAIN Number
Numeric(path) == Len(path) = 1 /\ path[1] \in DOMAIN Number \cup Negative

(* parse_chat_link: the chat and the topic, or the exception.              *)
Parsed(where, t) == [chat |-> where, topic |-> t, raised |-> "nothing"]
Raises(what)     == [chat |-> Me, topic |-> 0, raised |-> what]

ParseChatLink(link) ==
    LET path  == link.path
        whole == IF link.slash THEN Append(path, "") ELSE path
    IN  CASE link.prefix = "" /\ whole = <<>> -> Parsed(Me, 0)
          [] link.prefix \in {"t.me/", "T.me/"} ->
               IF Private(path)              THEN Parsed(ById(path[2]), Number[path[3]])
               ELSE IF Public(path)          THEN Parsed(ByName(<<path[1]>>), Number[path[2]])
               ELSE IF link.prefix = "T.me/" THEN Raises("IndexError")  \* split("t.me/") finds none
               ELSE IF Len(path) > 1         THEN Raises("ValueError")
               ELSE                               Parsed(ByName(path), 0)
          [] link.prefix = "@"                   -> Parsed(ByName(whole), 0)
          [] link.prefix = "" /\ Numeric(whole)  -> Parsed(ById(path[1]), 0)
          [] OTHER                               -> Parsed(ByName(whole), 0)

(* load_settings: "explicit her_topic_id wins over the link".              *)
LoadTarget(link, explicit) ==
    LET p == ParseChatLink(link)
    IN  [p EXCEPT !.topic = IF explicit # 0 THEN explicit ELSE p.topic]

(* Mutant: the argument wins over the link.                                *)
SwitchTarget_ArgumentWins(link, argument) ==
    LET p == ParseChatLink(link)
    IN  [p EXCEPT !.topic = IF argument # 0 THEN argument ELSE p.topic]

(* set_target_chat: "topic inside the link wins over the argument".        *)
SwitchTarget(link, argument) ==
    LET p == ParseChatLink(link)
    IN  [p EXCEPT !.topic = IF p.topic # 0 THEN p.topic ELSE argument]

-----------------------------------------------------------------------------
(* The documented ways to write a chat alone, and a chat with a topic      *)
(* (parse_chat_link, switch_chat and tests/test_chat_link.py).             *)
BareLinks(where) ==
    IF where = Me THEN {Link("", <<>>, FALSE), Link("", <<"me">>, FALSE)}
    ELSE IF where.id THEN {Link("", where.path, FALSE)}
    ELSE {Link(prefix, where.path, FALSE) : prefix \in {"", "@", "t.me/"}}

(* Saved Messages have no topics, and links no negative ids.               *)
HasTopicLink(where) == where # Me /\ where.path[1] \notin Negative

TopicPath(where, segment) ==
    IF where.id THEN <<"c", where.path[1], segment>> ELSE <<where.path[1], segment>>

TopicLinks(where, t) ==
    {Link(prefix, TopicPath(where, segment), slash) :
        prefix \in {"t.me/", "T.me/"},
        segment \in {n \in DOMAIN Number : Number[n] = t /\ HasTopicLink(where)},
        slash \in BOOLEAN}

(* What an administrator writes for a pair: the topic apart, over whatever *)
(* link, or in the link.                                                   *)
ConfigWays(pair, topics) ==
    LET links == BareLinks(pair.chat) \cup UNION {TopicLinks(pair.chat, t) : t \in topics}
    IN  {[link |-> l, topic |-> pair.topic] : l \in IF pair.topic # 0 THEN links
                                                   ELSE BareLinks(pair.chat)}
        \cup {[link |-> l, topic |-> 0] : l \in TopicLinks(pair.chat, pair.topic)}

(* What a client of switch_chat does: the topic in the link, whatever the  *)
(* argument, or in the argument.                                           *)
SwitchWays(pair, topics) ==
    {[link |-> l, topic |-> pair.topic] : l \in BareLinks(pair.chat)}
    \cup {[link |-> l, topic |-> t] : l \in TopicLinks(pair.chat, pair.topic), t \in topics}
=============================================================================
