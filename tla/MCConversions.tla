--------------------------- MODULE MCConversions ----------------------------
(* The inputs of Conversions for TLC.                                      *)
EXTENDS Conversions

(* Proxies, in each form they may be written in.                           *)
Numbered   == [n \in {"443", "0", "65535", "65536"} |->
                 CASE n = "443" -> 443 [] n = "0" -> 0 [] n = "65535" -> 65535 [] OTHER -> 65536]
PortsSeen  == DOMAIN Numbered \cup {"", "abc"}
Servers    == {"", "h"}
Chars      == {"a", "+", "%2B"}
Secrets    == UNION {[1 .. n -> Chars] : n \in 0 .. 3}
Users      == {<<>>, <<"u">>, <<"+">>}

Links == [is : {"link"}, kind : {"proxy"}, server : Servers, port : PortsSeen,
          mode : {"dd", "ee", "plain"}, secret : Secrets]
Socks == [is : {"link"}, kind : {"socks", "http"}, server : Servers, port : PortsSeen, user : Users]
Uris  == [is : {"uri"}, scheme : {"socks5", "socks4", "http", "ftp"}, server : Servers,
          port : PortsSeen, user : Users]
AllLines == Links \cup Socks \cup Uris \cup {[is |-> "blank"], [is |-> "neither"]}
EveryForm == [line \in AllLines |-> line]

(* Left out: port 0, that a URI or tg://socks may name, and a user of       *)
(* tg://socks that has to be quoted.                                       *)
ToBeQuoted == {l \in Socks : l.kind = "socks" /\ l.user = <<"+">>}
ManySpecs  == AllLines \ (ToBeQuoted \cup {u \in Socks \cup Uris : u.port = "0"})
Quoted     == {l \in ToBeQuoted : l.port = "443"}

(* Rich messages of up to two blocks, lists and details nested.            *)
Words    == {"w1", "w2", "ping", "modules"}
Numerals == <<"1", "2">>
Texts    == {Absent, Image, Str(<<"w1">>), Str(<<"*">>), Str(<<" ">>),
             Concat(<<Str(<<"*", " ">>), Image, Styled(Str(<<"w2">>))>>)}
Leafs    == {Block(t, x, c, <<>>) :
               t \in {Absent, Str(<<"w1">>)}, x \in Texts, c \in {Absent, Str(<<"w2">>)}}
            \cup {Divider}
            \cup {Table(Absent, <<<<x, Str(<<"w1">>)>>, <<y>>>>) : x \in Texts, y \in Texts}
Nested   == {Block(Str(<<"w1">>), Absent, Absent, <<a, Divider>>) : a \in Leafs}
            \cup {Items(num, <<a, b>>) :
                    num \in BOOLEAN, a \in Leafs, b \in {Block(Absent, x, Absent, <<>>) : x \in Texts}}
            \cup {Items(num, <<Items(TRUE, <<a>>)>>) : num \in BOOLEAN, a \in Leafs}
ManyMessages ==
    {<<>>} \cup {<<a>> : a \in Nested}
    \cup {<<a, b>> : a \in Leafs, b \in {Divider, Block(Absent, Str(<<"*">>), Absent, <<>>),
                                         Items(TRUE, <<Block(Absent, Str(<<"*">>), Absent, <<>>)>>)}}

(* Answers to .help as tests/fixtures/fixture_help.json shows one: a       *)
(* headline, then details with a line for each module; or bullets.         *)
Listed(name) == [name |-> <<name>>, commands |-> <<"ping", " ", "|", " ", "ping">>]
Line(name) ==
    Block(Absent, Concat(<<Str(<<"*">>), Str(<<" ">>), Styled(Str(<<name>>)),
                           Str(<<":", " ", "(", " ", "ping", " ", "|", " ", "ping", " ", ")">>)>>),
          Absent, <<>>)
Headline  == Block(Absent, Str(<<"*", " ", "2", " ", "modules", ":">>), Absent, <<>>)
Details(blocks) == Block(Str(<<"modules", ":">>), Absent, Absent, blocks)
NameLists == UNION {[1 .. n -> {"w1", "w2"}] : n \in 0 .. 3}
Layouts(lines) ==
    {<<Headline>> \o lines, <<Headline, Details(lines)>>, <<Headline, Items(FALSE, lines)>>,
     <<Headline, Details(<<Details(lines)>>), Divider>>}
ManyListings ==
    UNION {{[blocks |-> blocks, listed |-> [i \in DOMAIN names |-> Listed(names[i])]] :
               blocks \in Layouts([i \in DOMAIN names |-> Line(names[i])])} :
           names \in NameLists}

(* Every tree in a message or a listing, and its depth.                    *)
RECURSIVE Within(_), DepthOf(_)
Within(tree)  == {tree} \cup UNION {Within(part) : part \in Inner(tree)}
DepthOf(tree) ==
    IF Inner(tree) = {} THEN 0 ELSE 1 + Max({DepthOf(part) : part \in Inner(tree)})
Trees  == UNION {Within(b) :
              b \in UNION {Range(m) : m \in ManyMessages \cup {l.blocks : l \in ManyListings}}}
Depths == [tree \in Trees |-> DepthOf(tree)]

(* A machine with a loopback, a LAN, a link-local and IPv6 addresses.      *)
InBrackets == [a \in {"::1", "fd00::1", "fe80::1"} |->
                 CASE a = "::1" -> "[::1]" [] a = "fd00::1" -> "[fd00::1]" [] OTHER -> "[fe80::1]"]
Addresses  == {"127.0.0.1", "10.0.0.5", "100.64.0.1"} \cup DOMAIN InBrackets

Binds    == {"127.0.0.1", "localhost", "::1", "0.0.0.0", "::", "", "10.0.0.5", "fd00::1"}
Settings(moduleHosts) ==
    [host : Binds, token : {"", "good"}, unauthenticated : BOOLEAN, moduleHost : moduleHosts,
     extra : {{}} \cup {{[name |-> "mcp.example", port |-> p]} : p \in {"", "*", "8443"}}]

Header(name, value) == [name |-> name, value |-> value]
Tokens  == {"", "good", "bad"}
Headers ==
    {<<>>}
    \cup {<<Header(n, Value(b, t))>> :
             n \in {"authorization", "x-api-key"}, b \in BOOLEAN, t \in Tokens}
    \cup {<<Header("authorization", Value(TRUE, t)), Header(n, Value(FALSE, u))>> :
             n \in {"authorization", "x-api-key"}, t \in Tokens, u \in Tokens}
Hosts   == [name : {"127.0.0.1", "localhost", "10.0.0.5", "100.64.0.1", "[::1]", "[fd00::1]",
                    "mcp.example", "other.example"},
            port : {"", "6767", "8443"}]

Post(host, headers) == [method |-> "POST", path |-> "/mcp", host |-> host, headers |-> headers]
Plain == <<Header("authorization", Value(TRUE, "good"))>>
Home  == [name |-> "127.0.0.1", port |-> "6767"]

ManyRequests ==
    [settings : Settings({""}), ip : BOOLEAN, request : {Post(h, Plain) : h \in Hosts}]
    \cup [settings : Settings({""}), ip : {TRUE}, request : {Post(Home, hs) : hs \in Headers}]
    \cup [settings : Settings({"", "127.0.0.1", "0.0.0.0", "::", "fd00::1"}), ip : {TRUE},
          request : {[method |-> "GET", path |-> path, host |-> Home, headers |-> <<>>] :
                       path \in {"/mcp", "/healthz"}}]
=============================================================================
