---------------------------- MODULE Conversions -----------------------------
(***************************************************************************)
(* The pure functions of the server, one input at a time, against what     *)
(* they have to return: parse_proxy (ProxySpec), the text of a rich        *)
(* message and what is read from it (RichText), the HTTP edge and the URL  *)
(* of the module store (HttpEdge).                                         *)
(***************************************************************************)
EXTENDS ProxySpec, RichText, HttpEdge

CONSTANTS Specs,     \* lines that write a proxy, or none
          Messages,  \* sequences of blocks
          Listings,  \* [blocks, listed]: answers to .help, and what they list
          Requests   \* [settings, ip, request]

ASSUME InputAssumption ==
    /\ \A spec \in Specs :
         /\ spec \in DOMAIN Form
         /\ Form[spec].is = "link" => Form[spec].kind \in {"proxy", "socks", "http"}
         /\ Form[spec].is = "link" /\ Form[spec].kind = "proxy" =>
              Form[spec].secret \in Seq(STRING)
         /\ Form[spec].is = "uri" \/ (Form[spec].is = "link" /\ Form[spec].kind # "proxy") =>
              Form[spec].user \in Seq(STRING)
    /\ Messages \subseteq Seq(Blocks)
    /\ \A l \in Listings : l.blocks \in Seq(Blocks)
    /\ \A r \in Requests :
         /\ r.settings.host \in STRING /\ r.settings.token \in STRING /\ r.ip \in BOOLEAN
         /\ r.request.host \in [name : STRING, port : STRING]
         /\ r.request.headers \in Seq([name : STRING, value : [bearer : BOOLEAN, token : STRING]])

VARIABLES task,      \* the function that is called
          input,
          output     \* <<>>, then <<its result>>

vars == <<task, input, output>>

Init ==
    /\ output = <<>>
    /\ \/ task = "parse_proxy" /\ input \in Specs
       \/ task = "message_text" /\ input \in Messages
       \/ task = "list_modules" /\ input \in Listings
       \/ task = "Guard" /\ input \in Requests

Call(function) == task = function /\ output = <<>> /\ UNCHANGED <<task, input>>

CallParseProxy == Call("parse_proxy") /\ output' = <<ParseProxy(input)>>

CallMessageText ==
    /\ Call("message_text")
    /\ LET text == MessageText(<<>>, input)
       IN  output' = <<[text |-> text, settles |-> HasContent(text)]>>

CallListModules ==
    /\ Call("list_modules")
    /\ output' = <<ParseHelp(MessageText(<<>>, input.blocks))>>

CallGuard ==
    /\ Call("Guard")
    /\ output' = <<Answer(input.settings, input.ip, input.request)>>

Next == CallParseProxy \/ CallMessageText \/ CallListModules \/ CallGuard

Spec == Init /\ [][Next]_vars

Returned(function) == task = function /\ output # <<>>

-----------------------------------------------------------------------------
(* What a line means: a complete address, and a secret that is long enough *)
(* or a user, with whatever is escaped in them read back.                  *)
Complete(form) ==
    /\ form.server # "" /\ form.port \in DOMAIN PortNumber
    /\ PortNumber[form.port] \in Ports

Unescaped(text) ==
    [i \in DOMAIN text |-> IF text[i] \in {"+", "%2B"} THEN "+" ELSE text[i]]

Login(type, form) ==
    [type |-> type, server |-> form.server, port |-> PortNumber[form.port],
     user |-> Unescaped(form.user)]

Meaning(form) ==
    CASE form.is = "blank" -> NoProxy
      [] /\ form.is = "link" /\ form.kind = "proxy" /\ Complete(form)
         /\ Len(form.secret) >= MinSecret ->
           [type |-> "mtproto", codec |-> Codec[form.mode], server |-> form.server,
            port |-> PortNumber[form.port], secret |-> <<form.mode>> \o Unescaped(form.secret)]
      [] form.is = "link" /\ form.kind = "socks" /\ Complete(form) -> Login("socks5", form)
      [] form.is = "uri" /\ form.scheme \in {"socks5", "socks4", "http"} /\ Complete(form) ->
           Login(form.scheme, form)
      [] OTHER -> Malformed

(* A proxy is what its line says, in whichever documented form, the "+" of *)
(* its secret included; a line that writes none is refused (proxy.py:      *)
(* "legitimately contain '+'").                                            *)
ProxyAsWritten == Returned("parse_proxy") => output[1] = Meaning(Form[input])

(* The words a node and a block show, in the order of the document.  The   *)
(* title of a table is not among them.                                     *)
Shown(words, tree) ==
    CASE tree.is = "string" -> Only(Alnum, tree.text)
      [] tree.is = "styled" -> words[tree.node]
      [] tree.is = "concat" -> FlattenSeq(Mapped(words, tree.texts))
      [] tree.is = "list"   -> FlattenSeq(Mapped(words, tree.items))
      [] tree.is = "table"  ->
           FlattenSeq([i \in DOMAIN tree.rows |-> FlattenSeq(Mapped(words, tree.rows[i]))])
      [] tree.is = "block"  ->
           words[tree.title] \o words[tree.text] \o words[tree.caption]
               \o FlattenSeq(Mapped(words, tree.blocks))
      [] OTHER -> <<>>

WordsOf[tree \in Tree] == Shown(WordsOf, tree)

WordsOfAll(blocks) == FlattenSeq(Mapped(WordsOf, blocks))

(* A rich message loses none of its words and mixes none up, whatever      *)
(* blocks it is made of (rich.py: "unknown blocks degrade to their text"). *)
(* Numbers are left out: a list adds its own.                              *)
WordsAreKept ==
    Returned("message_text") => Only(Word, output[1].text) = Only(Word, WordsOfAll(input))

(* Is there a numbered list with an item that shows something?             *)
Counted(numbers, block) ==
    \/ block.is = "list" /\ block.ordered /\ BlockText[block] # <<>>
    \/ block.is = "list" /\ \E i \in DOMAIN block.items : numbers[block.items[i]]
    \/ block.is = "block" /\ \E i \in DOMAIN block.blocks : numbers[block.blocks[i]]

Numbers[block \in Blocks] == Counted(Numbers, block)

(* A message ends a settle window if it shows a word; an ack of emoji does *)
(* not, in whatever blocks, unless it numbers them (_has_content: "more    *)
(* than a progress emoji").                                                *)
WordsSettle ==
    Returned("message_text") =>
        (output[1].settles <=> \/ WordsOfAll(input) # <<>>
                               \/ \E i \in DOMAIN input : Numbers[input[i]])

(* list_modules returns the modules that .help lists, in order, and takes  *)
(* no headline for one, however the lines are nested (_parse_help).        *)
ModulesAreListed == Returned("list_modules") => output[1] = input.listed

(* A client that uses an address the server listens on, or a front end of  *)
(* allowed_hosts, and shows its token.  Left out are link-local addresses, *)
(* and where the program ip is missing all but the outbound one            *)
(* (local_interface_ips).                                                  *)
Client(settings, ip, request) ==
    /\ MayServe(settings) /\ request.method = "POST"
    /\ Shows(request.headers, settings.token)
    /\ Addressed(settings, ip, request.host)

(* Who has the token, or needs none: where none is set the server is local *)
(* or declared open (validate_http_security).  A header that says "Bearer" *)
(* alone shows that word.                                                  *)
Trusted(settings, headers) ==
    IF settings.token = ""
    THEN settings.host \in Loopbacks \/ settings.unauthenticated
    ELSE \E i \in DOMAIN headers :
            \/ headers[i].value.token = settings.token
            \/ headers[i].value = Value(TRUE, "") /\ settings.token = "Bearer"

(* Every client is served, by whichever address it comes (README: "Clients *)
(* send the token as"; _host_bases: "all of them must pass the Host        *)
(* check"), and nobody reaches the tools without the token (Guard: "a      *)
(* rejected client never reaches the Telegram layer").                     *)
ServesItsClients ==
    Returned("Guard") =>
        /\ Client(input.settings, input.ip, input.request) => output[1] = "mcp"
        /\ output[1] = "mcp" => Trusted(input.settings, input.request.headers)

(* The URL of a module names an address that the module store listens on   *)
(* (module_url: "that is what the userbot can reach").                     *)
UrlReachesStore ==
    task = "Guard" =>
        UrlHost(input.settings) \in ReachedAs(ModuleBindHost(input.settings))
=============================================================================
