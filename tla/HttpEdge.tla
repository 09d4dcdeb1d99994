------------------------------ MODULE HttpEdge ------------------------------
(***************************************************************************)
(* The two HTTP servers as the settings place them: whom the MCP endpoint  *)
(* answers (server.py: Guard; config.py: validate_http_security,           *)
(* transport_security), and the URL under which the userbot is sent to the *)
(* module store (config.py: module_url).                                   *)
(*                                                                         *)
(* An address is bare ("fd00::1"); in a URL or a Host header an IPv6       *)
(* address stands in brackets.  A host is a name and a port, "" for none.  *)
(***************************************************************************)
EXTENDS Naturals, Sequences, SequencesExt

CONSTANTS Bracketed,   \* of each IPv6 address: its form in brackets
          Interfaces,  \* the addresses of this machine
          LinkLocal,   \* those that are link-local
          Outbound     \* the IPv4 address it reaches the internet from

ASSUME EdgeAssumption ==
    /\ LinkLocal \subseteq Interfaces
    /\ Outbound \in Interfaces \ (LinkLocal \cup DOMAIN Bracketed)
    /\ "::1" \in DOMAIN Bracketed /\ Bracketed["::1"] = "[::1]"
    /\ {"127.0.0.1", "localhost", "[::1]"} \cap DOMAIN Bracketed = {}
    /\ (Interfaces \cup DOMAIN Bracketed \cup Range(Bracketed))
         \cap {"", "0.0.0.0", "::", "*", "[::]"} = {}

Wildcards == {"", "0.0.0.0", "::", "*", "[::]"}
Loopbacks == {"127.0.0.1", "localhost", "::1", "[::1]"}

InUrl(address) == IF address \in DOMAIN Bracketed THEN Bracketed[address] ELSE address

(* local_interface_ips, with or without the program ip.                    *)
LocalIps(ip) ==
    IF ip THEN {InUrl(a) : a \in Interfaces \ LinkLocal} \cup {"127.0.0.1"} ELSE {Outbound}

(* validate_http_security: may the server start?                           *)
MayServe(settings) ==
    settings.host \in Loopbacks \/ settings.token # "" \/ settings.unauthenticated

BindHost(settings) == IF settings.host = "" THEN "127.0.0.1" ELSE settings.host

(* An entry of allowed_hosts: a scheme and a port wildcard are dropped.    *)
Entry(raw) == [name |-> raw.name, port |-> IF raw.port = "*" THEN "" ELSE raw.port]

(* Mutant of HostBases: a wildcard bind answers to the outbound address.   *)
HostBases_Outbound(settings, ip) ==
    LET bind == BindHost(settings)
    IN  {[name |-> n, port |-> ""] :
            n \in {"127.0.0.1", "localhost", "[::1]"}
                  \cup (IF bind \in Wildcards THEN {Outbound} ELSE {InUrl(bind)})}
        \cup {Entry(raw) : raw \in settings.extra}

(* _host_bases.                                                            *)
HostBases(settings, ip) ==
    LET bind == BindHost(settings)
    IN  {[name |-> n, port |-> ""] :
            n \in {"127.0.0.1", "localhost", "[::1]"}
                  \cup (IF bind \in Wildcards THEN LocalIps(ip)
                        ELSE IF bind \in Loopbacks THEN {} ELSE {InUrl(bind)})}
        \cup {Entry(raw) : raw \in settings.extra}

(* transport_security: every base with any port, and the SDK's check.      *)
KnownHost(settings, ip, host) ==
    \E base \in HostBases(settings, ip) :
        base = host \/ (base.port = "" /\ base.name = host.name)

-----------------------------------------------------------------------------
(* A header's value is a token, with or without "Bearer " before it.       *)
Value(bearer, token) == [bearer |-> bearer, token |-> token]

(* dict(headers): the last of equal names stays.                           *)
LastOf(headers, name) ==
    LET n == SelectLastInSeq(headers, LAMBDA h : h.name = name)
    IN  IF n = 0 THEN Value(FALSE, "") ELSE headers[n].value

(* What is left of a value: "Bearer " with nothing behind it loses its     *)
(* blank and counts as a token.                                            *)
Raw(value) == IF value.bearer /\ value.token = "" THEN "Bearer" ELSE value.token

(* _supplied_token: Authorization, else X-Api-Key.                         *)
SuppliedToken(headers) ==
    LET first == Raw(LastOf(headers, "authorization"))
    IN  IF first # "" THEN first ELSE Raw(LastOf(headers, "x-api-key"))

(* Mutant: a request without any token passes.                             *)
Authorized_Empty(settings, headers) ==
    SuppliedToken(headers) \in {"", settings.token}

(* _authorized.                                                            *)
Authorized(settings, headers) ==
    settings.token = "" \/ SuppliedToken(headers) = settings.token

(* Guard, and behind it the SDK's check of the host: what answers.         *)
Answer(settings, ip, request) ==
    IF ~MayServe(settings) THEN "not started"
    ELSE IF request.method = "GET"
         THEN IF request.path \in {"/healthz", "/health"} THEN "ok" ELSE "405"
    ELSE IF ~Authorized(settings, request.headers) THEN "401"
    ELSE IF ~KnownHost(settings, ip, request.host) THEN "421"
    ELSE "mcp"

-----------------------------------------------------------------------------
ModuleBindHost(settings) ==
    IF settings.moduleHost # "" THEN settings.moduleHost ELSE settings.host

(* module_url without module_base_url.                                     *)
UrlHost(settings) ==
    LET host == ModuleBindHost(settings)
    IN  IF host \in Wildcards THEN Outbound ELSE InUrl(host)

-----------------------------------------------------------------------------
(* The hosts under which a listener is reached, as a client writes them:   *)
(* asyncio binds "::" for IPv6 alone, "" for both families, and neither    *)
(* "*" nor "[::]".                                                         *)
ReachedAs(bind) ==
    CASE bind = "0.0.0.0" -> Interfaces \ DOMAIN Bracketed
      [] bind = "::"      -> {InUrl(a) : a \in Interfaces \cap DOMAIN Bracketed}
      [] bind = ""        -> {InUrl(a) : a \in Interfaces}
      [] bind \in {"*", "[::]"} -> {}
      [] OTHER            -> {InUrl(bind)}

(* ... directly, or through a front end named in allowed_hosts.            *)
Addressed(settings, ip, host) ==
    \/ /\ host.name \in ReachedAs(BindHost(settings)) \ {InUrl(a) : a \in LinkLocal}
       /\ ip \/ host.name \in {Outbound, "127.0.0.1", "[::1]", InUrl(BindHost(settings))}
    \/ \E raw \in settings.extra :
          raw.name = host.name /\ raw.port \in {"", "*", host.port}

(* The documented ways to show a token.                                    *)
Shows(headers, token) ==
    headers \in {<<[name |-> "authorization", value |-> Value(TRUE, token)]>>,
                 <<[name |-> "x-api-key", value |-> Value(FALSE, token)]>>}
=============================================================================
