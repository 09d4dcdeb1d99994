----------------------------- MODULE ProxySpec ------------------------------
(***************************************************************************)
(* How a proxy is written, and what parse_proxy makes of it (proxy.py).    *)
(*                                                                         *)
(* A line of a list is a value of its own; Form says how it reads: as a    *)
(* tg:// or t.me link with its parameters, as a URI, or as neither.        *)
(***************************************************************************)
EXTENDS Naturals, Sequences

CONSTANTS Form,       \* of each line: what is written in it
          PortNumber, \* the ports written as numbers, and the number each is
          MinSecret   \* the least length of a secret without its prefix (16)

ASSUME SpecAssumption ==
    /\ PortNumber \in [DOMAIN PortNumber -> Nat]
    /\ "" \notin DOMAIN PortNumber
    /\ MinSecret \in Nat

Ports     == 1 .. 65535
NoProxy   == [type |-> "none"]
Malformed == [type |-> "ValueError"]

(* Mutant: form decoding, where "+" stands for a space.                    *)
Unquote_Form(text) ==
    [i \in DOMAIN text |-> CASE text[i] = "+"   -> " "
                             [] text[i] = "%2B" -> "+"
                             [] OTHER           -> text[i]]

(* unquote of _query_params: "+" stays.                                    *)
Unquote(text) == [i \in DOMAIN text |-> IF text[i] = "%2B" THEN "+" ELSE text[i]]

(* _parse_mtproto: the prefix of the secret picks the codec and stays.     *)
Codec == [dd |-> "RandomizedIntermediate", ee |-> "Abridged", plain |-> "Intermediate"]

ParseMtproto(form) ==
    LET body == Unquote(form.secret)
    IN  IF /\ form.server # "" /\ form.port \in DOMAIN PortNumber
           /\ PortNumber[form.port] \in Ports
           /\ Len(body) >= MinSecret
        THEN [type |-> "mtproto", codec |-> Codec[form.mode], server |-> form.server,
              port |-> PortNumber[form.port], secret |-> <<form.mode>> \o body]
        ELSE Malformed

(* _parse_socks_uri: urlsplit refuses a port that is no number or too      *)
(* large; what is quoted in a user's name stays quoted.                    *)
ParseSocksUri(form) ==
    IF /\ form.scheme \in {"socks5", "socks4", "http"}
       /\ form.server # "" /\ form.port \in DOMAIN PortNumber
       /\ PortNumber[form.port] \in Ports \cup {0}
    THEN [type |-> form.scheme, server |-> form.server, port |-> PortNumber[form.port],
          user |-> form.user]
    ELSE Malformed

(* quote: what is not a plain letter or digit is escaped.                  *)
Quote(text) == [i \in DOMAIN text |-> IF text[i] \in {"+", "%2B"} THEN "%2B" ELSE text[i]]

(* tg://socks becomes a URI first.                                         *)
SocksUri(form) ==
    [is |-> "uri", scheme |-> "socks5", server |-> form.server, port |-> form.port,
     user |-> Quote(Unquote(form.user))]

ParseProxy(spec) ==
    LET form == Form[spec]
    IN  CASE form.is = "blank" -> NoProxy
          [] form.is = "link" /\ form.kind = "proxy" -> ParseMtproto(form)
          [] form.is = "link" /\ form.kind = "socks" -> ParseSocksUri(SocksUri(form))
          [] form.is = "uri" -> ParseSocksUri(form)
          [] OTHER -> Malformed

Acceptable(spec) == ParseProxy(spec) # Malformed

(* Mutant: whatever stands in a line is kept.                              *)
ParseProxyList_Junk(lines) ==
    SelectSeq(lines, LAMBDA spec : Form[spec].is \notin {"blank", "comment"})

(* parse_proxy_list: the lines that parse_proxy accepts, in their order.   *)
Kept(spec) == Form[spec].is \notin {"blank", "comment"} /\ Acceptable(spec)

ParseProxyList(lines) ==
    LET result[i \in 0 .. Len(lines)] ==
          IF i = 0 THEN <<>>
          ELSE IF Kept(lines[i]) THEN Append(result[i - 1], lines[i])
          ELSE result[i - 1]
    IN  result[Len(lines)]
=============================================================================
