-------------------------- MODULE ConversionProofs --------------------------
(***************************************************************************)
(* Theorems about Conversions, for any proxies, messages and requests.     *)
(***************************************************************************)
EXTENDS Conversions, SequenceTheorems, WellFoundedInduction, TLAPS

(* What was asked stays, and an answer is that of the function.            *)
Asked ==
    \/ task = "parse_proxy" /\ input \in Specs
    \/ task = "message_text" /\ input \in Messages
    \/ task = "list_modules" /\ input \in Listings
    \/ task = "Guard" /\ input \in Requests

Answered ==
    output # <<>> =>
        CASE task = "parse_proxy"  -> output = <<ParseProxy(input)>>
          [] task = "message_text" ->
               output = <<[text    |-> MessageText(<<>>, input),
                           settles |-> HasContent(MessageText(<<>>, input))]>>
          [] task = "list_modules" -> output = <<ParseHelp(MessageText(<<>>, input.blocks))>>
          [] task = "Guard" -> output = <<Answer(input.settings, input.ip, input.request)>>

IInv == Asked /\ Answered

(* Asked and Answered hold in every state of Conversions.                  *)
LEMMA Inductive == Spec => []IInv
<1>1. Init => IInv
    BY DEF Init, IInv, Asked, Answered
<1>2. IInv /\ [Next]_vars => IInv'
  <2> SUFFICES ASSUME IInv, [Next]_vars PROVE IInv'
      OBVIOUS
  <2>1. CASE CallParseProxy
      BY <2>1 DEF IInv, Asked, Answered, CallParseProxy, Call
  <2>2. CASE CallMessageText
      BY <2>2 DEF IInv, Asked, Answered, CallMessageText, Call
  <2>3. CASE CallListModules
      BY <2>3 DEF IInv, Asked, Answered, CallListModules, Call
  <2>4. CASE CallGuard
      BY <2>4 DEF IInv, Asked, Answered, CallGuard, Call
  <2>5. CASE UNCHANGED vars
      BY <2>5 DEF IInv, Asked, Answered, vars
  <2> QED BY <2>1, <2>2, <2>3, <2>4, <2>5 DEF Next
<1> QED BY <1>1, <1>2, PTL DEF Spec

-----------------------------------------------------------------------------
(* Induction from 0 to n, from the least number that is not in T.          *)
LEMMA LeastNatural ==
    ASSUME NEW T, T \subseteq Nat, T # {}
    PROVE  \E m \in T : \A k \in T : m <= k
<1> DEFINE R == OpToRel(<, Nat)
<1>1. \A k, m \in Nat : k < m => <<k, m>> \in R
    BY DEF OpToRel
<1>2. IsWellFoundedOn(R, Nat)
    BY NatLessThanWellFounded
<1> HIDE DEF R
<1>3. PICK m \in T : \A k \in T : ~ (<<k, m>> \in R)
    BY <1>2, WFMin
<1>4. \A k \in T : ~ (k < m)
    BY <1>1, <1>3
<1>5. \A k \in T : m <= k
    BY <1>4
<1> QED BY <1>5

(* Induction from 0 to n, from the least number that is not in T.          *)
LEMMA Upward ==
    ASSUME NEW n \in Nat, NEW T, 0 \in T, \A k \in 0 .. n : k \in T /\ k < n => k + 1 \in T
    PROVE  \A k \in 0 .. n : k \in T
<1> SUFFICES ASSUME (0 .. n) \ T # {} PROVE FALSE
    OBVIOUS
<1>1. PICK m \in (0 .. n) \ T : \A k \in (0 .. n) \ T : m <= k
  <2>1. (0 .. n) \ T \subseteq Nat
      OBVIOUS
  <2> QED BY <2>1, LeastNatural
<1>2. m # 0 /\ m - 1 \in 0 .. n /\ m - 1 < n /\ (m - 1) + 1 = m
    OBVIOUS
<1>3. m - 1 \in T
    BY <1>1, <1>2
<1> QED BY <1>1, <1>2, <1>3

-----------------------------------------------------------------------------
(* What a line says is read back, but for port 0 in a URI and an escape in *)
(* a user, or in one that tg://socks has to quote.                         *)
Misread(form) ==
    \/ /\ form.is = "link" /\ form.kind = "socks"
       /\ {"+", "%2B"} \cap Range(form.user) # {}
    \/ form.is = "uri" /\ "%2B" \in Range(form.user)
    \/ /\ form.is = "uri" \/ (form.is = "link" /\ form.kind = "socks")
       /\ form.port \in DOMAIN PortNumber /\ PortNumber[form.port] = 0

(* Where no atom is an escaped plus, unescaping changes nothing; where     *)
(* there is no plus at all, quoting undoes unquoting.                      *)
LEMMA UserKept ==
    ASSUME NEW text \in Seq(STRING)
    PROVE  /\ "%2B" \notin Range(text) => Unescaped(text) = text
           /\ {"+", "%2B"} \cap Range(text) = {} => Quote(Unquote(text)) = text
           /\ Unquote(text) = Unescaped(text) /\ Len(Unquote(text)) = Len(text)
<1>1. text = [i \in DOMAIN text |-> text[i]] /\ DOMAIN text = 1 .. Len(text)
    OBVIOUS
<1>2. Unquote(text) = Unescaped(text)
    BY DEF Unquote, Unescaped
<1>3. "%2B" \notin Range(text) => Unescaped(text) = text
    BY <1>1 DEF Unescaped, Range
<1>4. {"+", "%2B"} \cap Range(text) = {} => Quote(Unquote(text)) = text
    BY <1>1 DEF Quote, Unquote, Range
<1>5. Len(Unquote(text)) = Len(text)
    BY <1>1 DEF Unquote
<1> QED BY <1>2, <1>3, <1>4, <1>5

(* A tg://proxy or t.me/proxy link is read as it is meant (parse_proxy).   *)
LEMMA MtprotoRead ==
    ASSUME NEW spec \in Specs, Form[spec].is = "link", Form[spec].kind = "proxy"
    PROVE  ParseProxy(spec) = Meaning(Form[spec])
<1> DEFINE form == Form[spec]
<1>1. form.secret \in Seq(STRING)
    BY InputAssumption
<1>2. Unquote(form.secret) = Unescaped(form.secret)
      /\ Len(Unquote(form.secret)) = Len(form.secret)
    BY <1>1, UserKept
<1>3. ParseProxy(spec) = ParseMtproto(form)
    BY DEF ParseProxy
<1>4. CASE Complete(form) /\ Len(form.secret) >= MinSecret
    BY <1>2, <1>3, <1>4 DEF ParseMtproto, Complete, Meaning
<1>5. CASE ~ (Complete(form) /\ Len(form.secret) >= MinSecret)
    BY <1>2, <1>3, <1>5 DEF ParseMtproto, Complete, Meaning
<1> QED BY <1>4, <1>5

(* A socks link and a URI that are not misread are read as they are meant. *)
LEMMA LoginRead ==
    ASSUME NEW spec \in Specs, ~Misread(Form[spec]),
           \/ Form[spec].is = "uri"
           \/ Form[spec].is = "link" /\ Form[spec].kind = "socks"
    PROVE  ParseProxy(spec) = Meaning(Form[spec])
<1> DEFINE form == Form[spec]
<1>1. form.user \in Seq(STRING)
    BY InputAssumption
<1>2. form.port \in DOMAIN PortNumber => PortNumber[form.port] # 0
    BY DEF Misread
<1>3. CASE form.is = "uri"
  <2>1. Unescaped(form.user) = form.user
      BY <1>1, <1>3, UserKept DEF Misread
  <2>2. ParseProxy(spec) = ParseSocksUri(form)
      BY <1>3 DEF ParseProxy
  <2>3. CASE Complete(form) /\ form.scheme \in {"socks5", "socks4", "http"}
      BY <1>3, <2>1, <2>2, <2>3 DEF ParseSocksUri, Complete, Meaning, Login
  <2>4. CASE ~ (Complete(form) /\ form.scheme \in {"socks5", "socks4", "http"})
      BY <1>2, <1>3, <2>2, <2>4 DEF ParseSocksUri, Complete, Meaning
  <2> QED BY <2>3, <2>4
<1>4. CASE form.is = "link" /\ form.kind = "socks"
  <2>1. {"+", "%2B"} \cap Range(form.user) = {}
      BY <1>4 DEF Misread
  <2>2. Quote(Unquote(form.user)) = form.user /\ Unescaped(form.user) = form.user
      BY <1>1, <2>1, UserKept
  <2>3. ParseProxy(spec) = ParseSocksUri(SocksUri(form))
      BY <1>4 DEF ParseProxy
  <2>4. CASE Complete(form)
      BY <1>4, <2>2, <2>3, <2>4 DEF ParseSocksUri, SocksUri, Complete, Meaning, Login
  <2>5. CASE ~Complete(form)
      BY <1>2, <1>4, <2>3, <2>5 DEF ParseSocksUri, SocksUri, Complete, Meaning
  <2> QED BY <2>4, <2>5
<1> QED BY <1>3, <1>4

(* Whatever lines are read, but for those that are known to be misread, a  *)
(* proxy is what its line says.                                            *)
THEOREM ProxyRead ==
    ASSUME \A spec \in Specs : ~Misread(Form[spec])
    PROVE  Spec => []ProxyAsWritten
<1>1. ASSUME NEW spec \in Specs
      PROVE  ParseProxy(spec) = Meaning(Form[spec])
  <2>1. CASE Form[spec].is = "uri" \/ (Form[spec].is = "link" /\ Form[spec].kind = "socks")
      BY <2>1, LoginRead
  <2>2. CASE Form[spec].is = "link" /\ Form[spec].kind = "proxy"
      BY <2>2, MtprotoRead
  <2>3. CASE Form[spec].is = "link" /\ Form[spec].kind = "http"
      BY <2>3 DEF ParseProxy, Meaning
  <2>4. CASE Form[spec].is \notin {"link", "uri"}
      BY <2>4 DEF ParseProxy, Meaning
  <2>5. Form[spec].is = "link" => Form[spec].kind \in {"proxy", "socks", "http"}
      BY InputAssumption
  <2> QED BY <2>1, <2>2, <2>3, <2>4, <2>5
<1>2. IInv => ProxyAsWritten
    BY <1>1 DEF IInv, Asked, Answered, ProxyAsWritten, Returned
<1> QED BY <1>2, Inductive, PTL

-----------------------------------------------------------------------------
(* The values of headers, headers, and lists of them, as the requests have *)
(* them.                                                                   *)
Values  == [bearer : BOOLEAN, token : STRING]
Fields  == [name : STRING, value : Values]
Headers == Seq(Fields)

(* A header has a name and a value.                                        *)
LEMMA FieldsOf ==
    ASSUME NEW headers \in Headers, NEW i \in DOMAIN headers
    PROVE  headers[i] \in Fields
<1>1. DOMAIN headers = 1 .. Len(headers)
    BY DEF Headers
<1>2. i \in 1 .. Len(headers)
    BY <1>1
<1> QED BY <1>2 DEF Headers

(* A set of places has a last one.                                         *)
LEMMA LastPlace ==
    ASSUME NEW n \in Nat, NEW S, S \subseteq 1 .. n, S # {}
    PROVE  Max(S) \in S /\ \A i \in S : i <= Max(S)
<1> DEFINE T == {k \in Nat : \A i \in S : i <= k}
<1>1. n \in T
    OBVIOUS
<1>2. PICK m \in T : \A k \in T : m <= k
  <2>1. T \subseteq Nat /\ T # {}
      BY <1>1
  <2> QED BY <2>1, LeastNatural
<1>3. m \in S
  <2> SUFFICES ASSUME m \notin S PROVE FALSE
      OBVIOUS
  <2>1. PICK i \in S : TRUE
      OBVIOUS
  <2>2. i \in Nat /\ i >= 1 /\ i <= m /\ m \in Nat
      BY <1>2, <2>1
  <2>3. m - 1 \in Nat
      BY <2>2
  <2>4. ASSUME NEW j \in S PROVE j <= m - 1
    <3>1. j \in Nat /\ j <= m /\ j # m
        BY <1>2, <2>4
    <3> QED BY <2>2, <3>1
  <2>5. m - 1 \in T
      BY <2>3, <2>4
  <2> QED BY <1>2, <2>2, <2>5
<1>4. \A i \in S : i <= m
    BY <1>2
<1>5. \E x \in S : \A y \in S : x >= y
    BY <1>3, <1>4
<1>6. Max(S) \in S /\ \A y \in S : Max(S) >= y
    BY <1>5 DEF Max
<1> QED BY <1>6

(* What dict(headers) has under a name is the value of a header.           *)
LEMMA LastOfHeaders ==
    ASSUME NEW headers \in Headers, NEW name
    PROVE  \/ \E i \in DOMAIN headers : LastOf(headers, name) = headers[i].value
           \/ LastOf(headers, name) = Value(FALSE, "")
<1> DEFINE I == {i \in 1 .. Len(headers) : headers[i].name = name}
<1>1. SelectLastInSeq(headers, LAMBDA h : h.name = name) = IF I # {} THEN Max(I) ELSE 0
    BY DEF SelectLastInSeq
<1>2. LastOf(headers, name) = IF (IF I # {} THEN Max(I) ELSE 0) = 0 THEN Value(FALSE, "")
                              ELSE headers[IF I # {} THEN Max(I) ELSE 0].value
    BY <1>1 DEF LastOf
<1>3. CASE I = {}
    BY <1>2, <1>3
<1>4. CASE I # {}
  <2>1. Max(I) \in I
    <3>1. Len(headers) \in Nat /\ I \subseteq 1 .. Len(headers)
        BY DEF Headers
    <3> HIDE DEF I
    <3> QED BY <1>4, <3>1, LastPlace
  <2>2. Max(I) \in 1 .. Len(headers) /\ Max(I) # 0
      BY <2>1
  <2>3. Max(I) \in DOMAIN headers
      BY <2>2 DEF Headers
  <2> HIDE DEF I
  <2> QED BY <1>2, <1>4, <2>2, <2>3
<1> QED BY <1>3, <1>4

(* One header is all that dict(headers) has.                               *)
LEMMA LastOfOne ==
    ASSUME NEW n, NEW v, NEW name
    PROVE  LastOf(<<[name |-> n, value |-> v]>>, name) = IF n = name THEN v ELSE Value(FALSE, "")
<1> DEFINE headers == <<[name |-> n, value |-> v]>>
           I == {i \in 1 .. Len(headers) : headers[i].name = name}
<1>1. SelectLastInSeq(headers, LAMBDA h : h.name = name) = IF I # {} THEN Max(I) ELSE 0
    BY DEF SelectLastInSeq
<1>2. Len(headers) = 1 /\ headers[1].name = n /\ headers[1].value = v
    OBVIOUS
<1>3. I = IF n = name THEN {1} ELSE {}
    BY <1>2
<1>4. Max({1}) = 1
  <2>1. Max({1}) \in {1}
      BY LastPlace
  <2> QED BY <2>1
<1>5. LastOf(headers, name) = IF (IF I # {} THEN Max(I) ELSE 0) = 0 THEN Value(FALSE, "")
                              ELSE headers[IF I # {} THEN Max(I) ELSE 0].value
    BY <1>1 DEF LastOf
<1> HIDE DEF I
<1>6. LastOf(headers, name) = IF n = name THEN v ELSE Value(FALSE, "")
  <2> HIDE DEF headers
  <2>1. CASE n = name
      BY <1>2, <1>3, <1>4, <1>5, <2>1
  <2>2. CASE n # name
      BY <1>3, <1>5, <2>2
  <2> QED BY <2>1, <2>2
<1> QED BY <1>6

(* Who shows the token is let in, and who is let in has shown it.          *)
LEMMA ShownIsSupplied ==
    ASSUME NEW settings, settings.token \in STRING, NEW headers,
           Shows(headers, settings.token)
    PROVE  Authorized(settings, headers)
<1>1. CASE settings.token = ""
    BY <1>1 DEF Authorized
<1>2. CASE settings.token # ""
  <2> DEFINE token == settings.token
  <2>1. "authorization" # "x-api-key"
      OBVIOUS
  <2>2. Raw(Value(TRUE, token)) = token /\ Raw(Value(FALSE, token)) = token
        /\ Raw(Value(FALSE, "")) = ""
      BY <1>2 DEF Raw, Value
  <2>3. CASE headers = <<[name |-> "authorization", value |-> Value(TRUE, token)]>>
    <3>1. LastOf(headers, "authorization") = Value(TRUE, token)
        BY <2>1, <2>3, LastOfOne
    <3> QED BY <1>2, <2>2, <3>1 DEF SuppliedToken, Authorized
  <2>4. CASE headers = <<[name |-> "x-api-key", value |-> Value(FALSE, token)]>>
    <3>1. PICK v : v = Value(FALSE, token)
        OBVIOUS
    <3>2. headers = <<[name |-> "x-api-key", value |-> v]>>
        BY <2>4, <3>1
    <3>3. LastOf(headers, "authorization") = Value(FALSE, "")
        BY <2>1, <3>2, LastOfOne
    <3>4. LastOf(headers, "x-api-key") = v
        BY <3>2, LastOfOne
    <3> QED BY <1>2, <2>2, <3>1, <3>3, <3>4 DEF SuppliedToken, Authorized
  <2> QED BY <2>3, <2>4 DEF Shows
<1> QED BY <1>1, <1>2

(* Who is let in has the token in a header, or the token is the word       *)
(* Bearer.                                                                 *)
LEMMA SuppliedIsShown ==
    ASSUME NEW settings, NEW headers \in Headers,
           settings.token # "", Authorized(settings, headers)
    PROVE  \E i \in DOMAIN headers :
              \/ headers[i].value.token = settings.token
              \/ headers[i].value = Value(TRUE, "") /\ settings.token = "Bearer"
<1>1. SuppliedToken(headers) = settings.token
    BY DEF Authorized
<1>2. PICK name \in {"authorization", "x-api-key"} : Raw(LastOf(headers, name)) = settings.token
    BY <1>1 DEF SuppliedToken
<1>3. Raw(Value(FALSE, "")) = ""
    BY DEF Raw, Value
<1>4. LastOf(headers, name) # Value(FALSE, "")
    BY <1>2, <1>3
<1>5. PICK i \in DOMAIN headers : LastOf(headers, name) = headers[i].value
    BY <1>4, LastOfHeaders
<1>6. headers[i].value \in Values
  <2>1. headers[i] \in Fields
      BY <1>5, FieldsOf
  <2> QED BY <2>1 DEF Fields
<1>7. Raw(headers[i].value) = settings.token
    BY <1>2, <1>5
<1>8. CASE headers[i].value.bearer /\ headers[i].value.token = ""
    BY <1>6, <1>7, <1>8 DEF Raw, Value, Values
<1>9. CASE ~ (headers[i].value.bearer /\ headers[i].value.token = "")
    BY <1>7, <1>9 DEF Raw
<1> QED BY <1>8, <1>9

(* Under every address a listener is reached by, its host check knows it.  *)
LEMMA AddressKnown ==
    ASSUME NEW settings, settings.host \in STRING, NEW ip \in BOOLEAN,
           NEW name, name \in ReachedAs(BindHost(settings)) \ {InUrl(a) : a \in LinkLocal},
           ip \/ name \in {Outbound, "127.0.0.1", "[::1]", InUrl(BindHost(settings))}
    PROVE  [name |-> name, port |-> ""] \in HostBases(settings, ip)
<1> DEFINE bind == BindHost(settings)
           known == {"127.0.0.1", "localhost", "[::1]"}
                    \cup (IF bind \in Wildcards THEN LocalIps(ip)
                          ELSE IF bind \in Loopbacks THEN {} ELSE {InUrl(bind)})
<1>1. SUFFICES name \in known
    BY DEF HostBases
<1>2. bind # ""
    BY DEF BindHost
<1>3. \A a \in Interfaces : InUrl(a) \notin Wildcards
    BY EdgeAssumption DEF InUrl, Wildcards, Range
<1>4. CASE bind \in {"*", "[::]"}
    BY <1>4 DEF ReachedAs
<1>5. CASE bind \in {"0.0.0.0", "::"}
  <2>1. PICK a \in Interfaces : name = InUrl(a)
      BY <1>5 DEF ReachedAs, InUrl
  <2>2. a \notin LinkLocal
      BY <2>1
  <2>3. bind \in Wildcards
      BY <1>5 DEF Wildcards
  <2>4. CASE ip
      BY <2>1, <2>2, <2>3, <2>4 DEF LocalIps
  <2>5. CASE ~ip
    <3>1. name # InUrl(bind)
      <4>1. bind \notin DOMAIN Bracketed
          BY <1>5, EdgeAssumption
      <4>2. InUrl(bind) = bind
          BY <4>1 DEF InUrl
      <4> QED BY <1>3, <2>1, <2>3, <4>2
    <3> QED BY <2>3, <2>5, <3>1 DEF LocalIps
  <2> QED BY <2>4, <2>5
<1>6. CASE bind \notin Wildcards
  <2>1. name = InUrl(bind)
      BY <1>2, <1>6 DEF ReachedAs, Wildcards
  <2>2. CASE bind \in Loopbacks
      BY <2>1, <2>2, EdgeAssumption DEF Loopbacks, InUrl
  <2>3. CASE bind \notin Loopbacks
      BY <1>6, <2>1, <2>3
  <2> QED BY <2>2, <2>3
<1> QED BY <1>2, <1>4, <1>5, <1>6 DEF Wildcards

(* The host check knows every host by which a client comes (_host_bases).  *)
LEMMA HostKnown ==
    ASSUME NEW r \in Requests, Addressed(r.settings, r.ip, r.request.host)
    PROVE  KnownHost(r.settings, r.ip, r.request.host)
<1> DEFINE host == r.request.host
<1>1. host \in [name : STRING, port : STRING] /\ r.ip \in BOOLEAN /\ r.settings.host \in STRING
    BY InputAssumption
<1>2. CASE \E raw \in r.settings.extra :
              raw.name = host.name /\ raw.port \in {"", "*", host.port}
  <2>1. PICK raw \in r.settings.extra :
                raw.name = host.name /\ raw.port \in {"", "*", host.port}
      BY <1>2
  <2>2. Entry(raw) \in HostBases(r.settings, r.ip)
      BY DEF HostBases
  <2>3. CASE raw.port \in {"", "*"}
    <3>1. Entry(raw).port = "" /\ Entry(raw).name = host.name
        BY <2>1, <2>3 DEF Entry
    <3> QED BY <2>2, <3>1 DEF KnownHost
  <2>4. CASE raw.port \notin {"", "*"}
    <3>1. Entry(raw) = [name |-> host.name, port |-> host.port]
        BY <2>1, <2>4 DEF Entry
    <3>2. Entry(raw) = host
        BY <1>1, <3>1
    <3> QED BY <2>2, <3>2 DEF KnownHost
  <2> QED BY <2>3, <2>4
<1>3. CASE /\ host.name \in ReachedAs(BindHost(r.settings)) \ {InUrl(a) : a \in LinkLocal}
           /\ r.ip \/ host.name \in {Outbound, "127.0.0.1", "[::1]", InUrl(BindHost(r.settings))}
  <2>1. [name |-> host.name, port |-> ""] \in HostBases(r.settings, r.ip)
      BY <1>1, <1>3, AddressKnown
  <2> QED BY <2>1 DEF KnownHost
<1> QED BY <1>2, <1>3 DEF Addressed

(* Whoever uses an address of the server and shows its token is served,    *)
(* however it is bound, and the tools answer nobody else.                  *)
THEOREM ClientsServed == Spec => []ServesItsClients
<1>1. ASSUME NEW r \in Requests, Client(r.settings, r.ip, r.request)
      PROVE  Answer(r.settings, r.ip, r.request) = "mcp"
  <2>1. r.settings.token \in STRING
      BY InputAssumption
  <2>2. Authorized(r.settings, r.request.headers)
      BY <1>1, <2>1, ShownIsSupplied DEF Client
  <2>3. KnownHost(r.settings, r.ip, r.request.host)
      BY <1>1, HostKnown DEF Client
  <2> QED BY <1>1, <2>2, <2>3 DEF Client, Answer
<1>2. ASSUME NEW r \in Requests, Answer(r.settings, r.ip, r.request) = "mcp"
      PROVE  Trusted(r.settings, r.request.headers)
  <2>1. MayServe(r.settings) /\ Authorized(r.settings, r.request.headers)
      BY <1>2 DEF Answer
  <2>2. CASE r.settings.token = ""
      BY <2>1, <2>2 DEF MayServe, Trusted
  <2>3. CASE r.settings.token # ""
    <3>1. r.request.headers \in Headers
        BY InputAssumption DEF Headers, Fields, Values
    <3> QED BY <2>1, <2>3, <3>1, SuppliedIsShown DEF Trusted
  <2> QED BY <2>2, <2>3
<1>3. IInv => ServesItsClients
  <2> SUFFICES ASSUME IInv, Returned("Guard")
               PROVE  /\ Client(input.settings, input.ip, input.request) => output[1] = "mcp"
                      /\ output[1] = "mcp" => Trusted(input.settings, input.request.headers)
      BY DEF ServesItsClients
  <2>1. input \in Requests /\ output = <<Answer(input.settings, input.ip, input.request)>>
      BY DEF IInv, Asked, Answered, Returned
  <2>2. output[1] = Answer(input.settings, input.ip, input.request)
      BY <2>1
  <2> QED BY <1>1, <1>2, <2>1, <2>2
<1> QED BY <1>3, Inductive, PTL

-----------------------------------------------------------------------------
(* Sequences: one element more, folds of FlattenSeq, and what a text has   *)
(* of a set of atoms.                                                      *)

(* A sequence and one more element, as an operator that stays folded where *)
(* lemmas are cited.                                                       *)
More(s, x) == Append(s, x)

(* What one element more makes of a sequence.                              *)
LEMMA MoreSeq ==
    ASSUME NEW A, NEW s \in Seq(A), NEW x \in A
    PROVE  /\ More(s, x) \in Seq(A) /\ More(s, x) # <<>>
           /\ Len(More(s, x)) = Len(s) + 1 /\ DOMAIN More(s, x) = 1 .. Len(s) + 1
           /\ \A i \in 1 .. Len(s) : More(s, x)[i] = s[i]
           /\ More(s, x)[Len(s) + 1] = x
BY AppendProperties, LenProperties DEF More

(* One element more, behind two sequences.                                 *)
LEMMA ConcatMore ==
    ASSUME NEW A, NEW s \in Seq(A), NEW t \in Seq(A), NEW x \in A
    PROVE  s \o More(t, x) = More(s \o t, x)
BY DEF More

(* Induction over sequences, from the shortest that is not in T.           *)
LEMMA SequencesIn ==
    ASSUME NEW A, NEW T, <<>> \in T,
           \A s \in Seq(A), x \in A : s \in T => More(s, x) \in T
    PROVE  Seq(A) \subseteq T
<1> SUFFICES ASSUME Seq(A) \ T # {} PROVE FALSE
    OBVIOUS
<1> DEFINE Lengths == {Len(s) : s \in Seq(A) \ T}
<1>1. PICK m \in Lengths : \A k \in Lengths : m <= k
  <2>1. Lengths \subseteq Nat /\ Lengths # {}
      BY LenProperties
  <2> QED BY <2>1, LeastNatural
<1>2. PICK s \in Seq(A) \ T : m = Len(s)
    BY <1>1
<1>3. PICK r \in Seq(A), x \in A : s = More(r, x)
    BY <1>2, SequenceEmptyOrAppend DEF More
<1>4. Len(s) = Len(r) + 1 /\ Len(r) \in Nat
    BY <1>3, MoreSeq, LenProperties
<1>5. r \notin T
    BY <1>2, <1>3
<1>6. Len(r) \in Lengths
    BY <1>5
<1> QED BY <1>1, <1>2, <1>4, <1>6

(* A function on 1 .. n is a sequence.                                     *)
LEMMA FunctionSeq ==
    ASSUME NEW n \in Nat, NEW A, NEW f \in [1 .. n -> A]
    PROVE  f \in Seq(A) /\ Len(f) = n /\ DOMAIN f = 1 .. n
OBVIOUS

(* The sequences of a mapped sequence.                                     *)
Flat(f, seqs, n) == f = [i \in 1 .. n |-> IF i = 1 THEN seqs[i] ELSE f[i - 1] \o seqs[i]]

(* The running concatenation, that FoldLeft chooses, exists: it is         *)
(* extended from each length to the next.                                  *)
LEMMA FlatExists ==
    ASSUME NEW A, NEW seqs \in Seq(Seq(A)), seqs # <<>>
    PROVE  \E f \in [1 .. Len(seqs) -> Seq(A)] : Flat(f, seqs, Len(seqs))
<1> DEFINE n == Len(seqs)
           Fits(f, k) == \A i \in 1 .. n :
                            i <= k => f[i] = IF i = 1 THEN seqs[i] ELSE f[i - 1] \o seqs[i]
           T == {k \in 0 .. n : \E f \in [1 .. n -> Seq(A)] : Fits(f, k)}
<1>1. n \in Nat /\ \A i \in 1 .. n : seqs[i] \in Seq(A)
    BY LenProperties, ElementOfSeq
<1>2. 0 \in T
  <2>1. [i \in 1 .. n |-> <<>>] \in [1 .. n -> Seq(A)]
      BY EmptySeq
  <2>2. Fits([i \in 1 .. n |-> <<>>], 0)
      OBVIOUS
  <2>3. 0 \in 0 .. n
      BY <1>1
  <2> HIDE DEF Fits
  <2> QED BY <2>1, <2>2, <2>3
<1>3. ASSUME NEW k \in 0 .. n, k \in T, k < n
      PROVE  k + 1 \in T
  <2>1. PICK f \in [1 .. n -> Seq(A)] : Fits(f, k)
      BY <1>3
  <2> DEFINE v == IF k + 1 = 1 THEN seqs[1] ELSE f[k] \o seqs[k + 1]
             g == [i \in 1 .. n |-> IF i = k + 1 THEN v ELSE f[i]]
  <2>2. v \in Seq(A)
    <3>1. k + 1 \in 1 .. n /\ seqs[k + 1] \in Seq(A)
        BY <1>1, <1>3
    <3>2. k # 0 => k \in 1 .. n
        BY <1>3
    <3>3. k # 0 => f[k] \in Seq(A)
        BY <2>1, <3>2
    <3> QED BY <3>1, <3>3, ConcatProperties
  <2>3. g \in [1 .. n -> Seq(A)]
      BY <2>1, <2>2
  <2>4. ASSUME NEW i \in 1 .. n, i <= k + 1
        PROVE  g[i] = IF i = 1 THEN seqs[i] ELSE g[i - 1] \o seqs[i]
    <3>1. CASE i = k + 1
        BY <2>4, <3>1
    <3>2. CASE i <= k
      <4>1. i # k + 1 /\ (i # 1 => i - 1 \in 1 .. n /\ i - 1 # k + 1)
          BY <1>1, <2>4, <3>2
      <4>2. g[i] = f[i] /\ (i # 1 => g[i - 1] = f[i - 1])
          BY <4>1
      <4> HIDE DEF g
      <4> QED BY <2>1, <3>2, <4>2
    <3> QED BY <1>3, <2>4, <3>1, <3>2
  <2>5. Fits(g, k + 1)
      BY <2>4
  <2> HIDE DEF g, Fits
  <2> QED BY <1>1, <1>3, <2>3, <2>5
<1>4. n \in T
  <2> HIDE DEF T
  <2>1. \A k \in 0 .. n : k \in T
      BY <1>1, <1>2, <1>3, Upward
  <2> QED BY <1>1, <2>1
<1>5. PICK f \in [1 .. n -> Seq(A)] : Fits(f, n)
    BY <1>4
<1>6. Flat(f, seqs, n)
  <2>1. f = [i \in 1 .. n |-> f[i]]
      OBVIOUS
  <2>2. \A i \in 1 .. n : f[i] = IF i = 1 THEN seqs[i] ELSE f[i - 1] \o seqs[i]
    <3>1. \A i \in 1 .. n : i <= n
        BY <1>1
    <3> QED BY <1>5, <3>1
  <2> QED BY <2>1, <2>2 DEF Flat
<1> QED BY <1>6

(* There is one running concatenation at most.                             *)
LEMMA FlatOnce ==
    ASSUME NEW n \in Nat, NEW seqs, NEW f, NEW g, Flat(f, seqs, n), Flat(g, seqs, n)
    PROVE  f = g
<1> DEFINE T == {k \in 0 .. n : k = 0 \/ f[k] = g[k]}
<1>1. 0 \in T
    OBVIOUS
<1>2. ASSUME NEW k \in 0 .. n, k \in T, k < n
      PROVE  k + 1 \in T
  <2>1. k + 1 \in 1 .. n /\ (k + 1) - 1 = k /\ (k = 0 <=> k + 1 = 1)
      BY <1>2
  <2>2. f[k + 1] = IF k + 1 = 1 THEN seqs[k + 1] ELSE f[k] \o seqs[k + 1]
      BY <2>1 DEF Flat
  <2>3. g[k + 1] = IF k + 1 = 1 THEN seqs[k + 1] ELSE g[k] \o seqs[k + 1]
      BY <2>1 DEF Flat
  <2>4. k # 0 => f[k] = g[k]
      BY <1>2
  <2>5. f[k + 1] = g[k + 1]
      BY <2>1, <2>2, <2>3, <2>4
  <2> QED BY <2>1, <2>5
<1> HIDE DEF T
<1>3. \A k \in 0 .. n : k \in T
    BY <1>1, <1>2, Upward
<1>4. \A k \in 1 .. n : f[k] = g[k]
  <2>1. \A k \in 1 .. n : k \in 0 .. n /\ k # 0
      OBVIOUS
  <2> QED BY <1>3, <2>1 DEF T
<1>5. f = [i \in 1 .. n |-> f[i]] /\ g = [i \in 1 .. n |-> g[i]]
    BY DEF Flat
<1> QED BY <1>4, <1>5

(* FlattenSeq is the last value of a running concatenation.                *)
LEMMA Flattened ==
    ASSUME NEW A, NEW seqs \in Seq(Seq(A)), seqs # <<>>
    PROVE  \E f \in [1 .. Len(seqs) -> Seq(A)] :
              Flat(f, seqs, Len(seqs)) /\ FlattenSeq(seqs) = f[Len(seqs)]
<1> DEFINE n == Len(seqs)
           c == CHOOSE f : Flat(f, seqs, n)
<1>1. n \in Nat /\ n # 0 /\ n \in 1 .. n
    BY EmptySeq, LenProperties
<1>2. PICK g \in [1 .. n -> Seq(A)] : Flat(g, seqs, n)
    BY FlatExists
<1>3. Flat(c, seqs, n)
    BY <1>2
<1>4. FlattenSeq(seqs) = c[n]
    BY <1>1 DEF FlattenSeq, Flat
<1> HIDE DEF c
<1>5. c = g
    BY <1>1, <1>2, <1>3, FlatOnce
<1> QED BY <1>2, <1>4, <1>5

(* No sequence, nothing to concatenate.                                    *)
LEMMA FlattenEmpty == FlattenSeq(<<>>) = <<>>
BY DEF FlattenSeq

(* The concatenation of texts is a text.                                   *)
LEMMA FlattenType ==
    ASSUME NEW A, NEW seqs \in Seq(Seq(A))
    PROVE  FlattenSeq(seqs) \in Seq(A)
<1>1. CASE seqs = <<>>
    BY <1>1, FlattenEmpty, EmptySeq
<1>2. CASE seqs # <<>>
  <2>1. PICK f \in [1 .. Len(seqs) -> Seq(A)] : FlattenSeq(seqs) = f[Len(seqs)]
      BY <1>2, Flattened
  <2>2. Len(seqs) \in 1 .. Len(seqs)
      BY <1>2, EmptySeq, LenProperties
  <2> QED BY <2>1, <2>2
<1> QED BY <1>1, <1>2

(* One sequence more comes last in the concatenation.                      *)
LEMMA FlattenMore ==
    ASSUME NEW A, NEW seqs \in Seq(Seq(A)), NEW s \in Seq(A)
    PROVE  FlattenSeq(More(seqs, s)) = FlattenSeq(seqs) \o s
<1> DEFINE more == More(seqs, s)
           n == Len(seqs)
<1>1. /\ more \in Seq(Seq(A)) /\ more # <<>> /\ Len(more) = n + 1 /\ n \in Nat
      /\ \A i \in 1 .. n : more[i] = seqs[i]
      /\ more[n + 1] = s
    BY MoreSeq, LenProperties
<1> HIDE DEF more
<1>2. PICK g \in [1 .. n + 1 -> Seq(A)] : Flat(g, more, n + 1) /\ FlattenSeq(more) = g[n + 1]
    BY <1>1, Flattened
<1>3. g[n + 1] = IF n + 1 = 1 THEN s ELSE g[n] \o s
  <2>1. n + 1 \in 1 .. n + 1 /\ (n + 1) - 1 = n
      BY <1>1
  <2>2. g[n + 1] = IF n + 1 = 1 THEN more[n + 1] ELSE g[(n + 1) - 1] \o more[n + 1]
      BY <1>2, <2>1 DEF Flat
  <2> QED BY <1>1, <2>1, <2>2
<1>4. CASE seqs = <<>>
  <2>1. n + 1 = 1
      BY <1>4, EmptySeq
  <2>2. FlattenSeq(seqs) \o s = s
      BY <1>4, FlattenEmpty, ConcatEmptySeq
  <2> QED BY <1>2, <1>3, <2>1, <2>2 DEF more
<1>5. CASE seqs # <<>>
  <2>1. PICK f \in [1 .. n -> Seq(A)] : Flat(f, seqs, n) /\ FlattenSeq(seqs) = f[n]
      BY <1>5, Flattened
  <2>2. n # 0 /\ n \in 1 .. n /\ n <= n + 1 /\ n + 1 \in Nat /\ n + 1 # 1
      BY <1>1, <1>5, EmptySeq
  <2> DEFINE h == [i \in 1 .. n |-> g[i]]
  <2>3. ASSUME NEW i \in 1 .. n
        PROVE  h[i] = IF i = 1 THEN seqs[i] ELSE h[i - 1] \o seqs[i]
    <3>1. i \in 1 .. n + 1 /\ (i # 1 => i - 1 \in 1 .. n)
        BY <1>1
    <3>2. g[i] = IF i = 1 THEN more[i] ELSE g[i - 1] \o more[i]
        BY <1>2, <3>1 DEF Flat
    <3>3. h[i] = g[i] /\ (i # 1 => h[i - 1] = g[i - 1]) /\ more[i] = seqs[i]
        BY <1>1, <3>1
    <3> HIDE DEF h
    <3> QED BY <3>2, <3>3
  <2>4. Flat(h, seqs, n)
    <3>1. h = [i \in 1 .. n |-> h[i]]
        OBVIOUS
    <3> HIDE DEF h
    <3> QED BY <2>3, <3>1 DEF Flat
  <2>5. f[n] = g[n]
    <3>1. h[n] = g[n]
        BY <2>2
    <3> HIDE DEF h
    <3>2. f = h
        BY <1>1, <2>1, <2>4, FlatOnce
    <3> QED BY <3>1, <3>2
  <2> QED BY <1>2, <1>3, <2>1, <2>2, <2>5 DEF more
<1> QED BY <1>4, <1>5

(* Two runs of sequences are concatenated one after the other.             *)
LEMMA FlattenConcat ==
    ASSUME NEW A, NEW s \in Seq(Seq(A)), NEW t \in Seq(Seq(A))
    PROVE  FlattenSeq(s \o t) = FlattenSeq(s) \o FlattenSeq(t)
<1> DEFINE T == {u \in Seq(Seq(A)) : FlattenSeq(s \o u) = FlattenSeq(s) \o FlattenSeq(u)}
<1>1. <<>> \in T
  <2>1. <<>> \in Seq(Seq(A)) /\ s \o <<>> = s
      BY EmptySeq, ConcatEmptySeq
  <2>2. FlattenSeq(s) \o <<>> = FlattenSeq(s)
      BY FlattenType, ConcatEmptySeq
  <2> QED BY <2>1, <2>2, FlattenEmpty
<1>2. ASSUME NEW u \in Seq(Seq(A)), NEW x \in Seq(A), u \in T
      PROVE  More(u, x) \in T
  <2>1. More(u, x) \in Seq(Seq(A))
      BY MoreSeq
  <2>2. s \o More(u, x) = More(s \o u, x)
      BY ConcatMore
  <2>3. FlattenSeq(More(s \o u, x)) = FlattenSeq(s \o u) \o x
    <3>1. s \o u \in Seq(Seq(A))
        BY ConcatProperties
    <3> QED BY <3>1, FlattenMore
  <2>4. FlattenSeq(s \o u) = FlattenSeq(s) \o FlattenSeq(u)
      BY <1>2
  <2>5. FlattenSeq(More(u, x)) = FlattenSeq(u) \o x
      BY FlattenMore
  <2>6. (FlattenSeq(s) \o FlattenSeq(u)) \o x = FlattenSeq(s) \o (FlattenSeq(u) \o x)
    <3>1. FlattenSeq(s) \in Seq(A) /\ FlattenSeq(u) \in Seq(A)
        BY FlattenType
    <3> QED BY <3>1, ConcatAssociative
  <2> QED BY <2>1, <2>2, <2>3, <2>4, <2>5, <2>6
<1> HIDE DEF T
<1>3. Seq(Seq(A)) \subseteq T
    BY <1>1, <1>2, SequencesIn
<1> QED BY <1>3 DEF T

(* A function on a sequence and one element more.                          *)
LEMMA MapMore ==
    ASSUME NEW A, NEW B, NEW s \in Seq(A), NEW x \in A, NEW f \in [A -> B]
    PROVE  Mapped(f, s) \in Seq(B) /\ Mapped(f, More(s, x)) = More(Mapped(f, s), f[x])
<1> DEFINE n == Len(s)
           more == More(s, x)
           m == [i \in DOMAIN s |-> f[s[i]]]
           l == [i \in DOMAIN more |-> f[more[i]]]
           r == More(m, f[x])
<1>1. n \in Nat /\ DOMAIN s = 1 .. n /\ (\A i \in 1 .. n : s[i] \in A) /\ n + 1 \in Nat
    BY LenProperties, ElementOfSeq
<1>2. m \in Seq(B) /\ Len(m) = n
  <2>1. m \in [1 .. n -> B]
      BY <1>1
  <2> HIDE DEF m
  <2> QED BY <1>1, <2>1, FunctionSeq
<1>3. /\ more \in Seq(A) /\ Len(more) = n + 1 /\ DOMAIN more = 1 .. n + 1
      /\ \A i \in 1 .. n : more[i] = s[i]
      /\ more[n + 1] = x
    BY MoreSeq, LenProperties
<1>4. l \in Seq(B) /\ Len(l) = n + 1
  <2>1. \A i \in 1 .. n + 1 : more[i] \in A
      BY <1>3, ElementOfSeq
  <2>2. l \in [1 .. n + 1 -> B]
    <3> HIDE DEF more
    <3> QED BY <1>3, <2>1
  <2> HIDE DEF l
  <2> QED BY <1>1, <2>2, FunctionSeq
<1>5. /\ r \in Seq(B) /\ Len(r) = n + 1
      /\ \A i \in 1 .. n : r[i] = m[i]
      /\ r[n + 1] = f[x]
  <2>1. f[x] \in B
      OBVIOUS
  <2>2. PICK y : y = f[x]
      OBVIOUS
  <2>3. y \in B
      BY <2>1, <2>2
  <2>4. PICK q : q = m
      OBVIOUS
  <2>5. q \in Seq(B) /\ Len(q) = n
      BY <1>2, <2>4
  <2>6. /\ More(q, y) \in Seq(B) /\ More(q, y) # <<>>
        /\ Len(More(q, y)) = Len(q) + 1 /\ DOMAIN More(q, y) = 1 .. Len(q) + 1
        /\ \A i \in 1 .. Len(q) : More(q, y)[i] = q[i]
        /\ More(q, y)[Len(q) + 1] = y
      BY <2>3, <2>5, MoreSeq
  <2> QED BY <2>2, <2>4, <2>5, <2>6
<1>6. ASSUME NEW i \in 1 .. n + 1 PROVE l[i] = r[i]
  <2>1. l[i] = f[more[i]]
    <3> HIDE DEF more
    <3> QED BY <1>3
  <2>2. CASE i = n + 1
    <3> HIDE DEF l, r, more
    <3> QED BY <1>3, <1>5, <2>1, <2>2
  <2>3. CASE i \in 1 .. n
    <3>1. m[i] = f[s[i]]
        BY <1>1, <2>3
    <3> HIDE DEF l, r, more, m
    <3> QED BY <1>3, <1>5, <2>1, <2>3, <3>1
  <2> QED BY <1>1, <2>2, <2>3
<1>7. l = r
  <2> HIDE DEF l, r
  <2> QED BY <1>4, <1>5, <1>6, SeqEqual
<1> QED BY <1>2, <1>7 DEF Mapped

-----------------------------------------------------------------------------
(* Only on the empty text, on one atom more, on two texts, on many.        *)
LEMMA OnlyEmpty == \A S : Only(S, <<>>) = <<>>
<1> SUFFICES ASSUME NEW S PROVE Only(S, <<>>) = <<>>
    OBVIOUS
<1>1. [i \in DOMAIN <<>> |-> IF <<>>[i] \in S THEN << <<>>[i] >> ELSE <<>>] = <<>>
    OBVIOUS
<1> QED BY <1>1, FlattenEmpty DEF Only

(* One atom more is kept if it is in S.                                    *)
LEMMA OnlyMore ==
    ASSUME NEW A, NEW S, NEW text \in Seq(A), NEW x \in A
    PROVE  /\ Only(S, text) \in Seq(A)
           /\ Only(S, More(text, x)) = Only(S, text) \o (IF x \in S THEN <<x>> ELSE <<>>)
<1> DEFINE f == [y \in A |-> IF y \in S THEN <<y>> ELSE <<>>]
<1>1. f \in [A -> Seq(A)] /\ f[x] = IF x \in S THEN <<x>> ELSE <<>>
    OBVIOUS
<1>2. ASSUME NEW t \in Seq(A) PROVE Only(S, t) = FlattenSeq(Mapped(f, t))
  <2>1. \A i \in DOMAIN t : t[i] \in A
      OBVIOUS
  <2>2. Mapped(f, t) = [i \in DOMAIN t |-> IF t[i] \in S THEN <<t[i]>> ELSE <<>>]
      BY <2>1 DEF Mapped
  <2> QED BY <2>2 DEF Only
<1> HIDE DEF f
<1>3. Mapped(f, text) \in Seq(Seq(A)) /\ Mapped(f, More(text, x)) = More(Mapped(f, text), f[x])
  <2>1. PICK B : B = Seq(A)
      OBVIOUS
  <2>2. f \in [A -> B]
      BY <1>1, <2>1
  <2>3. Mapped(f, text) \in Seq(B) /\ Mapped(f, More(text, x)) = More(Mapped(f, text), f[x])
      BY <2>2, MapMore
  <2> QED BY <2>1, <2>3
<1>4. f[x] \in Seq(A)
    BY <1>1
<1>5. /\ FlattenSeq(Mapped(f, text)) \in Seq(A)
      /\ FlattenSeq(More(Mapped(f, text), f[x])) = FlattenSeq(Mapped(f, text)) \o f[x]
    BY <1>3, <1>4, FlattenType, FlattenMore
<1>6. More(text, x) \in Seq(A)
    BY MoreSeq
<1> QED BY <1>1, <1>2, <1>3, <1>5, <1>6

(* What a text has of S is a text.                                         *)
LEMMA OnlyType ==
    ASSUME NEW A, NEW S, NEW text \in Seq(A)
    PROVE  Only(S, text) \in Seq(A)
<1>1. CASE text = <<>>
    BY <1>1, OnlyEmpty, EmptySeq
<1>2. CASE text # <<>>
  <2>1. text[1] \in A
      BY <1>2, EmptySeq, ElementOfSeq
  <2> QED BY <2>1, OnlyMore
<1> QED BY <1>1, <1>2

(* What two texts have of S, one after the other.                          *)
LEMMA OnlyConcat ==
    ASSUME NEW A, NEW S, NEW s \in Seq(A), NEW t \in Seq(A)
    PROVE  Only(S, s \o t) = Only(S, s) \o Only(S, t)
<1> DEFINE T == {u \in Seq(A) : Only(S, s \o u) = Only(S, s) \o Only(S, u)}
<1>1. <<>> \in T
  <2>1. <<>> \in Seq(A) /\ s \o <<>> = s
      BY EmptySeq, ConcatEmptySeq
  <2>2. Only(S, s) \o <<>> = Only(S, s)
      BY OnlyType, ConcatEmptySeq
  <2> QED BY <2>1, <2>2, OnlyEmpty
<1>2. ASSUME NEW u \in Seq(A), NEW x \in A, u \in T
      PROVE  More(u, x) \in T
  <2> DEFINE p == IF x \in S THEN <<x>> ELSE <<>>
  <2>1. More(u, x) \in Seq(A) /\ p \in Seq(A)
      BY MoreSeq
  <2>2. s \o More(u, x) = More(s \o u, x)
      BY ConcatMore
  <2>3. Only(S, More(s \o u, x)) = Only(S, s \o u) \o p
    <3>1. PICK w : w = s \o u
        OBVIOUS
    <3>2. w \in Seq(A)
        BY <3>1, ConcatProperties
    <3>3. Only(S, More(w, x)) = Only(S, w) \o p
        BY <3>2, OnlyMore
    <3> QED BY <3>1, <3>3
  <2>4. Only(S, s \o u) = Only(S, s) \o Only(S, u)
      BY <1>2
  <2>5. Only(S, More(u, x)) = Only(S, u) \o p
      BY OnlyMore
  <2> HIDE DEF p
  <2>6. (Only(S, s) \o Only(S, u)) \o p = Only(S, s) \o (Only(S, u) \o p)
    <3>1. Only(S, s) \in Seq(A) /\ Only(S, u) \in Seq(A) /\ p \in Seq(A)
        BY <2>1, OnlyType
    <3> QED BY <3>1, ConcatAssociative
  <2> QED BY <2>1, <2>2, <2>3, <2>4, <2>5, <2>6
<1> HIDE DEF T
<1>3. Seq(A) \subseteq T
    BY <1>1, <1>2, SequencesIn
<1> QED BY <1>3 DEF T

(* What remains of each part, and of all of them.                          *)
Each(S, parts) == [i \in DOMAIN parts |-> Only(S, parts[i])]

(* Each of the texts and one more.                                         *)
LEMMA EachMore ==
    ASSUME NEW A, NEW S, NEW parts \in Seq(Seq(A)), NEW x \in Seq(A)
    PROVE  /\ Each(S, parts) \in Seq(Seq(A))
           /\ Each(S, More(parts, x)) = More(Each(S, parts), Only(S, x))
<1> DEFINE f == [s \in Seq(A) |-> Only(S, s)]
<1>1. f \in [Seq(A) -> Seq(A)] /\ f[x] = Only(S, x)
    BY OnlyType
<1>2. ASSUME NEW p \in Seq(Seq(A)) PROVE Each(S, p) = Mapped(f, p)
  <2>1. \A i \in DOMAIN p : p[i] \in Seq(A)
      OBVIOUS
  <2> QED BY <2>1 DEF Each, Mapped
<1> HIDE DEF f
<1>3. /\ Mapped(f, parts) \in Seq(Seq(A))
      /\ Mapped(f, More(parts, x)) = More(Mapped(f, parts), f[x])
    BY <1>1, MapMore
<1>4. More(parts, x) \in Seq(Seq(A))
    BY MoreSeq
<1> QED BY <1>1, <1>2, <1>3, <1>4

(* No text, nothing of each.                                               *)
LEMMA EachEmpty == \A S : Each(S, <<>>) = <<>>
BY DEF Each

(* What joined texts have of S is what each of them has, in order.         *)
LEMMA OnlyFlatten ==
    ASSUME NEW A, NEW S, NEW parts \in Seq(Seq(A))
    PROVE  Only(S, FlattenSeq(parts)) = FlattenSeq(Each(S, parts))
<1> DEFINE T == {p \in Seq(Seq(A)) : Only(S, FlattenSeq(p)) = FlattenSeq(Each(S, p))}
<1>1. <<>> \in T
  <2>1. <<>> \in Seq(Seq(A))
      BY EmptySeq
  <2> QED BY <2>1, FlattenEmpty, OnlyEmpty, EachEmpty
<1>2. ASSUME NEW p \in Seq(Seq(A)), NEW x \in Seq(A), p \in T
      PROVE  More(p, x) \in T
  <2>1. More(p, x) \in Seq(Seq(A))
      BY MoreSeq
  <2>2. FlattenSeq(More(p, x)) = FlattenSeq(p) \o x /\ FlattenSeq(p) \in Seq(A)
      BY FlattenMore, FlattenType
  <2>3. Only(S, FlattenSeq(p) \o x) = Only(S, FlattenSeq(p)) \o Only(S, x)
      BY <2>2, OnlyConcat
  <2>4. Each(S, p) \in Seq(Seq(A)) /\ Each(S, More(p, x)) = More(Each(S, p), Only(S, x))
      BY EachMore
  <2>5. Only(S, x) \in Seq(A)
      BY OnlyType
  <2>6. FlattenSeq(More(Each(S, p), Only(S, x))) = FlattenSeq(Each(S, p)) \o Only(S, x)
      BY <2>4, <2>5, FlattenMore
  <2>7. Only(S, FlattenSeq(p)) = FlattenSeq(Each(S, p))
      BY <1>2
  <2> QED BY <2>1, <2>2, <2>3, <2>4, <2>6, <2>7
<1> HIDE DEF T
<1>3. Seq(Seq(A)) \subseteq T
    BY <1>1, <1>2, SequencesIn
<1> QED BY <1>3 DEF T

(* One part more is kept if it is not empty.                               *)
LEMMA NonEmptyMore ==
    ASSUME NEW A, NEW parts \in Seq(A), NEW x \in A
    PROVE  /\ NonEmpty(<<>>) = <<>> /\ NonEmpty(parts) \in Seq(A)
           /\ x # <<>> => NonEmpty(More(parts, x)) = More(NonEmpty(parts), x)
           /\ x = <<>> => NonEmpty(More(parts, x)) = NonEmpty(parts)
<1> DEFINE f == [y \in A |-> IF y # <<>> THEN <<y>> ELSE <<>>]
<1>1. f \in [A -> Seq(A)]
    OBVIOUS
<1>2. f[x] = IF x # <<>> THEN <<x>> ELSE <<>>
    OBVIOUS
<1>3. ASSUME NEW p \in Seq(A) PROVE NonEmpty(p) = FlattenSeq(Mapped(f, p))
  <2>1. \A i \in DOMAIN p : p[i] \in A
      OBVIOUS
  <2>2. Mapped(f, p) = [i \in DOMAIN p |-> IF p[i] # <<>> THEN <<p[i]>> ELSE <<>>]
      BY <2>1 DEF Mapped
  <2> QED BY <2>2 DEF NonEmpty
<1>4. NonEmpty(<<>>) = <<>>
  <2>1. [i \in DOMAIN <<>> |-> IF <<>>[i] # <<>> THEN << <<>>[i] >> ELSE <<>>] = <<>>
      OBVIOUS
  <2> QED BY <2>1, FlattenEmpty DEF NonEmpty
<1> HIDE DEF f
<1>5. Mapped(f, parts) \in Seq(Seq(A)) /\ Mapped(f, More(parts, x)) = More(Mapped(f, parts), f[x])
  <2>1. PICK B : B = Seq(A)
      OBVIOUS
  <2>2. f \in [A -> B]
      BY <1>1, <2>1
  <2>3. Mapped(f, parts) \in Seq(B) /\ Mapped(f, More(parts, x)) = More(Mapped(f, parts), f[x])
      BY <2>2, MapMore
  <2> QED BY <2>1, <2>3
<1>6. f[x] \in Seq(A)
    BY <1>1
<1>7. FlattenSeq(Mapped(f, parts)) \in Seq(A)
    BY <1>5, FlattenType
<1>8. FlattenSeq(More(Mapped(f, parts), f[x])) = FlattenSeq(Mapped(f, parts)) \o f[x]
    BY <1>5, <1>6, FlattenMore
<1>9. More(parts, x) \in Seq(A)
    BY MoreSeq
<1>10. NonEmpty(More(parts, x)) = NonEmpty(parts) \o f[x]
    BY <1>3, <1>5, <1>8, <1>9
<1>11. NonEmpty(parts) \in Seq(A)
    BY <1>3, <1>7
<1>12. CASE x = <<>>
  <2>1. NonEmpty(parts) \o f[x] = NonEmpty(parts)
      BY <1>2, <1>11, <1>12, ConcatEmptySeq
  <2> QED BY <1>4, <1>10, <1>11, <1>12, <2>1
<1>13. CASE x # <<>>
  <2>1. More(NonEmpty(parts), x) = NonEmpty(parts) \o <<x>>
      BY <1>11, AppendIsConcat DEF More
  <2> QED BY <1>2, <1>4, <1>10, <1>11, <1>13, <2>1
<1> QED BY <1>12, <1>13

(* One part more comes behind a mark, unless it is the first.              *)
LEMMA JoinMore ==
    ASSUME NEW A, NEW parts \in Seq(Seq(A)), NEW x \in Seq(A), NEW mark \in Seq(A)
    PROVE  /\ Join(<<>>, mark) = <<>> /\ Join(parts, mark) \in Seq(A)
           /\ parts = <<>> => Join(More(parts, x), mark) = x
           /\ parts # <<>> => Join(More(parts, x), mark) = Join(parts, mark) \o (mark \o x)
<1> DEFINE n == Len(parts)
           more == More(parts, x)
           marked(p) == [i \in DOMAIN p |-> IF i = 1 THEN p[i] ELSE mark \o p[i]]
           y == IF parts = <<>> THEN x ELSE mark \o x
<1>1. n \in Nat /\ n + 1 \in Nat /\ (n = 0 <=> parts = <<>>)
    BY LenProperties, EmptySeq
<1>2. ASSUME NEW p \in Seq(Seq(A)) PROVE marked(p) \in Seq(Seq(A)) /\ Len(marked(p)) = Len(p)
  <2>1. DOMAIN p = 1 .. Len(p) /\ Len(p) \in Nat /\ \A i \in 1 .. Len(p) : p[i] \in Seq(A)
      BY LenProperties, ElementOfSeq
  <2>2. \A i \in 1 .. Len(p) : mark \o p[i] \in Seq(A)
      BY <2>1, ConcatProperties
  <2>3. marked(p) \in [1 .. Len(p) -> Seq(A)]
      BY <2>1, <2>2
  <2> HIDE DEF marked
  <2> QED BY <2>1, <2>3, FunctionSeq
<1>3. /\ more \in Seq(Seq(A)) /\ Len(more) = n + 1 /\ DOMAIN more = 1 .. n + 1
      /\ \A i \in 1 .. n : more[i] = parts[i]
      /\ more[n + 1] = x
    BY MoreSeq
<1>4. y \in Seq(A)
    BY ConcatProperties
<1>5. marked(more) = More(marked(parts), y)
  <2>1. marked(parts) \in Seq(Seq(A)) /\ Len(marked(parts)) = n
      BY <1>2
  <2> HIDE DEF y
  <2>2. /\ More(marked(parts), y) \in Seq(Seq(A)) /\ Len(More(marked(parts), y)) = n + 1
        /\ \A i \in 1 .. n : More(marked(parts), y)[i] = marked(parts)[i]
        /\ More(marked(parts), y)[n + 1] = y
    <3>1. PICK q : q = marked(parts)
        OBVIOUS
    <3> HIDE DEF marked
    <3>2. q \in Seq(Seq(A)) /\ Len(q) = n
        BY <2>1, <3>1
    <3>3. /\ More(q, y) \in Seq(Seq(A)) /\ More(q, y) # <<>>
          /\ Len(More(q, y)) = Len(q) + 1 /\ DOMAIN More(q, y) = 1 .. Len(q) + 1
          /\ \A i \in 1 .. Len(q) : More(q, y)[i] = q[i]
          /\ More(q, y)[Len(q) + 1] = y
        BY <1>4, <3>2, MoreSeq
    <3> QED BY <3>1, <3>2, <3>3
  <2>3. marked(more) \in Seq(Seq(A)) /\ Len(marked(more)) = n + 1
    <3> HIDE DEF marked, more
    <3> QED BY <1>2, <1>3
  <2>4. ASSUME NEW i \in 1 .. n + 1
        PROVE  marked(more)[i] = More(marked(parts), y)[i]
    <3>1. marked(more)[i] = IF i = 1 THEN more[i] ELSE mark \o more[i]
      <4> HIDE DEF more
      <4> QED BY <1>3
    <3>2. CASE i = n + 1
      <4>1. i = 1 <=> parts = <<>>
          BY <1>1, <3>2
      <4>2. marked(more)[i] = y
        <5> HIDE DEF more, marked
        <5> QED BY <1>3, <3>1, <3>2, <4>1 DEF y
      <4> HIDE DEF more, marked
      <4> QED BY <2>2, <3>2, <4>2
    <3>3. CASE i \in 1 .. n
      <4>1. marked(parts)[i] = IF i = 1 THEN parts[i] ELSE mark \o parts[i]
          BY <3>3, LenProperties
      <4> HIDE DEF more, marked
      <4> QED BY <1>3, <2>2, <3>1, <3>3, <4>1
    <3> QED BY <1>1, <3>2, <3>3
  <2> HIDE DEF more, marked
  <2> QED BY <2>2, <2>3, <2>4, SeqEqual
<1>6. \A p : Join(p, mark) = FlattenSeq(marked(p))
    BY DEF Join
<1>7. Join(<<>>, mark) = <<>>
  <2>1. marked(<<>>) = <<>>
      OBVIOUS
  <2> QED BY <1>6, <2>1, FlattenEmpty
<1> HIDE DEF marked
<1>8. marked(parts) \in Seq(Seq(A))
    BY <1>2
<1>9. Join(parts, mark) \in Seq(A)
    BY <1>6, <1>8, FlattenType
<1>10. Join(more, mark) = Join(parts, mark) \o y
  <2> HIDE DEF more, y
  <2>1. FlattenSeq(More(marked(parts), y)) = FlattenSeq(marked(parts)) \o y
      BY <1>4, <1>8, FlattenMore
  <2> QED BY <1>5, <1>6, <2>1
<1>11. CASE parts = <<>>
  <2>1. <<>> \o x = x
      BY ConcatEmptySeq
  <2> QED BY <1>7, <1>9, <1>10, <1>11, <2>1
<1>12. CASE parts # <<>>
    BY <1>7, <1>9, <1>10, <1>12
<1> QED BY <1>11, <1>12

(* A mark with nothing of S adds nothing of S between the parts.           *)
LEMMA OnlyJoin ==
    ASSUME NEW A, NEW S, NEW parts \in Seq(Seq(A)), NEW mark \in Seq(A), Only(S, mark) = <<>>
    PROVE  Only(S, Join(parts, mark)) = FlattenSeq(Each(S, parts))
<1> DEFINE T == {p \in Seq(Seq(A)) : Only(S, Join(p, mark)) = FlattenSeq(Each(S, p))}
<1>1. <<>> \in T
  <2>1. <<>> \in Seq(Seq(A)) /\ <<>> \in Seq(A)
      BY EmptySeq
  <2>2. Join(<<>>, mark) = <<>>
      BY <2>1, JoinMore
  <2> QED BY <2>1, <2>2, FlattenEmpty, OnlyEmpty, EachEmpty
<1>2. ASSUME NEW p \in Seq(Seq(A)), NEW x \in Seq(A), p \in T
      PROVE  More(p, x) \in T
  <2>1. More(p, x) \in Seq(Seq(A))
      BY MoreSeq
  <2>2. /\ Join(<<>>, mark) = <<>> /\ Join(p, mark) \in Seq(A)
        /\ p = <<>> => Join(More(p, x), mark) = x
        /\ p # <<>> => Join(More(p, x), mark) = Join(p, mark) \o (mark \o x)
      BY JoinMore
  <2>3. Only(S, x) \in Seq(A) /\ Each(S, p) \in Seq(Seq(A))
        /\ Each(S, More(p, x)) = More(Each(S, p), Only(S, x))
      BY OnlyType, EachMore
  <2>4. FlattenSeq(More(Each(S, p), Only(S, x))) = FlattenSeq(Each(S, p)) \o Only(S, x)
      BY <2>3, FlattenMore
  <2>5. Only(S, Join(p, mark)) = FlattenSeq(Each(S, p))
      BY <1>2
  <2>6. Only(S, Join(More(p, x), mark)) = FlattenSeq(Each(S, p)) \o Only(S, x)
    <3>1. CASE p = <<>>
      <4>1. <<>> \o Only(S, x) = Only(S, x)
          BY <2>3, ConcatEmptySeq
      <4> QED BY <2>2, <3>1, <4>1, EachEmpty, FlattenEmpty
    <3>2. CASE p # <<>>
      <4>1. PICK j : j = Join(p, mark)
          OBVIOUS
      <4>2. PICK y : y = mark \o x
          OBVIOUS
      <4>3. j \in Seq(A) /\ y \in Seq(A)
          BY <2>2, <4>1, <4>2, ConcatProperties
      <4>4. Only(S, mark \o x) = Only(S, mark) \o Only(S, x)
        <5>1. PICK k : k = mark
            OBVIOUS
        <5>2. k \in Seq(A) /\ x \in Seq(A)
            BY <5>1
        <5>3. Only(S, k \o x) = Only(S, k) \o Only(S, x)
            BY <5>2, OnlyConcat
        <5> QED BY <5>1, <5>3
      <4>5. <<>> \o Only(S, x) = Only(S, x)
          BY <2>3, ConcatEmptySeq
      <4>6. Only(S, j \o y) = Only(S, j) \o Only(S, y)
          BY <4>3, OnlyConcat
      <4> QED BY <2>2, <2>5, <3>2, <4>1, <4>2, <4>4, <4>5, <4>6
    <3> QED BY <3>1, <3>2
  <2> QED BY <2>1, <2>3, <2>4, <2>6
<1> HIDE DEF T
<1>3. Seq(Seq(A)) \subseteq T
    BY <1>1, <1>2, SequencesIn
<1> QED BY <1>3 DEF T

(* Empty parts have nothing of S: they can be left out.                    *)
LEMMA OnlyNonEmpty ==
    ASSUME NEW A, NEW S, NEW parts \in Seq(Seq(A))
    PROVE  FlattenSeq(Each(S, NonEmpty(parts))) = FlattenSeq(Each(S, parts))
<1> DEFINE T == {p \in Seq(Seq(A)) :
                   FlattenSeq(Each(S, NonEmpty(p))) = FlattenSeq(Each(S, p))}
<1>1. <<>> \in T
  <2>1. <<>> \in Seq(Seq(A)) /\ <<>> \in Seq(A)
      BY EmptySeq
  <2>2. NonEmpty(<<>>) = <<>>
      BY <2>1, NonEmptyMore
  <2> QED BY <2>1, <2>2
<1>2. ASSUME NEW p \in Seq(Seq(A)), NEW x \in Seq(A), p \in T
      PROVE  More(p, x) \in T
  <2>1. More(p, x) \in Seq(Seq(A))
      BY MoreSeq
  <2>2. /\ NonEmpty(<<>>) = <<>> /\ NonEmpty(p) \in Seq(Seq(A))
        /\ x # <<>> => NonEmpty(More(p, x)) = More(NonEmpty(p), x)
        /\ x = <<>> => NonEmpty(More(p, x)) = NonEmpty(p)
      BY NonEmptyMore
  <2>3. /\ Each(S, p) \in Seq(Seq(A)) /\ Only(S, x) \in Seq(A)
        /\ Each(S, More(p, x)) = More(Each(S, p), Only(S, x))
      BY OnlyType, EachMore
  <2>4. FlattenSeq(More(Each(S, p), Only(S, x))) = FlattenSeq(Each(S, p)) \o Only(S, x)
      BY <2>3, FlattenMore
  <2>5. FlattenSeq(Each(S, NonEmpty(p))) = FlattenSeq(Each(S, p))
      BY <1>2
  <2>6. FlattenSeq(Each(S, NonEmpty(More(p, x)))) = FlattenSeq(Each(S, p)) \o Only(S, x)
    <3>1. CASE x = <<>>
      <4>1. FlattenSeq(Each(S, p)) \in Seq(A) /\ Only(S, x) = <<>>
          BY <2>3, <3>1, FlattenType, OnlyEmpty
      <4>2. FlattenSeq(Each(S, p)) \o <<>> = FlattenSeq(Each(S, p))
          BY <4>1, ConcatEmptySeq
      <4> QED BY <2>2, <2>5, <3>1, <4>1, <4>2
    <3>2. CASE x # <<>>
      <4>1. PICK q : q = NonEmpty(p)
          OBVIOUS
      <4>2. q \in Seq(Seq(A))
          BY <2>2, <4>1
      <4>3. Each(S, q) \in Seq(Seq(A)) /\ Each(S, More(q, x)) = More(Each(S, q), Only(S, x))
          BY <4>2, EachMore
      <4>4. FlattenSeq(More(Each(S, q), Only(S, x))) = FlattenSeq(Each(S, q)) \o Only(S, x)
          BY <2>3, <4>3, FlattenMore
      <4> QED BY <2>2, <2>5, <3>2, <4>1, <4>3, <4>4
    <3> QED BY <3>1, <3>2
  <2> QED BY <2>1, <2>3, <2>4, <2>6
<1> HIDE DEF T
<1>3. Seq(Seq(A)) \subseteq T
    BY <1>1, <1>2, SequencesIn
<1> QED BY <1>3 DEF T

-----------------------------------------------------------------------------
(* Texts of two parts, of one atom, and with nothing of S.                 *)

(* Two sequences together are empty when both are.                         *)
LEMMA ConcatNonEmpty ==
    ASSUME NEW A, NEW s \in Seq(A), NEW t \in Seq(A)
    PROVE  s \o t \in Seq(A) /\ (s \o t = <<>> <=> s = <<>> /\ t = <<>>)
<1>1. s \o t \in Seq(A) /\ Len(s \o t) = Len(s) + Len(t) /\ Len(s) \in Nat /\ Len(t) \in Nat
    BY ConcatProperties, LenProperties
<1>2. (s \o t = <<>> <=> Len(s \o t) = 0) /\ (s = <<>> <=> Len(s) = 0) /\ (t = <<>> <=> Len(t) = 0)
    BY <1>1, EmptySeq
<1>3. Len(s) + Len(t) = 0 <=> Len(s) = 0 /\ Len(t) = 0
    BY <1>1
<1> QED BY <1>1, <1>2, <1>3

(* A text over other atoms has nothing of S.                               *)
LEMMA OnlyNone ==
    ASSUME NEW A, NEW S, A \cap S = {}, NEW text \in Seq(A)
    PROVE  Only(S, text) = <<>>
<1> DEFINE T == {t \in Seq(A) : Only(S, t) = <<>>}
<1>1. <<>> \in T
    BY OnlyEmpty, EmptySeq
<1>2. ASSUME NEW t \in Seq(A), NEW x \in A, t \in T
      PROVE  More(t, x) \in T
  <2>1. /\ Only(S, t) \in Seq(A)
        /\ Only(S, More(t, x)) = Only(S, t) \o (IF x \in S THEN <<x>> ELSE <<>>)
      BY OnlyMore
  <2>2. x \notin S /\ Only(S, t) = <<>>
      BY <1>2
  <2>3. <<>> \o <<>> = <<>>
      OBVIOUS
  <2>4. More(t, x) \in Seq(A)
      BY MoreSeq
  <2> QED BY <2>1, <2>2, <2>3, <2>4
<1> HIDE DEF T
<1>3. Seq(A) \subseteq T
    BY <1>1, <1>2, SequencesIn
<1> QED BY <1>3 DEF T

(* A text has something of S when one of its atoms is in S.                *)
LEMMA OnlyFinds ==
    ASSUME NEW A, NEW S, NEW text \in Seq(A)
    PROVE  Only(S, text) # <<>> <=> \E i \in DOMAIN text : text[i] \in S
<1> DEFINE T == {t \in Seq(A) : (\E i \in 1 .. Len(t) : t[i] \in S) => Only(S, t) # <<>>}
<1>1. <<>> \in T
    BY EmptySeq
<1>2. ASSUME NEW t \in Seq(A), NEW x \in A, t \in T
      PROVE  More(t, x) \in T
  <2>1. PICK p : p = IF x \in S THEN <<x>> ELSE <<>>
      OBVIOUS
  <2>2. Only(S, t) \in Seq(A) /\ Only(S, More(t, x)) = Only(S, t) \o p
      BY <2>1, OnlyMore
  <2>3. p \in Seq(A) /\ (x \in S => p # <<>>)
      BY <2>1
  <2>4. PICK o : o = Only(S, t)
      OBVIOUS
  <2>5. o \o p = <<>> <=> o = <<>> /\ p = <<>>
      BY <2>2, <2>3, <2>4, ConcatNonEmpty
  <2>6. /\ More(t, x) \in Seq(A) /\ Len(More(t, x)) = Len(t) + 1 /\ Len(t) \in Nat
        /\ \A i \in 1 .. Len(t) : More(t, x)[i] = t[i]
        /\ More(t, x)[Len(t) + 1] = x
      BY MoreSeq, LenProperties
  <2>7. ASSUME NEW i \in 1 .. Len(More(t, x)), More(t, x)[i] \in S
        PROVE  Only(S, More(t, x)) # <<>>
    <3>1. CASE i = Len(t) + 1
        BY <2>2, <2>3, <2>4, <2>5, <2>6, <2>7, <3>1
    <3>2. CASE i # Len(t) + 1
      <4>1. i \in 1 .. Len(t)
          BY <2>6, <3>2
      <4>2. Only(S, t) # <<>>
          BY <1>2, <2>6, <2>7, <4>1
      <4> QED BY <2>2, <2>4, <2>5, <4>2
    <3> QED BY <3>1, <3>2
  <2> QED BY <2>6, <2>7
<1> HIDE DEF T
<1>3. Seq(A) \subseteq T
    BY <1>1, <1>2, SequencesIn
<1>4. DOMAIN text = 1 .. Len(text)
    BY LenProperties
<1>5. ASSUME \A i \in 1 .. Len(text) : text[i] \notin S
      PROVE  Only(S, text) = <<>>
  <2>1. PICK B : B = A \ S
      OBVIOUS
  <2>2. text \in Seq(B) /\ B \cap S = {}
      BY <1>5, <2>1
  <2> QED BY <2>2, OnlyNone
<1> QED BY <1>3, <1>4, <1>5 DEF T

(* What one atom has of S.                                                 *)
LEMMA OnlyOne ==
    ASSUME NEW A, NEW S, NEW x \in A
    PROVE  Only(S, <<x>>) = IF x \in S THEN <<x>> ELSE <<>>
<1> DEFINE p == IF x \in S THEN <<x>> ELSE <<>>
<1>1. PICK e : e = <<>>
    OBVIOUS
<1>2. e \in Seq(A) /\ More(e, x) = <<x>>
    BY <1>1 DEF More
<1>3. Only(S, e) \in Seq(A) /\ Only(S, More(e, x)) = Only(S, e) \o p
    BY <1>2, OnlyMore
<1>4. Only(S, e) = <<>> /\ <<>> \o p = p
    BY <1>1, OnlyEmpty
<1> QED BY <1>2, <1>3, <1>4

(* What a text has of S, it has within any larger set.                     *)
LEMMA OnlyTwice ==
    ASSUME NEW A, NEW S, NEW R, S \subseteq R, NEW text \in Seq(A)
    PROVE  Only(S, Only(R, text)) = Only(S, text)
<1> DEFINE T == {t \in Seq(A) : Only(S, Only(R, t)) = Only(S, t)}
<1>1. <<>> \in T
    BY OnlyEmpty, EmptySeq
<1>2. ASSUME NEW t \in Seq(A), NEW x \in A, t \in T
      PROVE  More(t, x) \in T
  <2>1. PICK p : p = IF x \in S THEN <<x>> ELSE <<>>
      OBVIOUS
  <2>2. PICK q : q = IF x \in R THEN <<x>> ELSE <<>>
      OBVIOUS
  <2>3. Only(S, t) \in Seq(A) /\ Only(S, More(t, x)) = Only(S, t) \o p
      BY <2>1, OnlyMore
  <2>4. Only(R, t) \in Seq(A) /\ Only(R, More(t, x)) = Only(R, t) \o q
      BY <2>2, OnlyMore
  <2>5. q \in Seq(A)
      BY <2>2
  <2>6. PICK o : o = Only(R, t)
      OBVIOUS
  <2>7. Only(S, o \o q) = Only(S, o) \o Only(S, q)
    <3>1. o \in Seq(A) /\ q \in Seq(A)
        BY <2>4, <2>5, <2>6
    <3> QED BY <3>1, OnlyConcat
  <2>8. Only(S, q) = p
    <3>3. Only(S, <<x>>) = IF x \in S THEN <<x>> ELSE <<>>
        BY OnlyOne
    <3>4. CASE x \in R
        BY <2>1, <2>2, <3>3, <3>4
    <3>5. CASE x \notin R
        BY <2>1, <2>2, <3>5, OnlyEmpty
    <3> QED BY <3>4, <3>5
  <2>9. Only(S, Only(R, t)) = Only(S, t) /\ More(t, x) \in Seq(A)
      BY <1>2, MoreSeq
  <2>10. Only(S, Only(R, More(t, x))) = Only(S, More(t, x))
      BY <2>3, <2>4, <2>6, <2>7, <2>8, <2>9
  <2> QED BY <2>9, <2>10
<1> HIDE DEF T
<1>3. Seq(A) \subseteq T
    BY <1>1, <1>2, SequencesIn
<1> QED BY <1>3 DEF T

(* A concatenation has an atom when one of its parts has.                  *)
LEMMA FlattenFinds ==
    ASSUME NEW A, NEW parts \in Seq(Seq(A))
    PROVE  FlattenSeq(parts) # <<>> <=> \E i \in DOMAIN parts : parts[i] # <<>>
<1> DEFINE T == {p \in Seq(Seq(A)) :
                   FlattenSeq(p) # <<>> <=> \E i \in 1 .. Len(p) : p[i] # <<>>}
<1>1. <<>> \in T
  <2>1. <<>> \in Seq(Seq(A)) /\ Len(<<>>) = 0 /\ 1 .. 0 = {}
      BY EmptySeq
  <2> QED BY <2>1, FlattenEmpty
<1>2. ASSUME NEW p \in Seq(Seq(A)), NEW x \in Seq(A), p \in T
      PROVE  More(p, x) \in T
  <2>1. PICK o : o = FlattenSeq(p)
      OBVIOUS
  <2>2. o \in Seq(A) /\ FlattenSeq(More(p, x)) = o \o x
      BY <2>1, FlattenType, FlattenMore
  <2>3. o \o x = <<>> <=> o = <<>> /\ x = <<>>
      BY <2>2, ConcatNonEmpty
  <2>4. /\ More(p, x) \in Seq(Seq(A)) /\ Len(More(p, x)) = Len(p) + 1 /\ Len(p) \in Nat
        /\ \A i \in 1 .. Len(p) : More(p, x)[i] = p[i]
        /\ More(p, x)[Len(p) + 1] = x
      BY MoreSeq, LenProperties
  <2>5. o # <<>> <=> \E i \in 1 .. Len(p) : p[i] # <<>>
      BY <1>2, <2>1
  <2>6. (\E i \in 1 .. Len(More(p, x)) : More(p, x)[i] # <<>>)
          <=> x # <<>> \/ \E i \in 1 .. Len(p) : p[i] # <<>>
    <3>1. PICK m : m = More(p, x)
        OBVIOUS
    <3>2. PICK n : n = Len(p)
        OBVIOUS
    <3>3. n \in Nat /\ Len(m) = n + 1 /\ m[n + 1] = x /\ \A i \in 1 .. n : m[i] = p[i]
        BY <2>4, <3>1, <3>2
    <3>4. n + 1 \in 1 .. n + 1 /\ (1 .. n) \subseteq 1 .. n + 1
          /\ \A i \in 1 .. n + 1 : i = n + 1 \/ i \in 1 .. n
        BY <3>3
    <3> QED BY <3>1, <3>2, <3>3, <3>4, Zenon
  <2> QED BY <2>2, <2>3, <2>4, <2>5, <2>6
<1> HIDE DEF T
<1>3. Seq(Seq(A)) \subseteq T
    BY <1>1, <1>2, SequencesIn
<1>4. DOMAIN parts = 1 .. Len(parts)
    BY LenProperties
<1> QED BY <1>3, <1>4 DEF T

-----------------------------------------------------------------------------
(* Stripped texts.                                                         *)

(* A set of places has a first one.                                        *)
LEMMA FirstPlace ==
    ASSUME NEW n \in Nat, NEW S, S \subseteq 1 .. n, S # {}
    PROVE  Min(S) \in S /\ \A i \in S : Min(S) <= i
<1>1. \E m \in S : \A k \in S : m <= k
  <2>1. S \subseteq Nat
      OBVIOUS
  <2> QED BY <2>1, LeastNatural
<1> QED BY <1>1 DEF Min

(* Stripping blanks off both ends loses nothing but blanks (str.strip).    *)
LEMMA OnlyStrip ==
    ASSUME NEW A, NEW S, S \cap Blank = {}, NEW text \in Seq(A)
    PROVE  Strip(text) \in Seq(A) /\ Only(S, Strip(text)) = Only(S, text)
<1> DEFINE n == Len(text)
           shown == {i \in DOMAIN text : text[i] \notin Blank}
           first == Min(shown)
           last == Max(shown)
<1>1. n \in Nat /\ DOMAIN text = 1 .. n /\ \A i \in 1 .. n : text[i] \in A
    BY LenProperties, ElementOfSeq
<1>2. CASE shown = {}
  <2>1. Strip(text) = <<>> /\ <<>> \in Seq(A)
      BY <1>2 DEF Strip
  <2>2. text \in Seq(Blank)
    <3>1. \A i \in 1 .. n : text[i] \in Blank
        BY <1>1, <1>2
    <3> QED BY <1>1, <3>1
  <2>3. Blank \cap S = {}
      OBVIOUS
  <2>4. Only(S, text) = <<>>
      BY <2>2, <2>3, OnlyNone
  <2> QED BY <2>1, <2>4, OnlyEmpty
<1>3. CASE shown # {}
  <2>1. Strip(text) = SubSeq(text, first, last)
      BY <1>3 DEF Strip
  <2>2. shown \subseteq 1 .. n
      BY <1>1
  <2>3. \A i \in 1 .. n : i \notin shown => text[i] \in Blank
      BY <1>1
  <2> HIDE DEF shown
  <2>4. first \in shown /\ \A i \in shown : first <= i
      BY <1>1, <1>3, <2>2, FirstPlace
  <2>5. last \in shown /\ \A i \in shown : i <= last
      BY <1>1, <1>3, <2>2, LastPlace
  <2> HIDE DEF first, last
  <2>6. first \in 1 .. n /\ last \in 1 .. n /\ first <= last
      BY <2>2, <2>4, <2>5
  <2> DEFINE head == SubSeq(text, 1, first - 1)
             body == SubSeq(text, first, last)
             tail == SubSeq(text, last + 1, n)
  <2>7. head \in Seq(Blank) /\ head \in Seq(A)
    <3>1. \A i \in 1 .. first - 1 : text[i] \in Blank /\ text[i] \in A
      <4>1. \A i \in 1 .. first - 1 : i \in 1 .. n /\ ~(first <= i)
          BY <1>1, <2>6
      <4> QED BY <1>1, <2>3, <2>4, <4>1
    <3>2. 1 \in Int /\ first - 1 \in Int
        BY <2>6
    <3> QED BY <3>1, <3>2, SubSeqProperties
  <2>8. tail \in Seq(Blank) /\ tail \in Seq(A)
    <3>1. \A i \in last + 1 .. n : text[i] \in Blank /\ text[i] \in A
      <4>1. \A i \in last + 1 .. n : i \in 1 .. n /\ ~(i <= last)
          BY <1>1, <2>6
      <4> QED BY <1>1, <2>3, <2>5, <4>1
    <3>2. last + 1 \in Int /\ n \in Int
        BY <1>1, <2>6
    <3> QED BY <3>1, <3>2, SubSeqProperties
  <2>9. body \in Seq(A)
    <3>1. \A i \in first .. last : text[i] \in A
        BY <1>1, <2>6
    <3>2. first \in Int /\ last \in Int
        BY <2>6
    <3> QED BY <3>1, <3>2, SubSeqProperties
  <2>10. text = (head \o body) \o tail
    <3>1. PICK f : f = first - 1
        OBVIOUS
    <3>2. /\ 1 \in 1 .. n + 1 /\ f \in 1 - 1 .. n /\ last \in f .. n /\ n \in last .. n
          /\ f + 1 = first
        BY <1>1, <2>6, <3>1
    <3>3. SubSeq(text, 1, f) \o SubSeq(text, f + 1, last) = SubSeq(text, 1, last)
        BY <3>2, ConcatAdjacentSubSeq
    <3>4. last \in 1 - 1 .. n
        BY <1>1, <2>6
    <3>5. SubSeq(text, 1, last) \o SubSeq(text, last + 1, n) = SubSeq(text, 1, n)
        BY <3>2, <3>4, ConcatAdjacentSubSeq
    <3>6. SubSeq(text, 1, n) = text
        BY SubSeqFull
    <3> QED BY <3>1, <3>2, <3>3, <3>5, <3>6
  <2>11. Only(S, head) = <<>> /\ Only(S, tail) = <<>>
    <3>1. Blank \cap S = {}
        OBVIOUS
    <3> HIDE DEF head, tail
    <3> QED BY <2>7, <2>8, <3>1, OnlyNone
  <2> HIDE DEF head, body, tail
  <2>12. head \o body \in Seq(A)
      BY <2>7, <2>9, ConcatProperties
  <2>13. Only(S, head \o body) = Only(S, head) \o Only(S, body)
      BY <2>7, <2>9, OnlyConcat
  <2>14. PICK y : y = head \o body
      OBVIOUS
  <2>15. y \in Seq(A) /\ tail \in Seq(A)
      BY <2>8, <2>12, <2>14
  <2>16. Only(S, y \o tail) = Only(S, y) \o Only(S, tail)
      BY <2>15, OnlyConcat
  <2>17. Only(S, body) \in Seq(A)
      BY <2>9, OnlyType
  <2>18. <<>> \o Only(S, body) = Only(S, body) /\ Only(S, body) \o <<>> = Only(S, body)
      BY <2>17, ConcatEmptySeq
  <2>19. Strip(text) = body
      BY <2>1 DEF body
  <2> QED BY <2>9, <2>10, <2>11, <2>13, <2>14, <2>16, <2>18, <2>19
<1> QED BY <1>2, <1>3

(* Induction over the depth of a tree.                                     *)
LEMMA Downward ==
    ASSUME NEW S, NEW depth, \A x \in S : depth[x] \in Nat, NEW T,
           \A x \in S : (\A y \in S : depth[y] < depth[x] => y \in T) => x \in T
    PROVE  S \subseteq T
<1> SUFFICES ASSUME S \ T # {} PROVE FALSE
    OBVIOUS
<1> DEFINE D == {depth[x] : x \in S \ T}
<1>1. PICK m \in D : \A k \in D : m <= k
  <2>1. D \subseteq Nat /\ D # {}
      OBVIOUS
  <2> QED BY <2>1, LeastNatural
<1>2. PICK x \in S \ T : m = depth[x]
    OBVIOUS
<1>3. ASSUME NEW y \in S, depth[y] < depth[x] PROVE y \in T
  <2> SUFFICES ASSUME y \notin T PROVE FALSE
      OBVIOUS
  <2>1. depth[y] \in D
      OBVIOUS
  <2>2. depth[x] <= depth[y]
      BY <1>1, <1>2, <2>1
  <2>3. depth[x] \in Nat /\ depth[y] \in Nat
      OBVIOUS
  <2> QED BY <1>3, <2>2, <2>3
<1> QED BY <1>2, <1>3

-----------------------------------------------------------------------------
(* Functions that are defined by recursion on the depth of a tree.         *)

(* G reads the function that it defines at smaller depths only; f is the   *)
(* function that it defines.                                               *)
Contracts(S, depth, R, G) ==
    /\ \A x \in S : depth[x] \in Nat
    /\ \A x \in S, f \in [S -> R] : G[x][f] \in R
    /\ \A x \in S, f \in [S -> R], g \in [S -> R] :
         (\A y \in S : depth[y] < depth[x] => f[y] = g[y]) => G[x][f] = G[x][g]

Solves(f, S, G) == \A x \in S : f[x] = G[x][f]

(* A recursion that only looks at smaller depths has a solution: the       *)
(* functions for the depths below n are extended from n to n + 1.          *)
LEMMA Recursion ==
    ASSUME NEW S, NEW depth, NEW R, R # {}, NEW G, Contracts(S, depth, R, G)
    PROVE  \E f \in [S -> R] : Solves(f, S, G)
<1> USE DEF Contracts
<1>0. PICK r \in R : TRUE
    OBVIOUS
<1> DEFINE F == [S -> R]
           Fits(f, k) == \A x \in S : depth[x] < k => f[x] = G[x][f]
<1>1. ASSUME NEW k \in Nat, NEW f \in F, NEW g \in F, Fits(f, k), Fits(g, k)
      PROVE  \A x \in S : depth[x] < k => f[x] = g[x]
  <2> DEFINE T == {x \in S : depth[x] < k => f[x] = g[x]}
  <2>1. ASSUME NEW x \in S, \A y \in S : depth[y] < depth[x] => y \in T
        PROVE  x \in T
    <3> SUFFICES ASSUME depth[x] < k PROVE f[x] = g[x]
        OBVIOUS
    <3>1. \A y \in S : depth[y] < depth[x] => depth[y] < k
        OBVIOUS
    <3>2. \A y \in S : depth[y] < depth[x] => f[y] = g[y]
        BY <2>1, <3>1
    <3> QED BY <1>1, <3>2
  <2> HIDE DEF T
  <2>2. S \subseteq T
      BY <2>1, Downward
  <2> QED BY <2>2 DEF T
<1>2. ASSUME NEW n \in Nat PROVE \E f \in F : Fits(f, n)
  <2> DEFINE T == {k \in 0 .. n : \E f \in F : Fits(f, k)}
  <2>1. 0 \in T
    <3>1. [x \in S |-> r] \in F
        OBVIOUS
    <3>2. Fits([x \in S |-> r], 0)
        OBVIOUS
    <3> HIDE DEF F, Fits
    <3> QED BY <3>1, <3>2
  <2>2. ASSUME NEW k \in 0 .. n, k \in T, k < n
        PROVE  k + 1 \in T
    <3>1. PICK f \in F : Fits(f, k)
        BY <2>2
    <3> DEFINE g == [x \in S |-> G[x][f]]
    <3>2. g \in F
        OBVIOUS
    <3>3. ASSUME NEW x \in S, depth[x] < k + 1 PROVE g[x] = G[x][g]
      <4>1. \A y \in S : depth[y] < depth[x] => depth[y] < k
          BY <3>3
      <4>2. \A y \in S : depth[y] < depth[x] => f[y] = g[y]
          BY <3>1, <4>1
      <4>3. g[x] = G[x][f]
          OBVIOUS
      <4> HIDE DEF g
      <4> QED BY <3>2, <4>2, <4>3
    <3>4. Fits(g, k + 1)
      <4> HIDE DEF g
      <4> QED BY <3>3
    <3>5. k + 1 \in 0 .. n
        BY <2>2
    <3> HIDE DEF F, Fits, g
    <3> QED BY <3>2, <3>4, <3>5
  <2>3. n \in 0 .. n
      OBVIOUS
  <2>4. \A k \in 0 .. n : k \in T
    <3> HIDE DEF T
    <3> QED BY <2>1, <2>2, Upward
  <2> QED BY <2>3, <2>4
<1> DEFINE c(x) == CHOOSE f \in F : Fits(f, depth[x] + 1)
           h == [x \in S |-> c(x)[x]]
<1>3. ASSUME NEW x \in S PROVE c(x) \in F /\ Fits(c(x), depth[x] + 1)
  <2>1. depth[x] + 1 \in Nat
      OBVIOUS
  <2>2. \E f \in F : Fits(f, depth[x] + 1)
    <3> HIDE DEF F, Fits
    <3> QED BY <1>2, <2>1
  <2> HIDE DEF F, Fits
  <2> QED BY <2>2
<1>4. \A x \in S : h[x] = c(x)[x]
    OBVIOUS
<1>5. h \in F
  <2>1. \A x \in S : c(x)[x] \in R
      BY <1>3
  <2> HIDE DEF c
  <2> QED BY <2>1
<1> HIDE DEF c, h
<1>6. ASSUME NEW x \in S PROVE h[x] = G[x][h]
  <2>1. PICK f \in F : f = c(x) /\ Fits(f, depth[x] + 1)
      BY <1>3
  <2>2. ASSUME NEW y \in S, depth[y] < depth[x] PROVE f[y] = h[y]
    <3>1. PICK g \in F : g = c(y) /\ Fits(g, depth[y] + 1)
        BY <1>3
    <3>2. PICK k \in Nat : k = depth[y] + 1
        OBVIOUS
    <3>3. \A z \in S : depth[z] < k => depth[z] < depth[x] + 1
        BY <2>2, <3>2
    <3>4. Fits(f, k)
        BY <2>1, <3>3
    <3>5. Fits(g, k)
        BY <3>1, <3>2
    <3>6. depth[y] < k
        BY <3>2
    <3>7. f[y] = g[y]
      <4> HIDE DEF Fits, F
      <4> QED BY <1>1, <3>4, <3>5, <3>6
    <3> QED BY <1>4, <3>1, <3>7
  <2>3. G[x][f] = G[x][h]
      BY <1>5, <2>2
  <2>4. f[x] = G[x][f]
    <3>1. depth[x] < depth[x] + 1
        OBVIOUS
    <3> QED BY <2>1, <3>1
  <2>5. h[x] = f[x]
      BY <1>4, <2>1
  <2> QED BY <2>3, <2>4, <2>5
<1> QED BY <1>5, <1>6 DEF Solves

-----------------------------------------------------------------------------
(* Text nodes: _text.                                                      *)

(* What stands in a text node: nodes, that nest less deep.                 *)
LEMMA NodeFormed ==
    ASSUME NEW node \in Nodes
    PROVE  /\ node.is = "string" => node.text \in Seq(Atom)
           /\ node.is = "styled" => node.node \in Nodes /\ Depth[node.node] < Depth[node]
           /\ node.is = "concat" =>
                /\ node.texts \in Seq(Nodes)
                /\ \A i \in DOMAIN node.texts :
                     node.texts[i] \in Nodes /\ Depth[node.texts[i]] < Depth[node]
<1>1. node \in Tree /\ node.is \in {"absent", "image", "string", "styled", "concat"}
    BY DEF Nodes
<1>2. Formed(node) /\ \A part \in Inner(node) : Depth[part] < Depth[node]
    BY <1>1, RichAssumption
<1>3. CASE node.is = "string"
    BY <1>1, <1>2, <1>3 DEF Formed
<1>4. CASE node.is = "styled"
  <2>1. node.node \in Inner(node)
      BY <1>4 DEF Inner
  <2> QED BY <1>1, <1>2, <1>4, <2>1 DEF Formed
<1>5. CASE node.is = "concat"
  <2>1. Inner(node) = Range(node.texts)
      BY <1>5 DEF Inner
  <2>2. node.texts \in Seq(Nodes)
      BY <1>1, <1>2, <1>5 DEF Formed
  <2>3. \A i \in DOMAIN node.texts : node.texts[i] \in Range(node.texts) /\ node.texts[i] \in Nodes
      BY <2>2 DEF Range
  <2> QED BY <1>2, <1>5, <2>1, <2>2, <2>3
<1>6. CASE node.is \in {"absent", "image"}
    BY <1>6
<1> QED BY <1>1, <1>3, <1>4, <1>5, <1>6

(* A node has a depth.                                                     *)
LEMMA NodeDepth == \A node \in Nodes : Depth[node] \in Nat
BY RichAssumption DEF Nodes, Tree

(* A function on the elements of a sequence.                               *)
LEMMA MapType ==
    ASSUME NEW A, NEW B, NEW f \in [A -> B], NEW s \in Seq(A)
    PROVE  Mapped(f, s) \in Seq(B) /\ DOMAIN Mapped(f, s) = DOMAIN s
<1>1. DOMAIN s = 1 .. Len(s) /\ Len(s) \in Nat /\ \A i \in 1 .. Len(s) : s[i] \in A
    BY LenProperties, ElementOfSeq
<1>2. Mapped(f, s) \in [1 .. Len(s) -> B]
    BY <1>1 DEF Mapped
<1> QED BY <1>1, <1>2, FunctionSeq

(* The text of a node is a text.                                           *)
LEMMA NodeTextType ==
    ASSUME NEW node \in Nodes, NEW f \in [Nodes -> Seq(Atom)]
    PROVE  NodeText(f, node) \in Seq(Atom)
<1>1. CASE node.is = "string"
    BY <1>1, NodeFormed DEF NodeText
<1>2. CASE node.is = "styled"
    BY <1>2, NodeFormed DEF NodeText
<1>3. CASE node.is = "concat"
  <2>1. PICK B : B = Seq(Atom)
      OBVIOUS
  <2>2. f \in [Nodes -> B] /\ node.texts \in Seq(Nodes)
      BY <1>3, <2>1, NodeFormed
  <2>3. Mapped(f, node.texts) \in Seq(B)
      BY <2>2, MapType
  <2>4. FlattenSeq(Mapped(f, node.texts)) \in Seq(Atom)
      BY <2>1, <2>3, FlattenType
  <2> QED BY <1>3, <2>4 DEF NodeText
<1>4. CASE ~(node.is \in {"string", "styled", "concat"})
    BY <1>4, EmptySeq DEF NodeText
<1> QED BY <1>1, <1>2, <1>3, <1>4

(* The text of a node depends on the nodes inside it only.                 *)
LEMMA NodeTextSame ==
    ASSUME NEW node \in Nodes, NEW f, NEW g,
           \A y \in Nodes : Depth[y] < Depth[node] => f[y] = g[y]
    PROVE  NodeText(f, node) = NodeText(g, node)
<1>1. CASE node.is = "styled"
    BY <1>1, NodeFormed DEF NodeText
<1>2. CASE node.is = "concat"
  <2>1. \A i \in DOMAIN node.texts : f[node.texts[i]] = g[node.texts[i]]
      BY <1>2, NodeFormed
  <2>2. Mapped(f, node.texts) = Mapped(g, node.texts)
      BY <2>1 DEF Mapped
  <2> QED BY <1>2, <2>2 DEF NodeText
<1>3. CASE ~(node.is \in {"styled", "concat"})
    BY <1>3 DEF NodeText
<1> QED BY <1>1, <1>2, <1>3

(* TextOf is the function that _text computes.                             *)
LEMMA TextOfNode ==
    /\ TextOf \in [Nodes -> Seq(Atom)]
    /\ \A node \in Nodes : TextOf[node] = NodeText(TextOf, node)
<1> DEFINE R == Seq(Atom)
           G == [node \in Nodes |-> [f \in [Nodes -> R] |-> NodeText(f, node)]]
           Reads(f) == f = [node \in Nodes |-> NodeText(f, node)]
<1>1. \A node \in Nodes, f \in [Nodes -> R] : G[node][f] = NodeText(f, node)
    OBVIOUS
<1>2. Contracts(Nodes, Depth, R, G)
  <2> HIDE DEF G
  <2>1. \A node \in Nodes, f \in [Nodes -> R] : G[node][f] \in R
      BY <1>1, NodeTextType
  <2>2. ASSUME NEW node \in Nodes, NEW f \in [Nodes -> R], NEW g \in [Nodes -> R],
               \A y \in Nodes : Depth[y] < Depth[node] => f[y] = g[y]
        PROVE  G[node][f] = G[node][g]
    <3>1. NodeText(f, node) = NodeText(g, node)
        BY <2>2, NodeTextSame
    <3> QED BY <1>1, <3>1
  <2> HIDE DEF R
  <2> QED BY <2>1, <2>2, NodeDepth DEF Contracts
<1>3. R # {}
    BY EmptySeq
<1> HIDE DEF R, G
<1>4. PICK f \in [Nodes -> R] : Solves(f, Nodes, G)
    BY <1>2, <1>3, Recursion
<1>5. Reads(f)
    BY <1>1, <1>4 DEF Solves
<1>6. TextOf = CHOOSE g : Reads(g)
    BY DEF TextOf
<1>7. Reads(TextOf)
  <2> HIDE DEF Reads
  <2> QED BY <1>5, <1>6
<1>8. \A node \in Nodes : TextOf[node] = NodeText(TextOf, node) /\ f[node] = NodeText(f, node)
    BY <1>5, <1>7
<1>9. TextOf = f
  <2> DEFINE T == {node \in Nodes : TextOf[node] = f[node]}
  <2>1. ASSUME NEW node \in Nodes, \A y \in Nodes : Depth[y] < Depth[node] => y \in T
        PROVE  node \in T
    <3>1. \A y \in Nodes : Depth[y] < Depth[node] => TextOf[y] = f[y]
        BY <2>1
    <3>2. NodeText(TextOf, node) = NodeText(f, node)
        BY <3>1, NodeTextSame
    <3> QED BY <1>8, <3>2
  <2>2. Nodes \subseteq T
    <3> HIDE DEF T
    <3> QED BY <2>1, NodeDepth, Downward
  <2>3. \A node \in Nodes : TextOf[node] = f[node]
      BY <2>2
  <2>4. TextOf = [node \in Nodes |-> TextOf[node]] /\ f = [node \in Nodes |-> f[node]]
      BY <1>7
  <2> QED BY <2>3, <2>4
<1>10. TextOf \in [Nodes -> R]
    BY <1>9
<1> QED BY <1>8, <1>10 DEF R

-----------------------------------------------------------------------------
(* Blocks: what stands in them, and their items.                           *)

(* What stands in a block: nodes and blocks, that nest less deep.          *)
LEMMA BlockFormed ==
    ASSUME NEW block \in Blocks
    PROVE  /\ block.is = "list" =>
                /\ block.items \in Seq(Blocks) /\ block.ordered \in BOOLEAN
                /\ block.ordered => Len(block.items) <= Len(Numeral)
                /\ \A i \in DOMAIN block.items :
                     block.items[i] \in Blocks /\ Depth[block.items[i]] < Depth[block]
           /\ block.is = "table" =>
                /\ block.rows \in Seq(Seq(Nodes))
                /\ \A i \in DOMAIN block.rows : \A j \in DOMAIN block.rows[i] :
                     block.rows[i][j] \in Nodes /\ Depth[block.rows[i][j]] < Depth[block]
           /\ block.is = "block" =>
                /\ block.blocks \in Seq(Blocks)
                /\ block.title \in Nodes /\ Depth[block.title] < Depth[block]
                /\ block.text \in Nodes /\ Depth[block.text] < Depth[block]
                /\ block.caption \in Nodes /\ Depth[block.caption] < Depth[block]
                /\ \A i \in DOMAIN block.blocks :
                     block.blocks[i] \in Blocks /\ Depth[block.blocks[i]] < Depth[block]
<1>1. block \in Tree /\ block.is \in {"divider", "list", "table", "block"}
    BY DEF Blocks
<1>2. Formed(block) /\ \A part \in Inner(block) : Depth[part] < Depth[block]
    BY <1>1, RichAssumption
<1>3. CASE block.is = "list"
  <2>1. Inner(block) = Range(block.items)
      BY <1>3 DEF Inner
  <2>2. /\ block.items \in Seq(Blocks) /\ block.ordered \in BOOLEAN
        /\ block.ordered => Len(block.items) <= Len(Numeral)
      BY <1>1, <1>2, <1>3 DEF Formed
  <2>3. \A i \in DOMAIN block.items : block.items[i] \in Range(block.items) /\ block.items[i] \in Blocks
      BY <2>2 DEF Range
  <2> QED BY <1>2, <1>3, <2>1, <2>2, <2>3
<1>4. CASE block.is = "table"
  <2>1. Inner(block) = UNION {Range(row) : row \in Range(block.rows)}
      BY <1>4 DEF Inner
  <2>2. block.rows \in Seq(Seq(Nodes))
      BY <1>1, <1>2, <1>4 DEF Formed
  <2>3. \A i \in DOMAIN block.rows : block.rows[i] \in Range(block.rows) /\ block.rows[i] \in Seq(Nodes)
      BY <2>2 DEF Range
  <2>4. \A i \in DOMAIN block.rows : \A j \in DOMAIN block.rows[i] :
          block.rows[i][j] \in Range(block.rows[i]) /\ block.rows[i][j] \in Nodes
      BY <2>3 DEF Range
  <2>5. \A i \in DOMAIN block.rows : \A j \in DOMAIN block.rows[i] : block.rows[i][j] \in Inner(block)
      BY <2>1, <2>3, <2>4, Zenon
  <2> QED BY <1>2, <1>4, <2>2, <2>4, <2>5
<1>5. CASE block.is = "block"
  <2>1. Inner(block) = {block.title, block.text, block.caption} \cup Range(block.blocks)
      BY <1>5 DEF Inner
  <2>2. block.blocks \in Seq(Blocks) /\ {block.title, block.text, block.caption} \subseteq Nodes
      BY <1>1, <1>2, <1>5 DEF Formed
  <2>3. \A i \in DOMAIN block.blocks : block.blocks[i] \in Range(block.blocks) /\ block.blocks[i] \in Blocks
      BY <2>2 DEF Range
  <2> QED BY <1>2, <1>5, <2>1, <2>2, <2>3
<1>6. CASE block.is = "divider"
    BY <1>6
<1> QED BY <1>1, <1>3, <1>4, <1>5, <1>6

(* A block has a depth.                                                    *)
LEMMA BlockDepth == \A block \in Blocks : Depth[block] \in Nat
BY RichAssumption DEF Blocks, Tree

(* The marks that are put between texts have no word and no number.        *)
LEMMA Marked ==
    ASSUME NEW mark \in Seq(Sign)
    PROVE  mark \in Seq(Atom) /\ \A S : S \subseteq Alnum => Only(S, mark) = <<>>
<1>1. mark \in Seq(Atom)
  <2>1. Sign \subseteq Atom
      BY DEF Atom
  <2> HIDE DEF Atom
  <2> QED BY <2>1
<1>2. ASSUME NEW S, S \subseteq Alnum PROVE Only(S, mark) = <<>>
  <2>1. Sign \cap S = {}
      BY <1>2, RichAssumption
  <2> QED BY <2>1, OnlyNone
<1> QED BY <1>1, <1>2

(* The marks that _block writes are signs.                                 *)
LEMMA Marks ==
    {<<"\n">>, <<" ", "|", " ">>, <<"---">>, <<"*", " ">>} \subseteq Seq(Sign)
BY DEF Sign, Blank

(* A numeral is a number and no word.                                      *)
LEMMA Numerals ==
    ASSUME NEW i \in 1 .. Len(Numeral)
    PROVE  Numeral[i] \in Alnum /\ Numeral[i] \in Atom /\ Numeral[i] \notin Word
<1>1. i \in DOMAIN Numeral
    BY RichAssumption, LenProperties
<1>2. Numeral[i] \in Range(Numeral)
    BY <1>1 DEF Range
<1> QED BY <1>2, RichAssumption DEF Alnum, Atom

(* A sequence of three.                                                    *)
LEMMA OfThree ==
    ASSUME NEW A, NEW x \in A, NEW y \in A, NEW z \in A
    PROVE  <<x, y, z>> \in Seq(A) /\ 1 \in DOMAIN <<x, y, z>> /\ <<x, y, z>>[1] = x
OBVIOUS

(* An item: its text behind a sign or its number.                          *)
LEMMA ItemShows ==
    ASSUME NEW ordered \in BOOLEAN, NEW i, ordered => i \in 1 .. Len(Numeral),
           NEW body \in Seq(Atom)
    PROVE  /\ Item(ordered, i, body) \in Seq(Atom)
           /\ Only(Word, Item(ordered, i, body)) = Only(Word, body)
           /\ Only(Alnum, Item(ordered, i, body)) # <<>>
                <=> Only(Alnum, body) # <<>> \/ (ordered /\ body # <<>>)
<1>1. CASE body = <<>>
  <2>1. Item(ordered, i, body) = <<>> /\ Only(Alnum, body) = <<>>
      BY <1>1, OnlyEmpty DEF Item
  <2> QED BY <1>1, <2>1
<1>2. CASE body # <<>>
  <2>1. CASE ordered
    <3>1. PICK n : n = Numeral[i]
        OBVIOUS
    <3>2. n \in Alnum /\ n \in Atom /\ n \notin Word
        BY <2>1, <3>1, Numerals
    <3>3. PICK s, y, z : s = <<n, y, z>> /\ y = "." /\ z = " "
        OBVIOUS
    <3>4. y \in Atom /\ z \in Atom /\ y \notin Word /\ z \notin Word
        BY <3>3, RichAssumption DEF Atom, Sign, Blank, Alnum
    <3>5. s \in Seq(Atom) /\ 1 \in DOMAIN s /\ s[1] = n
        BY <3>2, <3>3, <3>4, OfThree
    <3>6. Item(ordered, i, body) = s \o body
        BY <1>2, <2>1, <3>1, <3>3 DEF Item
    <3>7. s \o body \in Seq(Atom)
        BY <3>5, ConcatProperties
    <3>8. \A S : Only(S, s \o body) = Only(S, s) \o Only(S, body)
        BY <3>5, OnlyConcat
    <3>9. Only(Word, s) = <<>>
      <4>1. PICK B : B = Atom \ Word
          OBVIOUS
      <4>2. n \in B /\ y \in B /\ z \in B /\ B \cap Word = {}
          BY <3>2, <3>4, <4>1
      <4>3. s \in Seq(B)
          BY <3>3, <4>2, OfThree
      <4> QED BY <4>2, <4>3, OnlyNone
    <3>10. Only(Word, body) \in Seq(Atom) /\ <<>> \o Only(Word, body) = Only(Word, body)
        BY OnlyType, ConcatEmptySeq
    <3>11. Only(Alnum, s \o body) # <<>>
      <4>1. Only(Alnum, s) # <<>>
        <5>1. 1 \in DOMAIN s /\ s[1] \in Alnum
            BY <3>2, <3>5
        <5> QED BY <3>5, <5>1, OnlyFinds
      <4>2. PICK p : p = Only(Alnum, s)
          OBVIOUS
      <4>3. PICK q : q = Only(Alnum, body)
          OBVIOUS
      <4>4. p \in Seq(Atom) /\ q \in Seq(Atom)
          BY <3>5, <4>2, <4>3, OnlyType
      <4>5. p \o q # <<>>
          BY <4>1, <4>2, <4>4, ConcatNonEmpty
      <4> QED BY <3>8, <4>2, <4>3, <4>5
    <3> QED BY <1>2, <2>1, <3>6, <3>7, <3>8, <3>9, <3>10, <3>11
  <2>2. CASE ~ordered
    <3>1. PICK s : s = <<"*", " ">>
        OBVIOUS
    <3>2. s \in Seq(Sign)
        BY <3>1, Marks
    <3>3. s \in Seq(Atom) /\ Only(Word, s) = <<>> /\ Only(Alnum, s) = <<>>
        BY <3>2, Marked DEF Alnum
    <3>4. Item(ordered, i, body) = s \o body
        BY <1>2, <2>2, <3>1 DEF Item
    <3>5. s \o body \in Seq(Atom)
        BY <3>3, ConcatProperties
    <3>6. \A S : Only(S, s \o body) = Only(S, s) \o Only(S, body)
        BY <3>3, OnlyConcat
    <3>7. \A S : Only(S, body) \in Seq(Atom) /\ <<>> \o Only(S, body) = Only(S, body)
        BY OnlyType, ConcatEmptySeq
    <3>8. Only(Word, s \o body) = Only(Word, body) /\ Only(Alnum, s \o body) = Only(Alnum, body)
        BY <3>3, <3>6, <3>7
    <3> QED BY <2>2, <3>4, <3>5, <3>8
  <2> QED BY <2>1, <2>2
<1> QED BY <1>1, <1>2

-----------------------------------------------------------------------------
(* _block on each kind of block.                                           *)

(* Joined texts are a text.                                                *)
LEMMA JoinType ==
    ASSUME NEW A, NEW parts \in Seq(Seq(A)), NEW mark \in Seq(A)
    PROVE  Join(parts, mark) \in Seq(A) /\ Join(<<>>, mark) = <<>>
<1>1. PICK x : x = <<>>
    OBVIOUS
<1>2. x \in Seq(A)
    BY <1>1
<1>3. /\ Join(<<>>, mark) = <<>> /\ Join(parts, mark) \in Seq(A)
      /\ parts = <<>> => Join(More(parts, x), mark) = x
      /\ parts # <<>> => Join(More(parts, x), mark) = Join(parts, mark) \o (mark \o x)
    BY <1>2, JoinMore
<1> QED BY <1>3

(* The parts that are not empty are texts.                                 *)
LEMMA NonEmptyType ==
    ASSUME NEW A, NEW parts \in Seq(Seq(A))
    PROVE  NonEmpty(parts) \in Seq(Seq(A)) /\ NonEmpty(<<>>) = <<>>
<1>1. PICK B : B = Seq(A)
    OBVIOUS
<1>2. PICK x : x = <<>>
    OBVIOUS
<1>3. parts \in Seq(B) /\ x \in B
    BY <1>1, <1>2, EmptySeq
<1>4. /\ NonEmpty(<<>>) = <<>> /\ NonEmpty(parts) \in Seq(B)
      /\ x # <<>> => NonEmpty(More(parts, x)) = More(NonEmpty(parts), x)
      /\ x = <<>> => NonEmpty(More(parts, x)) = NonEmpty(parts)
    BY <1>3, NonEmptyMore
<1> QED BY <1>1, <1>4

(* The texts of the items of a list, and of the rows of a table.           *)
ItemTexts(texts, block) ==
    [i \in DOMAIN block.items |-> Item(block.ordered, i, Strip(texts[block.items[i]]))]

RowTexts(block) ==
    [i \in DOMAIN block.rows |-> Join(Mapped(TextOf, block.rows[i]), <<" ", "|", " ">>)]

(* A stripped text is a text.                                              *)
LEMMA StripType ==
    ASSUME NEW A, NEW text \in Seq(A)
    PROVE  Strip(text) \in Seq(A)
<1>1. {} \cap Blank = {}
    OBVIOUS
<1> QED BY <1>1, OnlyStrip

(* The lines of a list are texts, one for each item.                       *)
LEMMA ItemTextsType ==
    ASSUME NEW block \in Blocks, block.is = "list", NEW texts,
           \A i \in DOMAIN block.items : texts[block.items[i]] \in Seq(Atom)
    PROVE  /\ ItemTexts(texts, block) \in Seq(Seq(Atom))
           /\ DOMAIN ItemTexts(texts, block) = DOMAIN block.items
<1> DEFINE n == Len(block.items)
<1>1. block.items \in Seq(Blocks) /\ block.ordered \in BOOLEAN
      /\ (block.ordered => Len(block.items) <= Len(Numeral))
    BY BlockFormed
<1>2. n \in Nat /\ DOMAIN block.items = 1 .. n /\ Len(Numeral) \in Nat
    BY <1>1, RichAssumption, LenProperties
<1>3. \A i \in 1 .. n : block.ordered => i \in 1 .. Len(Numeral)
    BY <1>1, <1>2
<1>4. \A i \in 1 .. n : Strip(texts[block.items[i]]) \in Seq(Atom)
    BY <1>2, StripType
<1>5. \A i \in 1 .. n : Item(block.ordered, i, Strip(texts[block.items[i]])) \in Seq(Atom)
    BY <1>1, <1>3, <1>4, ItemShows
<1>6. ItemTexts(texts, block) \in [1 .. n -> Seq(Atom)]
    BY <1>2, <1>5 DEF ItemTexts
<1> QED BY <1>2, <1>6, FunctionSeq

(* The lines of a table are texts, one for each row.                       *)
LEMMA RowTextsType ==
    ASSUME NEW block \in Blocks, block.is = "table"
    PROVE  /\ RowTexts(block) \in Seq(Seq(Atom))
           /\ \A i \in DOMAIN block.rows : Mapped(TextOf, block.rows[i]) \in Seq(Seq(Atom))
           /\ DOMAIN RowTexts(block) = DOMAIN block.rows
<1> DEFINE n == Len(block.rows)
<1>1. block.rows \in Seq(Seq(Nodes))
    BY BlockFormed
<1>2. n \in Nat /\ DOMAIN block.rows = 1 .. n
    BY <1>1, LenProperties
<1>3. ASSUME NEW i \in 1 .. n PROVE Mapped(TextOf, block.rows[i]) \in Seq(Seq(Atom))
  <2>1. PICK B : B = Seq(Atom)
      OBVIOUS
  <2>2. PICK row : row = block.rows[i]
      OBVIOUS
  <2>3. TextOf \in [Nodes -> B] /\ row \in Seq(Nodes)
      BY <1>1, <1>2, <2>1, <2>2, TextOfNode
  <2>4. Mapped(TextOf, row) \in Seq(B)
      BY <2>3, MapType
  <2> QED BY <2>1, <2>2, <2>4
<1>4. PICK mark : mark = <<" ", "|", " ">>
    OBVIOUS
<1>5. mark \in Seq(Atom)
  <2>1. mark \in Seq(Sign)
      BY <1>4, Marks
  <2> QED BY <2>1, Marked
<1>6. \A i \in 1 .. n : Join(Mapped(TextOf, block.rows[i]), mark) \in Seq(Atom)
    BY <1>3, <1>5, JoinType
<1>7. RowTexts(block) \in [1 .. n -> Seq(Atom)]
    BY <1>2, <1>4, <1>6 DEF RowTexts
<1> QED BY <1>2, <1>3, <1>7, FunctionSeq

(* The parts of a block, empty ones too.                                   *)
AllParts(block, inner) ==
    <<TextOf[block.title], TextOf[block.text], TextOf[block.caption],
      Join(NonEmpty(inner), <<"\n">>)>>

(* The four parts of a block are texts; Parts leaves out the empty ones.   *)
LEMMA AllPartsType ==
    ASSUME NEW block \in Blocks, block.is = "block", NEW inner \in Seq(Seq(Atom))
    PROVE  AllParts(block, inner) \in Seq(Seq(Atom)) /\ Parts(block, inner) = NonEmpty(AllParts(block, inner))
<1>1. PICK mark : mark = <<"\n">>
    OBVIOUS
<1>2. mark \in Seq(Atom)
  <2>1. mark \in Seq(Sign)
      BY <1>1, Marks
  <2> QED BY <2>1, Marked
<1>3. Join(NonEmpty(inner), mark) \in Seq(Atom)
    BY <1>2, NonEmptyType, JoinType
<1>4. /\ TextOf[block.title] \in Seq(Atom) /\ TextOf[block.text] \in Seq(Atom)
      /\ TextOf[block.caption] \in Seq(Atom)
    BY BlockFormed, TextOfNode
<1>5. PICK a, b, c, d : /\ a = TextOf[block.title] /\ b = TextOf[block.text]
                        /\ c = TextOf[block.caption] /\ d = Join(NonEmpty(inner), mark)
    OBVIOUS
<1>6. a \in Seq(Atom) /\ b \in Seq(Atom) /\ c \in Seq(Atom) /\ d \in Seq(Atom)
    BY <1>3, <1>4, <1>5
<1>7. <<a, b, c, d>> \in Seq(Seq(Atom))
  <2>1. PICK B : B = Seq(Atom)
      OBVIOUS
  <2>2. a \in B /\ b \in B /\ c \in B /\ d \in B
      BY <1>6, <2>1
  <2>3. <<a, b, c, d>> \in Seq(B)
      BY <2>2
  <2> QED BY <2>1, <2>3
<1>8. AllParts(block, inner) = <<a, b, c, d>>
    BY <1>1, <1>5 DEF AllParts
<1> QED BY <1>7, <1>8 DEF AllParts, Parts

(* _block, on a list, a table and any other block.                         *)
LEMMA OneBlockIs ==
    ASSUME NEW texts, NEW block \in Blocks
    PROVE  /\ block.is = "divider" => OneBlock(texts, block) = <<"---">>
           /\ block.is = "list" =>
                OneBlock(texts, block) = Join(NonEmpty(ItemTexts(texts, block)), <<"\n">>)
           /\ block.is = "table" => OneBlock(texts, block) = Join(RowTexts(block), <<"\n">>)
           /\ block.is = "block" =>
                OneBlock(texts, block) = Join(Parts(block, Mapped(texts, block.blocks)), <<"\n">>)
BY DEF OneBlock, ItemTexts, RowTexts

(* The text of a block is a text.                                          *)
LEMMA OneBlockType ==
    ASSUME NEW block \in Blocks, NEW texts \in [Blocks -> Seq(Atom)]
    PROVE  OneBlock(texts, block) \in Seq(Atom)
<1>1. PICK mark : mark = <<"\n">>
    OBVIOUS
<1>2. mark \in Seq(Atom)
  <2>1. mark \in Seq(Sign)
      BY <1>1, Marks
  <2> QED BY <2>1, Marked
<1>3. CASE block.is = "divider"
  <2>1. PICK s : s = <<"---">>
      OBVIOUS
  <2>2. s \in Seq(Sign)
      BY <2>1, Marks
  <2>3. s \in Seq(Atom)
      BY <2>2, Marked
  <2> QED BY <1>3, <2>1, <2>3, OneBlockIs
<1>4. CASE block.is = "list"
  <2>1. \A i \in DOMAIN block.items : texts[block.items[i]] \in Seq(Atom)
      BY <1>4, BlockFormed
  <2>2. ItemTexts(texts, block) \in Seq(Seq(Atom))
      BY <1>4, <2>1, ItemTextsType
  <2>3. Join(NonEmpty(ItemTexts(texts, block)), mark) \in Seq(Atom)
      BY <1>2, <2>2, NonEmptyType, JoinType
  <2> QED BY <1>1, <1>4, <2>3, OneBlockIs
<1>5. CASE block.is = "table"
    BY <1>1, <1>2, <1>5, RowTextsType, JoinType, OneBlockIs
<1>6. CASE block.is = "block"
  <2>1. PICK inner : inner = Mapped(texts, block.blocks)
      OBVIOUS
  <2>2. inner \in Seq(Seq(Atom))
    <3>1. PICK B : B = Seq(Atom)
        OBVIOUS
    <3>2. texts \in [Blocks -> B] /\ block.blocks \in Seq(Blocks)
        BY <1>6, <3>1, BlockFormed
    <3>3. Mapped(texts, block.blocks) \in Seq(B)
        BY <3>2, MapType
    <3> QED BY <2>1, <3>1, <3>3
  <2>3. PICK parts : parts = AllParts(block, inner)
      OBVIOUS
  <2>4. parts \in Seq(Seq(Atom)) /\ Parts(block, inner) = NonEmpty(parts)
      BY <1>6, <2>2, <2>3, AllPartsType
  <2>5. Join(NonEmpty(parts), mark) \in Seq(Atom)
      BY <1>2, <2>4, NonEmptyType, JoinType
  <2> QED BY <1>1, <1>6, <2>1, <2>4, <2>5, OneBlockIs
<1> QED BY <1>3, <1>4, <1>5, <1>6 DEF Blocks

(* The text of a block depends on what stands inside it only.              *)
LEMMA OneBlockSame ==
    ASSUME NEW block \in Blocks, NEW f, NEW g,
           \A y \in Blocks : Depth[y] < Depth[block] => f[y] = g[y]
    PROVE  OneBlock(f, block) = OneBlock(g, block)
<1>1. CASE block.is = "list"
  <2>1. \A i \in DOMAIN block.items : f[block.items[i]] = g[block.items[i]]
      BY <1>1, BlockFormed
  <2>2. ItemTexts(f, block) = ItemTexts(g, block)
      BY <2>1 DEF ItemTexts
  <2> QED BY <1>1, <2>2, OneBlockIs
<1>2. CASE block.is = "block"
  <2>1. \A i \in DOMAIN block.blocks : f[block.blocks[i]] = g[block.blocks[i]]
      BY <1>2, BlockFormed
  <2>2. Mapped(f, block.blocks) = Mapped(g, block.blocks)
      BY <2>1 DEF Mapped
  <2> QED BY <1>2, <2>2, OneBlockIs
<1>3. CASE block.is \in {"divider", "table"}
    BY <1>3, OneBlockIs
<1> QED BY <1>1, <1>2, <1>3 DEF Blocks

-----------------------------------------------------------------------------
(* The recursive functions of rich messages have their defining equations. *)

(* BlockText is the function that _block computes.                         *)
LEMMA BlockTextOf ==
    /\ BlockText \in [Blocks -> Seq(Atom)]
    /\ \A block \in Blocks : BlockText[block] = OneBlock(BlockText, block)
<1> DEFINE R == Seq(Atom)
           G == [block \in Blocks |-> [f \in [Blocks -> R] |-> OneBlock(f, block)]]
           Reads(f) == f = [block \in Blocks |-> OneBlock(f, block)]
<1>1. \A block \in Blocks, f \in [Blocks -> R] : G[block][f] = OneBlock(f, block)
    OBVIOUS
<1>2. Contracts(Blocks, Depth, R, G)
  <2> HIDE DEF G
  <2>1. \A block \in Blocks, f \in [Blocks -> R] : G[block][f] \in R
      BY <1>1, OneBlockType
  <2>2. ASSUME NEW block \in Blocks, NEW f \in [Blocks -> R], NEW g \in [Blocks -> R],
               \A y \in Blocks : Depth[y] < Depth[block] => f[y] = g[y]
        PROVE  G[block][f] = G[block][g]
    <3>1. OneBlock(f, block) = OneBlock(g, block)
        BY <2>2, OneBlockSame
    <3> QED BY <1>1, <3>1
  <2> HIDE DEF R
  <2> QED BY <2>1, <2>2, BlockDepth DEF Contracts
<1>3. R # {}
    BY EmptySeq
<1> HIDE DEF R, G
<1>4. PICK f \in [Blocks -> R] : Solves(f, Blocks, G)
    BY <1>2, <1>3, Recursion
<1>5. Reads(f)
    BY <1>1, <1>4 DEF Solves
<1>6. BlockText = CHOOSE g : Reads(g)
    BY DEF BlockText
<1>7. Reads(BlockText)
  <2> HIDE DEF Reads
  <2> QED BY <1>5, <1>6
<1>8. \A block \in Blocks : BlockText[block] = OneBlock(BlockText, block) /\ f[block] = OneBlock(f, block)
    BY <1>5, <1>7
<1>9. BlockText = f
  <2> DEFINE T == {block \in Blocks : BlockText[block] = f[block]}
  <2>1. ASSUME NEW block \in Blocks, \A y \in Blocks : Depth[y] < Depth[block] => y \in T
        PROVE  block \in T
    <3>1. \A y \in Blocks : Depth[y] < Depth[block] => BlockText[y] = f[y]
        BY <2>1
    <3>2. OneBlock(BlockText, block) = OneBlock(f, block)
        BY <3>1, OneBlockSame
    <3> QED BY <1>8, <3>2
  <2>2. Blocks \subseteq T
    <3> HIDE DEF T
    <3> QED BY <2>1, BlockDepth, Downward
  <2>3. \A block \in Blocks : BlockText[block] = f[block]
      BY <2>2
  <2>4. BlockText = [block \in Blocks |-> BlockText[block]] /\ f = [block \in Blocks |-> f[block]]
      BY <1>7
  <2> QED BY <2>3, <2>4
<1>10. BlockText \in [Blocks -> R]
    BY <1>9
<1> QED BY <1>8, <1>10 DEF R

(* What stands in any tree.                                                *)
LEMMA TreeFormed ==
    /\ Nodes \subseteq Tree /\ Blocks \subseteq Tree
    /\ \A tree \in Tree : tree \in Nodes \/ tree \in Blocks
<1>1. ASSUME NEW tree \in Tree PROVE tree \in Nodes \/ tree \in Blocks
  <2>1. Formed(tree)
      BY RichAssumption
  <2>2. tree.is \in {"absent", "image", "divider", "string", "styled", "concat", "list", "table", "block"}
      BY <2>1 DEF Formed
  <2> QED BY <2>2 DEF Nodes, Blocks
<1> QED BY <1>1 DEF Nodes, Blocks

(* A tree has a depth.                                                     *)
LEMMA TreeDepth == \A tree \in Tree : Depth[tree] \in Nat
BY RichAssumption DEF Tree

(* What has of S an atom, has it inside S.                                 *)
LEMMA OnlyInside ==
    ASSUME NEW A, NEW S, NEW text \in Seq(A)
    PROVE  Only(S, text) \in Seq(S)
<1> DEFINE T == {t \in Seq(A) : Only(S, t) \in Seq(S)}
<1>1. <<>> \in T
    BY OnlyEmpty, EmptySeq
<1>2. ASSUME NEW t \in Seq(A), NEW x \in A, t \in T
      PROVE  More(t, x) \in T
  <2>1. PICK p : p = IF x \in S THEN <<x>> ELSE <<>>
      OBVIOUS
  <2>2. Only(S, More(t, x)) = Only(S, t) \o p
      BY <2>1, OnlyMore
  <2>3. p \in Seq(S) /\ Only(S, t) \in Seq(S)
      BY <1>2, <2>1
  <2>4. Only(S, t) \o p \in Seq(S)
      BY <2>3, ConcatProperties
  <2> QED BY <2>2, <2>4, MoreSeq
<1> HIDE DEF T
<1>3. Seq(A) \subseteq T
    BY <1>1, <1>2, SequencesIn
<1> QED BY <1>3 DEF T

(* The words of the rows of a table.                                       *)
WordRows(words, tree) ==
    [i \in DOMAIN tree.rows |-> FlattenSeq(Mapped(words, tree.rows[i]))]

(* The words a tree shows are words and numbers.                           *)
LEMMA ShownType ==
    ASSUME NEW tree \in Tree, NEW words \in [Tree -> Seq(Alnum)]
    PROVE  Shown(words, tree) \in Seq(Alnum)
<1>1. PICK B : B = Seq(Alnum)
    OBVIOUS
<1>2. ASSUME NEW s \in Seq(Tree)
      PROVE  Mapped(words, s) \in Seq(B) /\ FlattenSeq(Mapped(words, s)) \in Seq(Alnum)
  <2>1. words \in [Tree -> B]
      BY <1>1
  <2>2. Mapped(words, s) \in Seq(B)
      BY <2>1, MapType
  <2>3. Mapped(words, s) \in Seq(Seq(Alnum))
      BY <1>1, <2>2
  <2> QED BY <2>2, <2>3, FlattenType
<1>3. tree \in Nodes \/ tree \in Blocks
    BY TreeFormed
<1>4. CASE tree.is = "string"
  <2>1. tree.text \in Seq(Atom)
      BY <1>3, <1>4, NodeFormed DEF Blocks
  <2>2. Only(Alnum, tree.text) \in Seq(Alnum)
      BY <2>1, OnlyInside
  <2> QED BY <1>4, <2>2 DEF Shown
<1>5. CASE tree.is = "styled"
  <2>1. tree.node \in Tree
      BY <1>3, <1>5, NodeFormed, TreeFormed DEF Blocks
  <2> QED BY <1>5, <2>1 DEF Shown
<1>6. CASE tree.is = "concat"
  <2>1. tree.texts \in Seq(Tree)
      BY <1>3, <1>6, NodeFormed, TreeFormed DEF Blocks
  <2> QED BY <1>2, <1>6, <2>1 DEF Shown
<1>7. CASE tree.is = "list"
  <2>1. tree.items \in Seq(Tree)
    <3>1. tree \in Blocks
        BY <1>3, <1>7 DEF Nodes
    <3>2. tree.items \in Seq(Blocks)
        BY <1>7, <3>1, BlockFormed
    <3>3. Blocks \subseteq Tree
        BY TreeFormed
    <3> QED BY <3>2, <3>3
  <2> QED BY <1>2, <1>7, <2>1 DEF Shown
<1>8. CASE tree.is = "table"
  <2>1. tree.rows \in Seq(Seq(Nodes))
      BY <1>3, <1>8, BlockFormed DEF Nodes
  <2>2. \A i \in DOMAIN tree.rows : tree.rows[i] \in Seq(Tree)
      BY <2>1, TreeFormed
  <2>3. FlattenSeq(WordRows(words, tree)) \in Seq(Alnum)
    <3>1. DOMAIN tree.rows = 1 .. Len(tree.rows) /\ Len(tree.rows) \in Nat
        BY <2>1, LenProperties
    <3>2. WordRows(words, tree) \in [1 .. Len(tree.rows) -> B]
        BY <1>1, <1>2, <2>2, <3>1 DEF WordRows
    <3>3. WordRows(words, tree) \in Seq(Seq(Alnum))
        BY <1>1, <3>1, <3>2, FunctionSeq
    <3> QED BY <3>3, FlattenType
  <2>4. Shown(words, tree) = FlattenSeq(WordRows(words, tree))
      BY <1>8 DEF Shown, WordRows
  <2> QED BY <2>3, <2>4
<1>9. CASE tree.is = "block"
  <2>1. tree.blocks \in Seq(Tree) /\ tree.title \in Tree /\ tree.text \in Tree /\ tree.caption \in Tree
    <3>1. tree \in Blocks
        BY <1>3, <1>9 DEF Nodes
    <3>2. /\ tree.blocks \in Seq(Blocks)
          /\ tree.title \in Nodes /\ tree.text \in Nodes /\ tree.caption \in Nodes
        BY <1>9, <3>1, BlockFormed
    <3>3. Blocks \subseteq Tree /\ Nodes \subseteq Tree
        BY TreeFormed
    <3> QED BY <3>2, <3>3
  <2>2. PICK a, b, c, d : /\ a = words[tree.title] /\ b = words[tree.text]
                          /\ c = words[tree.caption] /\ d = FlattenSeq(Mapped(words, tree.blocks))
      OBVIOUS
  <2>3. a \in Seq(Alnum) /\ b \in Seq(Alnum) /\ c \in Seq(Alnum) /\ d \in Seq(Alnum)
      BY <1>2, <2>1, <2>2
  <2>4. a \o b \o c \o d \in Seq(Alnum)
      BY <2>3
  <2>5. Shown(words, tree) = a \o b \o c \o d
      BY <1>9, <2>2 DEF Shown
  <2> QED BY <2>4, <2>5
<1>10. CASE tree.is \in {"absent", "image", "divider"}
    BY <1>10 DEF Shown
<1> QED BY <1>3, <1>4, <1>5, <1>6, <1>7, <1>8, <1>9, <1>10 DEF Nodes, Blocks

(* The words a tree shows depend on what stands inside it only.            *)
LEMMA ShownSame ==
    ASSUME NEW tree \in Tree, NEW f, NEW g,
           \A y \in Tree : Depth[y] < Depth[tree] => f[y] = g[y]
    PROVE  Shown(f, tree) = Shown(g, tree)
<1>1. tree \in Nodes \/ tree \in Blocks
    BY TreeFormed
<1>2. \A s : (\A i \in DOMAIN s : f[s[i]] = g[s[i]]) => Mapped(f, s) = Mapped(g, s)
    BY DEF Mapped
<1>3. CASE tree.is = "styled"
    BY <1>1, <1>3, NodeFormed, TreeFormed DEF Shown, Blocks
<1>4. CASE tree.is = "concat"
  <2>1. \A i \in DOMAIN tree.texts : f[tree.texts[i]] = g[tree.texts[i]]
      BY <1>1, <1>4, NodeFormed, TreeFormed DEF Blocks
  <2>2. Mapped(f, tree.texts) = Mapped(g, tree.texts)
      BY <1>2, <2>1
  <2> QED BY <1>4, <2>2 DEF Shown
<1>5. CASE tree.is = "list"
  <2>1. \A i \in DOMAIN tree.items : f[tree.items[i]] = g[tree.items[i]]
      BY <1>1, <1>5, BlockFormed, TreeFormed DEF Nodes
  <2>2. Mapped(f, tree.items) = Mapped(g, tree.items)
      BY <1>2, <2>1
  <2> QED BY <1>5, <2>2 DEF Shown
<1>6. CASE tree.is = "table"
  <2>1. \A i \in DOMAIN tree.rows : \A j \in DOMAIN tree.rows[i] :
          f[tree.rows[i][j]] = g[tree.rows[i][j]]
      BY <1>1, <1>6, BlockFormed, TreeFormed DEF Nodes
  <2>2. \A i \in DOMAIN tree.rows : Mapped(f, tree.rows[i]) = Mapped(g, tree.rows[i])
      BY <1>2, <2>1
  <2>3. WordRows(f, tree) = WordRows(g, tree)
      BY <2>2 DEF WordRows
  <2>4. \A h : Shown(h, tree) = FlattenSeq(WordRows(h, tree))
      BY <1>6 DEF Shown, WordRows
  <2> QED BY <2>3, <2>4
<1>7. CASE tree.is = "block"
  <2>1. \A i \in DOMAIN tree.blocks : f[tree.blocks[i]] = g[tree.blocks[i]]
      BY <1>1, <1>7, BlockFormed, TreeFormed DEF Nodes
  <2>2. Mapped(f, tree.blocks) = Mapped(g, tree.blocks)
      BY <1>2, <2>1
  <2>3. f[tree.title] = g[tree.title] /\ f[tree.text] = g[tree.text] /\ f[tree.caption] = g[tree.caption]
      BY <1>1, <1>7, BlockFormed, TreeFormed DEF Nodes
  <2> QED BY <1>7, <2>2, <2>3 DEF Shown
<1>8. CASE tree.is \in {"string", "absent", "image", "divider"}
    BY <1>8 DEF Shown
<1> QED BY <1>1, <1>3, <1>4, <1>5, <1>6, <1>7, <1>8 DEF Nodes, Blocks

(* WordsOf has the equation that defines it.                               *)
LEMMA WordsOfTree ==
    /\ WordsOf \in [Tree -> Seq(Alnum)]
    /\ \A tree \in Tree : WordsOf[tree] = Shown(WordsOf, tree)
<1> DEFINE R == Seq(Alnum)
           G == [tree \in Tree |-> [f \in [Tree -> R] |-> Shown(f, tree)]]
           Reads(f) == f = [tree \in Tree |-> Shown(f, tree)]
<1>1. \A tree \in Tree, f \in [Tree -> R] : G[tree][f] = Shown(f, tree)
    OBVIOUS
<1>2. Contracts(Tree, Depth, R, G)
  <2> HIDE DEF G
  <2>1. \A tree \in Tree, f \in [Tree -> R] : G[tree][f] \in R
      BY <1>1, ShownType
  <2>2. ASSUME NEW tree \in Tree, NEW f \in [Tree -> R], NEW g \in [Tree -> R],
               \A y \in Tree : Depth[y] < Depth[tree] => f[y] = g[y]
        PROVE  G[tree][f] = G[tree][g]
    <3>1. Shown(f, tree) = Shown(g, tree)
        BY <2>2, ShownSame
    <3> QED BY <1>1, <3>1
  <2> HIDE DEF R
  <2> QED BY <2>1, <2>2, TreeDepth DEF Contracts
<1>3. R # {}
    BY EmptySeq
<1> HIDE DEF R, G
<1>4. PICK f \in [Tree -> R] : Solves(f, Tree, G)
    BY <1>2, <1>3, Recursion
<1>5. Reads(f)
    BY <1>1, <1>4 DEF Solves
<1>6. WordsOf = CHOOSE g : Reads(g)
    BY DEF WordsOf
<1>7. Reads(WordsOf)
  <2> HIDE DEF Reads
  <2> QED BY <1>5, <1>6
<1>8. \A tree \in Tree : WordsOf[tree] = Shown(WordsOf, tree) /\ f[tree] = Shown(f, tree)
    BY <1>5, <1>7
<1>9. WordsOf = f
  <2> DEFINE T == {tree \in Tree : WordsOf[tree] = f[tree]}
  <2>1. ASSUME NEW tree \in Tree, \A y \in Tree : Depth[y] < Depth[tree] => y \in T
        PROVE  tree \in T
    <3>1. \A y \in Tree : Depth[y] < Depth[tree] => WordsOf[y] = f[y]
        BY <2>1
    <3>2. Shown(WordsOf, tree) = Shown(f, tree)
        BY <3>1, ShownSame
    <3> QED BY <1>8, <3>2
  <2>2. Tree \subseteq T
    <3> HIDE DEF T
    <3> QED BY <2>1, TreeDepth, Downward
  <2>3. \A tree \in Tree : WordsOf[tree] = f[tree]
      BY <2>2
  <2>4. WordsOf = [tree \in Tree |-> WordsOf[tree]] /\ f = [tree \in Tree |-> f[tree]]
      BY <1>7
  <2> QED BY <2>3, <2>4
<1>10. WordsOf \in [Tree -> R]
    BY <1>9
<1> QED BY <1>8, <1>10 DEF R

(* A block is counted or is not.                                           *)
LEMMA CountedType ==
    ASSUME NEW block \in Blocks, NEW numbers \in [Blocks -> BOOLEAN]
    PROVE  Counted(numbers, block) \in BOOLEAN
BY DEF Counted

(* Whether a block is counted depends on the blocks inside it only.        *)
LEMMA CountedSame ==
    ASSUME NEW block \in Blocks, NEW f, NEW g,
           \A y \in Blocks : Depth[y] < Depth[block] => f[y] = g[y]
    PROVE  Counted(f, block) = Counted(g, block)
<1>1. CASE block.is = "list"
  <2>1. \A i \in DOMAIN block.items : f[block.items[i]] = g[block.items[i]]
      BY <1>1, BlockFormed
  <2> QED BY <1>1, <2>1 DEF Counted
<1>2. CASE block.is = "block"
  <2>1. \A i \in DOMAIN block.blocks : f[block.blocks[i]] = g[block.blocks[i]]
      BY <1>2, BlockFormed
  <2> QED BY <1>2, <2>1 DEF Counted
<1>3. CASE block.is \notin {"list", "block"}
    BY <1>3 DEF Counted
<1> QED BY <1>1, <1>2, <1>3

(* Numbers has the equation that defines it.                               *)
LEMMA NumbersOf ==
    /\ Numbers \in [Blocks -> BOOLEAN]
    /\ \A block \in Blocks : Numbers[block] = Counted(Numbers, block)
<1> DEFINE R == BOOLEAN
           G == [block \in Blocks |-> [f \in [Blocks -> R] |-> Counted(f, block)]]
           Reads(f) == f = [block \in Blocks |-> Counted(f, block)]
<1>1. \A block \in Blocks, f \in [Blocks -> R] : G[block][f] = Counted(f, block)
    OBVIOUS
<1>2. Contracts(Blocks, Depth, R, G)
  <2> HIDE DEF G
  <2>1. \A block \in Blocks, f \in [Blocks -> R] : G[block][f] \in R
      BY <1>1, CountedType
  <2>2. ASSUME NEW block \in Blocks, NEW f \in [Blocks -> R], NEW g \in [Blocks -> R],
               \A y \in Blocks : Depth[y] < Depth[block] => f[y] = g[y]
        PROVE  G[block][f] = G[block][g]
    <3>1. Counted(f, block) = Counted(g, block)
        BY <2>2, CountedSame
    <3> QED BY <1>1, <3>1
  <2> HIDE DEF R
  <2> QED BY <2>1, <2>2, BlockDepth DEF Contracts
<1>3. R # {}
    OBVIOUS
<1> HIDE DEF R, G
<1>4. PICK f \in [Blocks -> R] : Solves(f, Blocks, G)
    BY <1>2, <1>3, Recursion
<1>5. Reads(f)
    BY <1>1, <1>4 DEF Solves
<1>6. Numbers = CHOOSE g : Reads(g)
    BY DEF Numbers
<1>7. Reads(Numbers)
  <2> HIDE DEF Reads
  <2> QED BY <1>5, <1>6
<1>8. \A block \in Blocks : Numbers[block] = Counted(Numbers, block) /\ f[block] = Counted(f, block)
    BY <1>5, <1>7
<1>9. Numbers = f
  <2> DEFINE T == {block \in Blocks : Numbers[block] = f[block]}
  <2>1. ASSUME NEW block \in Blocks, \A y \in Blocks : Depth[y] < Depth[block] => y \in T
        PROVE  block \in T
    <3>1. \A y \in Blocks : Depth[y] < Depth[block] => Numbers[y] = f[y]
        BY <2>1
    <3>2. Counted(Numbers, block) = Counted(f, block)
        BY <3>1, CountedSame
    <3> QED BY <1>8, <3>2
  <2>2. Blocks \subseteq T
    <3> HIDE DEF T
    <3> QED BY <2>1, BlockDepth, Downward
  <2>3. \A block \in Blocks : Numbers[block] = f[block]
      BY <2>2
  <2>4. Numbers = [block \in Blocks |-> Numbers[block]] /\ f = [block \in Blocks |-> f[block]]
      BY <1>7
  <2> QED BY <2>3, <2>4
<1>10. Numbers \in [Blocks -> R]
    BY <1>9
<1> QED BY <1>8, <1>10 DEF R

-----------------------------------------------------------------------------
(* The words of nodes, tables and blocks of four parts.                    *)

(* The texts of a sequence of nodes, and what they have of words.          *)
LEMMA MappedTexts ==
    ASSUME NEW s \in Seq(Nodes), \A i \in DOMAIN s : Only(Alnum, TextOf[s[i]]) = WordsOf[s[i]]
    PROVE  /\ Mapped(TextOf, s) \in Seq(Seq(Atom))
           /\ Each(Alnum, Mapped(TextOf, s)) = Mapped(WordsOf, s)
<1>1. Mapped(TextOf, s) \in Seq(Seq(Atom)) /\ DOMAIN Mapped(TextOf, s) = DOMAIN s
  <2>1. PICK B : B = Seq(Atom)
      OBVIOUS
  <2>2. TextOf \in [Nodes -> B]
      BY <2>1, TextOfNode
  <2>3. Mapped(TextOf, s) \in Seq(B) /\ DOMAIN Mapped(TextOf, s) = DOMAIN s
      BY <2>2, MapType
  <2> QED BY <2>1, <2>3
<1>2. \A i \in DOMAIN s : Mapped(TextOf, s)[i] = TextOf[s[i]]
    BY DEF Mapped
<1>3. Each(Alnum, Mapped(TextOf, s)) = [i \in DOMAIN s |-> WordsOf[s[i]]]
    BY <1>1, <1>2 DEF Each
<1> QED BY <1>1, <1>3 DEF Mapped

(* The words of a node are those of its text.                              *)
LEMMA NodeWords == \A node \in Nodes : Only(Alnum, TextOf[node]) = WordsOf[node]
<1> DEFINE T == {node \in Nodes : Only(Alnum, TextOf[node]) = WordsOf[node]}
<1>1. ASSUME NEW node \in Nodes, \A y \in Nodes : Depth[y] < Depth[node] => y \in T
      PROVE  node \in T
  <2>1. TextOf[node] = NodeText(TextOf, node) /\ WordsOf[node] = Shown(WordsOf, node)
      BY TextOfNode, WordsOfTree, TreeFormed
  <2>2. CASE node.is = "string"
      BY <2>1, <2>2 DEF NodeText, Shown
  <2>3. CASE node.is = "styled"
    <3>1. Only(Alnum, TextOf[node.node]) = WordsOf[node.node]
        BY <1>1, <2>3, NodeFormed
    <3> QED BY <2>1, <2>3, <3>1 DEF NodeText, Shown
  <2>4. CASE node.is = "concat"
    <3>1. /\ node.texts \in Seq(Nodes)
          /\ \A i \in DOMAIN node.texts :
               Only(Alnum, TextOf[node.texts[i]]) = WordsOf[node.texts[i]]
        BY <1>1, <2>4, NodeFormed
    <3>2. PICK s : s = node.texts
        OBVIOUS
    <3>3. s \in Seq(Nodes) /\ \A i \in DOMAIN s : Only(Alnum, TextOf[s[i]]) = WordsOf[s[i]]
        BY <3>1, <3>2
    <3>4. /\ Mapped(TextOf, s) \in Seq(Seq(Atom))
          /\ Each(Alnum, Mapped(TextOf, s)) = Mapped(WordsOf, s)
        BY <3>3, MappedTexts
    <3>5. Only(Alnum, FlattenSeq(Mapped(TextOf, s))) = FlattenSeq(Each(Alnum, Mapped(TextOf, s)))
        BY <3>4, OnlyFlatten
    <3> QED BY <2>1, <2>4, <3>2, <3>4, <3>5 DEF NodeText, Shown
  <2>5. CASE node.is \in {"absent", "image"}
      BY <2>1, <2>5, OnlyEmpty DEF NodeText, Shown
  <2> QED BY <2>2, <2>3, <2>4, <2>5 DEF Nodes
<1>2. Nodes \subseteq T
  <2> HIDE DEF T
  <2> QED BY <1>1, NodeDepth, Downward
<1> QED BY <1>2

(* Lines that are joined, and what they have of words.                     *)
LEMMA Joined ==
    ASSUME NEW S, S \subseteq Alnum, NEW parts \in Seq(Seq(Atom))
    PROVE  /\ Only(S, Join(parts, <<"\n">>)) = FlattenSeq(Each(S, parts))
           /\ Only(S, Join(parts, <<" ", "|", " ">>)) = FlattenSeq(Each(S, parts))
           /\ Only(S, Join(NonEmpty(parts), <<"\n">>)) = FlattenSeq(Each(S, parts))
<1>1. PICK line, bar : line = <<"\n">> /\ bar = <<" ", "|", " ">>
    OBVIOUS
<1>2. line \in Seq(Sign) /\ bar \in Seq(Sign)
    BY <1>1, Marks
<1>3. /\ line \in Seq(Atom) /\ Only(S, line) = <<>>
      /\ bar \in Seq(Atom) /\ Only(S, bar) = <<>>
    BY <1>2, Marked
<1>4. Only(S, Join(parts, line)) = FlattenSeq(Each(S, parts))
    BY <1>3, OnlyJoin
<1>5. Only(S, Join(parts, bar)) = FlattenSeq(Each(S, parts))
    BY <1>3, OnlyJoin
<1>6. NonEmpty(parts) \in Seq(Seq(Atom))
    BY NonEmptyType
<1>7. Only(S, Join(NonEmpty(parts), line)) = FlattenSeq(Each(S, NonEmpty(parts)))
  <2>1. PICK p : p = NonEmpty(parts)
      OBVIOUS
  <2>2. p \in Seq(Seq(Atom))
      BY <1>6, <2>1
  <2>3. Only(S, Join(p, line)) = FlattenSeq(Each(S, p))
      BY <1>3, <2>2, OnlyJoin
  <2> QED BY <2>1, <2>3
<1>8. FlattenSeq(Each(S, NonEmpty(parts))) = FlattenSeq(Each(S, parts))
    BY OnlyNonEmpty
<1> QED BY <1>1, <1>4, <1>5, <1>7, <1>8

(* A table shows the words of its cells, row by row (_block).              *)
LEMMA TableWords ==
    ASSUME NEW block \in Blocks, block.is = "table"
    PROVE  Only(Alnum, BlockText[block]) = WordsOf[block]
<1>1. BlockText[block] = Join(RowTexts(block), <<"\n">>)
    BY BlockTextOf, OneBlockIs
<1>2. WordsOf[block] = FlattenSeq(WordRows(WordsOf, block))
    BY WordsOfTree, TreeFormed DEF Shown, WordRows
<1>3. /\ RowTexts(block) \in Seq(Seq(Atom))
      /\ DOMAIN RowTexts(block) = DOMAIN block.rows
    BY RowTextsType
<1>4. Only(Alnum, Join(RowTexts(block), <<"\n">>)) = FlattenSeq(Each(Alnum, RowTexts(block)))
    BY <1>3, Joined
<1>5. ASSUME NEW i \in DOMAIN block.rows
      PROVE  Only(Alnum, RowTexts(block)[i]) = FlattenSeq(Mapped(WordsOf, block.rows[i]))
  <2>1. PICK row : row = block.rows[i]
      OBVIOUS
  <2>2. row \in Seq(Nodes)
      BY <2>1, BlockFormed
  <2>3. \A j \in DOMAIN row : Only(Alnum, TextOf[row[j]]) = WordsOf[row[j]]
      BY <2>2, NodeWords
  <2>4. PICK p : p = Mapped(TextOf, row)
      OBVIOUS
  <2>5. p \in Seq(Seq(Atom)) /\ Each(Alnum, p) = Mapped(WordsOf, row)
      BY <2>2, <2>3, <2>4, MappedTexts
  <2>6. Only(Alnum, Join(p, <<" ", "|", " ">>)) = FlattenSeq(Each(Alnum, p))
      BY <2>5, Joined
  <2>7. RowTexts(block)[i] = Join(p, <<" ", "|", " ">>)
      BY <2>1, <2>4 DEF RowTexts
  <2> QED BY <2>1, <2>5, <2>6, <2>7
<1>6. Each(Alnum, RowTexts(block)) = WordRows(WordsOf, block)
    BY <1>3, <1>5 DEF Each, WordRows
<1> QED BY <1>1, <1>2, <1>4, <1>6

(* A sequence of four, as one element more, four times.                    *)
LEMMA FourMore ==
    ASSUME NEW B, NEW a \in B, NEW b \in B, NEW c \in B, NEW d \in B, NEW parts, parts = <<a, b, c, d>>
    PROVE  \E p, q, r, s \in Seq(B) :
              /\ p = <<>> /\ q = More(p, a) /\ r = More(q, b) /\ s = More(r, c) /\ parts = More(s, d)
<1>1. PICK p, q, r, s, t : /\ p = <<>> /\ q = More(p, a) /\ r = More(q, b)
                           /\ s = More(r, c) /\ t = More(s, d)
    OBVIOUS
<1>2. p \in Seq(B) /\ Len(p) = 0
    BY <1>1, EmptySeq
<1>3. q \in Seq(B) /\ Len(q) = 1 /\ q[1] = a
  <2>1. q \in Seq(B) /\ Len(q) = 0 + 1 /\ (\A i \in 1 .. 0 : q[i] = p[i]) /\ q[0 + 1] = a
      BY <1>1, <1>2 DEF More
  <2> QED BY <2>1
<1>4. r \in Seq(B) /\ Len(r) = 2 /\ r[1] = a /\ r[2] = b
  <2>1. r \in Seq(B) /\ Len(r) = 1 + 1 /\ (\A i \in 1 .. 1 : r[i] = q[i]) /\ r[1 + 1] = b
      BY <1>1, <1>3 DEF More
  <2> QED BY <1>3, <2>1
<1>5. s \in Seq(B) /\ Len(s) = 3 /\ s[1] = a /\ s[2] = b /\ s[3] = c
  <2>1. s \in Seq(B) /\ Len(s) = 2 + 1 /\ (\A i \in 1 .. 2 : s[i] = r[i]) /\ s[2 + 1] = c
      BY <1>1, <1>4 DEF More
  <2> QED BY <1>4, <2>1
<1>6. t \in Seq(B) /\ Len(t) = 4 /\ t[1] = a /\ t[2] = b /\ t[3] = c /\ t[4] = d
  <2>1. t \in Seq(B) /\ Len(t) = 3 + 1 /\ (\A i \in 1 .. 3 : t[i] = s[i]) /\ t[3 + 1] = d
      BY <1>1, <1>5 DEF More
  <2> QED BY <1>5, <2>1
<1>7. /\ parts \in Seq(B) /\ Len(parts) = 4
      /\ parts[1] = a /\ parts[2] = b /\ parts[3] = c /\ parts[4] = d
    OBVIOUS
<1>8. \A i \in 1 .. Len(t) : t[i] = parts[i]
  <2>1. \A i \in 1 .. 4 : i = 1 \/ i = 2 \/ i = 3 \/ i = 4
      OBVIOUS
  <2> QED BY <1>6, <1>7, <2>1
<1>9. t = parts
    BY <1>6, <1>7, <1>8, SeqEqual
<1> QED BY <1>1, <1>2, <1>3, <1>4, <1>5, <1>9

(* Four texts over A in a sequence.                                        *)
Four(A, parts, a, b, c, d) ==
    /\ a \in Seq(A) /\ b \in Seq(A) /\ c \in Seq(A) /\ d \in Seq(A)
    /\ parts = <<a, b, c, d>>

(* The concatenation of four texts.                                        *)
LEMMA FlattenFour ==
    ASSUME NEW A, NEW a, NEW b, NEW c, NEW d, NEW parts, Four(A, parts, a, b, c, d)
    PROVE  FlattenSeq(parts) = a \o b \o c \o d
<1>1. PICK B : B = Seq(A)
    OBVIOUS
<1>2. a \in B /\ b \in B /\ c \in B /\ d \in B /\ parts = <<a, b, c, d>>
    BY <1>1 DEF Four
<1>3. PICK p, q, r, s \in Seq(B) :
        /\ p = <<>> /\ q = More(p, a) /\ r = More(q, b) /\ s = More(r, c) /\ parts = More(s, d)
    BY <1>2, FourMore
<1>4. /\ p \in Seq(Seq(A)) /\ q \in Seq(Seq(A)) /\ r \in Seq(Seq(A)) /\ s \in Seq(Seq(A))
      /\ a \in Seq(A) /\ b \in Seq(A) /\ c \in Seq(A) /\ d \in Seq(A)
    BY <1>1, <1>2
<1>5. FlattenSeq(q) = FlattenSeq(p) \o a /\ FlattenSeq(r) = FlattenSeq(q) \o b
    BY <1>3, <1>4, FlattenMore
<1>6. FlattenSeq(s) = FlattenSeq(r) \o c /\ FlattenSeq(parts) = FlattenSeq(s) \o d
    BY <1>3, <1>4, FlattenMore
<1>7. FlattenSeq(p) = <<>> /\ <<>> \o a = a
    BY <1>3, FlattenEmpty, ConcatEmptySeq
<1> QED BY <1>5, <1>6, <1>7

(* What four texts have of S.                                              *)
LEMMA EachFour ==
    ASSUME NEW A, NEW S, NEW a, NEW b, NEW c, NEW d, NEW parts, Four(A, parts, a, b, c, d)
    PROVE  /\ parts \in Seq(Seq(A))
           /\ FlattenSeq(Each(S, parts)) = Only(S, a) \o Only(S, b) \o Only(S, c) \o Only(S, d)
<1>1. parts \in Seq(Seq(A))
  <2>1. PICK B : B = Seq(A)
      OBVIOUS
  <2>2. a \in B /\ b \in B /\ c \in B /\ d \in B
      BY <2>1 DEF Four
  <2>3. parts \in Seq(B)
      BY <2>2 DEF Four
  <2> QED BY <2>1, <2>3
<1>2. PICK w, x, y, z : w = Only(S, a) /\ x = Only(S, b) /\ y = Only(S, c) /\ z = Only(S, d)
    OBVIOUS
<1>3. w \in Seq(A) /\ x \in Seq(A) /\ y \in Seq(A) /\ z \in Seq(A)
    BY <1>2, OnlyType DEF Four
<1>4. PICK p : p = Each(S, parts)
    OBVIOUS
<1>5. p = <<w, x, y, z>>
    BY <1>2, <1>4 DEF Each, Four
<1>6. Four(A, p, w, x, y, z)
    BY <1>3, <1>5 DEF Four
<1>7. FlattenSeq(p) = w \o x \o y \o z
    BY <1>6, FlattenFour
<1> QED BY <1>1, <1>2, <1>4, <1>7

(* What any other block has of words: those of its parts, in order.        *)
LEMMA PartsWords ==
    ASSUME NEW S, S \subseteq Alnum, NEW block \in Blocks, block.is = "block"
    PROVE  /\ Mapped(BlockText, block.blocks) \in Seq(Seq(Atom))
           /\ Only(S, BlockText[block])
                = Only(S, TextOf[block.title]) \o Only(S, TextOf[block.text])
                    \o Only(S, TextOf[block.caption])
                    \o FlattenSeq(Each(S, Mapped(BlockText, block.blocks)))
<1>1. PICK inner : inner = Mapped(BlockText, block.blocks)
    OBVIOUS
<1>2. inner \in Seq(Seq(Atom))
  <2>1. PICK B : B = Seq(Atom)
      OBVIOUS
  <2>2. BlockText \in [Blocks -> B] /\ block.blocks \in Seq(Blocks)
      BY <2>1, BlockTextOf, BlockFormed
  <2>3. Mapped(BlockText, block.blocks) \in Seq(B)
      BY <2>2, MapType
  <2> QED BY <1>1, <2>1, <2>3
<1>3. PICK parts : parts = AllParts(block, inner)
    OBVIOUS
<1>4. parts \in Seq(Seq(Atom)) /\ Parts(block, inner) = NonEmpty(parts)
    BY <1>2, <1>3, AllPartsType
<1>5. BlockText[block] = Join(NonEmpty(parts), <<"\n">>)
    BY <1>1, <1>4, BlockTextOf, OneBlockIs
<1>6. Only(S, BlockText[block]) = FlattenSeq(Each(S, parts))
    BY <1>4, <1>5, Joined
<1>7. PICK a, b, c, d : /\ a = TextOf[block.title] /\ b = TextOf[block.text]
                        /\ c = TextOf[block.caption] /\ d = Join(NonEmpty(inner), <<"\n">>)
    OBVIOUS
<1>8. parts = <<a, b, c, d>>
    BY <1>3, <1>7 DEF AllParts
<1>9. a \in Seq(Atom) /\ b \in Seq(Atom) /\ c \in Seq(Atom) /\ d \in Seq(Atom)
  <2>1. a = parts[1] /\ b = parts[2] /\ c = parts[3] /\ d = parts[4]
        /\ 1 \in DOMAIN parts /\ 2 \in DOMAIN parts /\ 3 \in DOMAIN parts /\ 4 \in DOMAIN parts
      BY <1>8
  <2>2. \A i \in DOMAIN parts : parts[i] \in Seq(Atom)
      BY <1>4
  <2> QED BY <2>1, <2>2
<1>10. FlattenSeq(Each(S, parts)) = Only(S, a) \o Only(S, b) \o Only(S, c) \o Only(S, d)
  <2>1. Four(Atom, parts, a, b, c, d)
      BY <1>8, <1>9 DEF Four
  <2> QED BY <2>1, EachFour
<1>11. Only(S, d) = FlattenSeq(Each(S, inner))
    BY <1>2, <1>7, Joined
<1> QED BY <1>1, <1>2, <1>6, <1>7, <1>10, <1>11

-----------------------------------------------------------------------------
(* A message keeps its words.                                              *)

(* The texts and the words of a sequence of blocks.                        *)
LEMMA MappedBlocks ==
    ASSUME NEW s \in Seq(Blocks)
    PROVE  /\ Mapped(BlockText, s) \in Seq(Seq(Atom))
           /\ Mapped(WordsOf, s) \in Seq(Seq(Alnum))
           /\ DOMAIN Mapped(BlockText, s) = DOMAIN s
           /\ DOMAIN Mapped(WordsOf, s) = DOMAIN s
           /\ \A i \in DOMAIN s : /\ Mapped(BlockText, s)[i] = BlockText[s[i]]
                                  /\ Mapped(WordsOf, s)[i] = WordsOf[s[i]]
                                  /\ s[i] \in Blocks
<1>1. PICK B, C : B = Seq(Atom) /\ C = Seq(Alnum)
    OBVIOUS
<1>2. BlockText \in [Blocks -> B] /\ WordsOf \in [Tree -> C]
    BY <1>1, BlockTextOf, WordsOfTree
<1>3. s \in Seq(Tree)
    BY TreeFormed
<1>4. Mapped(BlockText, s) \in Seq(B) /\ DOMAIN Mapped(BlockText, s) = DOMAIN s
    BY <1>2, MapType
<1>5. Mapped(WordsOf, s) \in Seq(C) /\ DOMAIN Mapped(WordsOf, s) = DOMAIN s
    BY <1>2, <1>3, MapType
<1>6. \A i \in DOMAIN s : s[i] \in Blocks
    OBVIOUS
<1>7. \A i \in DOMAIN s : Mapped(BlockText, s)[i] = BlockText[s[i]] /\ Mapped(WordsOf, s)[i] = WordsOf[s[i]]
    BY DEF Mapped
<1> QED BY <1>1, <1>4, <1>5, <1>6, <1>7

(* The text of a block has the block's words, in order.                    *)
Keeps(block) == Only(Word, BlockText[block]) = Only(Word, WordsOf[block])

(* Blocks that keep their words keep them one after the other.             *)
LEMMA KeepsAll ==
    ASSUME NEW s \in Seq(Blocks), \A i \in DOMAIN s : Keeps(s[i])
    PROVE  FlattenSeq(Each(Word, Mapped(BlockText, s)))
             = Only(Word, FlattenSeq(Mapped(WordsOf, s)))
<1>1. PICK t, w : t = Mapped(BlockText, s) /\ w = Mapped(WordsOf, s)
    OBVIOUS
<1>2. /\ t \in Seq(Seq(Atom)) /\ w \in Seq(Seq(Alnum))
      /\ DOMAIN t = DOMAIN s /\ DOMAIN w = DOMAIN s
      /\ \A i \in DOMAIN s : t[i] = BlockText[s[i]] /\ w[i] = WordsOf[s[i]]
    BY <1>1, MappedBlocks
<1>3. \A i \in DOMAIN s : Only(Word, t[i]) = Only(Word, w[i])
    BY <1>2 DEF Keeps
<1>4. Each(Word, t) = Each(Word, w)
    BY <1>2, <1>3 DEF Each
<1>5. Only(Word, FlattenSeq(w)) = FlattenSeq(Each(Word, w))
    BY <1>2, OnlyFlatten
<1> QED BY <1>1, <1>4, <1>5

(* A text node keeps its words.                                            *)
LEMMA NodeKeeps ==
    ASSUME NEW node \in Nodes
    PROVE  Only(Word, TextOf[node]) = Only(Word, WordsOf[node])
<1>1. Word \subseteq Alnum
    BY DEF Alnum
<1>2. PICK t : t = TextOf[node]
    OBVIOUS
<1>3. t \in Seq(Atom)
    BY <1>2, TextOfNode
<1>4. Only(Word, Only(Alnum, t)) = Only(Word, t)
    BY <1>1, <1>3, OnlyTwice
<1> QED BY <1>2, <1>4, NodeWords

(* A block keeps its words, in order.                                      *)
LEMMA BlockKeeps == \A block \in Blocks : Keeps(block)
<1> DEFINE T == {block \in Blocks : Keeps(block)}
<1>1. Word \subseteq Alnum
    BY DEF Alnum
<1>2. ASSUME NEW block \in Blocks, \A y \in Blocks : Depth[y] < Depth[block] => y \in T
      PROVE  block \in T
  <2>1. WordsOf[block] = Shown(WordsOf, block) /\ BlockText[block] = OneBlock(BlockText, block)
      BY WordsOfTree, BlockTextOf, TreeFormed
  <2>2. CASE block.is = "divider"
    <3>1. PICK s : s = <<"---">>
        OBVIOUS
    <3>2. s \in Seq(Sign)
        BY <3>1, Marks
    <3>3. Only(Word, s) = <<>>
        BY <1>1, <3>2, Marked
    <3>4. BlockText[block] = s
        BY <2>1, <2>2, <3>1, OneBlockIs
    <3>5. WordsOf[block] = <<>>
        BY <2>1, <2>2 DEF Shown
    <3> QED BY <3>3, <3>4, <3>5, OnlyEmpty DEF Keeps
  <2>3. CASE block.is = "list"
    <3>1. PICK s : s = block.items
        OBVIOUS
    <3>2. /\ s \in Seq(Blocks) /\ block.ordered \in BOOLEAN
          /\ block.ordered => Len(s) <= Len(Numeral)
          /\ \A i \in DOMAIN s : s[i] \in Blocks /\ Keeps(s[i])
        BY <1>2, <2>3, <3>1, BlockFormed
    <3>3. \A i \in DOMAIN s : BlockText[s[i]] \in Seq(Atom)
        BY <3>2, BlockTextOf
    <3>4. PICK p : p = ItemTexts(BlockText, block)
        OBVIOUS
    <3>5. p \in Seq(Seq(Atom)) /\ DOMAIN p = DOMAIN s
        BY <2>3, <3>1, <3>3, <3>4, ItemTextsType
    <3>6. Only(Word, BlockText[block]) = FlattenSeq(Each(Word, p))
        BY <1>1, <2>1, <2>3, <3>4, <3>5, OneBlockIs, Joined
    <3>7. PICK t : t = Mapped(BlockText, s)
        OBVIOUS
    <3>8. DOMAIN t = DOMAIN s /\ \A i \in DOMAIN s : t[i] = BlockText[s[i]]
        BY <3>2, <3>7, MappedBlocks
    <3>9. ASSUME NEW i \in DOMAIN s PROVE Only(Word, p[i]) = Only(Word, t[i])
      <4>1. PICK body, text : text = BlockText[s[i]] /\ body = Strip(text)
          OBVIOUS
      <4>2. text \in Seq(Atom)
          BY <3>3, <4>1
      <4>3. Word \cap Blank = {}
          BY RichAssumption DEF Alnum, Sign
      <4>4. body \in Seq(Atom) /\ Only(Word, body) = Only(Word, text)
          BY <4>1, <4>2, <4>3, OnlyStrip
      <4>5. block.ordered => i \in 1 .. Len(Numeral)
        <5>1. DOMAIN s = 1 .. Len(s) /\ Len(s) \in Nat /\ Len(Numeral) \in Nat
            BY <3>2, RichAssumption, LenProperties
        <5> QED BY <3>2, <5>1
      <4>6. Only(Word, Item(block.ordered, i, body)) = Only(Word, body)
          BY <3>2, <4>4, <4>5, ItemShows
      <4>7. p[i] = Item(block.ordered, i, body)
          BY <3>1, <3>4, <4>1 DEF ItemTexts
      <4> QED BY <3>8, <4>1, <4>4, <4>6, <4>7
    <3>10. Each(Word, p) = Each(Word, t)
        BY <3>5, <3>8, <3>9 DEF Each
    <3>11. FlattenSeq(Each(Word, t)) = Only(Word, FlattenSeq(Mapped(WordsOf, s)))
        BY <3>2, <3>7, KeepsAll
    <3>12. WordsOf[block] = FlattenSeq(Mapped(WordsOf, s))
        BY <2>1, <2>3, <3>1 DEF Shown
    <3> QED BY <3>6, <3>10, <3>11, <3>12 DEF Keeps
  <2>4. CASE block.is = "table"
    <3>1. PICK t : t = BlockText[block]
        OBVIOUS
    <3>2. t \in Seq(Atom)
        BY <3>1, BlockTextOf
    <3>3. Only(Word, Only(Alnum, t)) = Only(Word, t)
        BY <1>1, <3>2, OnlyTwice
    <3> QED BY <2>4, <3>1, <3>3, TableWords DEF Keeps
  <2>5. CASE block.is = "block"
    <3>1. PICK s : s = block.blocks
        OBVIOUS
    <3>2. /\ s \in Seq(Blocks) /\ \A i \in DOMAIN s : Keeps(s[i])
        BY <1>2, <2>5, <3>1, BlockFormed
    <3>3. Only(Word, BlockText[block])
            = Only(Word, TextOf[block.title]) \o Only(Word, TextOf[block.text])
                \o Only(Word, TextOf[block.caption])
                \o FlattenSeq(Each(Word, Mapped(BlockText, s)))
        BY <1>1, <2>5, <3>1, PartsWords
    <3>4. FlattenSeq(Each(Word, Mapped(BlockText, s))) = Only(Word, FlattenSeq(Mapped(WordsOf, s)))
        BY <3>2, KeepsAll
    <3>5. /\ Only(Word, TextOf[block.title]) = Only(Word, WordsOf[block.title])
          /\ Only(Word, TextOf[block.text]) = Only(Word, WordsOf[block.text])
          /\ Only(Word, TextOf[block.caption]) = Only(Word, WordsOf[block.caption])
        BY <2>5, BlockFormed, NodeKeeps
    <3>6. PICK a, b, c, d : /\ a = WordsOf[block.title] /\ b = WordsOf[block.text]
                            /\ c = WordsOf[block.caption] /\ d = FlattenSeq(Mapped(WordsOf, s))
        OBVIOUS
    <3>7. a \in Seq(Alnum) /\ b \in Seq(Alnum) /\ c \in Seq(Alnum) /\ d \in Seq(Alnum)
      <4>1. block.title \in Tree /\ block.text \in Tree /\ block.caption \in Tree
          BY <2>5, BlockFormed, TreeFormed
      <4>2. a \in Seq(Alnum) /\ b \in Seq(Alnum) /\ c \in Seq(Alnum)
          BY <3>6, <4>1, WordsOfTree
      <4>3. d \in Seq(Alnum)
          BY <3>2, <3>6, MappedBlocks, FlattenType
      <4> QED BY <4>2, <4>3
    <3>8. WordsOf[block] = a \o b \o c \o d
        BY <2>1, <2>5, <3>1, <3>6 DEF Shown
    <3>9. Only(Word, WordsOf[block])
            = Only(Word, a) \o Only(Word, b) \o Only(Word, c) \o Only(Word, d)
      <4>1. PICK p : Four(Alnum, p, a, b, c, d)
          BY <3>7 DEF Four
      <4>2. FlattenSeq(p) = a \o b \o c \o d
          BY <4>1, FlattenFour
      <4>3. /\ p \in Seq(Seq(Alnum))
            /\ FlattenSeq(Each(Word, p))
                 = Only(Word, a) \o Only(Word, b) \o Only(Word, c) \o Only(Word, d)
          BY <4>1, EachFour
      <4>4. Only(Word, FlattenSeq(p)) = FlattenSeq(Each(Word, p))
          BY <4>3, OnlyFlatten
      <4> QED BY <3>8, <4>2, <4>3, <4>4
    <3> QED BY <3>3, <3>4, <3>5, <3>6, <3>9 DEF Keeps
  <2> QED BY <2>2, <2>3, <2>4, <2>5 DEF Blocks
<1>3. Blocks \subseteq T
  <2> HIDE DEF T
  <2> QED BY <1>2, BlockDepth, Downward
<1> QED BY <1>3

(* The text of a rich message has every word of its blocks, in the order   *)
(* of the document, however the blocks nest (rich_to_text): nothing is     *)
(* lost where an empty part is left out, an item is stripped or parts are  *)
(* joined.                                                                 *)
THEOREM MessageKeepsWords == Spec => []WordsAreKept
<1>1. IInv => WordsAreKept
  <2> SUFFICES ASSUME IInv, Returned("message_text")
               PROVE  Only(Word, output[1].text) = Only(Word, WordsOfAll(input))
      BY DEF WordsAreKept
  <2>1. input \in Seq(Blocks)
      BY InputAssumption DEF IInv, Asked, Returned
  <2>2. output[1].text = RichToText(input)
      BY DEF IInv, Answered, Returned, MessageText
  <2>3. PICK t : t = Mapped(BlockText, input)
      OBVIOUS
  <2>4. t \in Seq(Seq(Atom))
      BY <2>1, <2>3, MappedBlocks
  <2>5. Word \subseteq Alnum
      BY DEF Alnum
  <2>6. Only(Word, RichToText(input)) = FlattenSeq(Each(Word, t))
      BY <2>3, <2>4, <2>5, Joined DEF RichToText
  <2>7. \A i \in DOMAIN input : Keeps(input[i])
      BY <2>1, BlockKeeps
  <2>8. FlattenSeq(Each(Word, t)) = Only(Word, FlattenSeq(Mapped(WordsOf, input)))
      BY <2>1, <2>3, <2>7, KeepsAll
  <2> QED BY <2>2, <2>6, <2>8 DEF WordsOfAll
<1> QED BY <1>1, Inductive, PTL

-----------------------------------------------------------------------------
(* A message that shows a word ends the settle window.                     *)

(* A block's text has a letter or digit when the block shows one or        *)
(* numbers an item.                                                        *)
Settles(block) ==
    Only(Alnum, BlockText[block]) # <<>> <=> WordsOf[block] # <<>> \/ Numbers[block]

(* Each of the texts, filtered, is a text.                                 *)
LEMMA EachType ==
    ASSUME NEW A, NEW S, NEW parts \in Seq(Seq(A))
    PROVE  Each(S, parts) \in Seq(Seq(A)) /\ DOMAIN Each(S, parts) = DOMAIN parts
<1>1. DOMAIN parts = 1 .. Len(parts) /\ Len(parts) \in Nat /\ \A i \in 1 .. Len(parts) : parts[i] \in Seq(A)
    BY LenProperties, ElementOfSeq
<1>2. \A i \in 1 .. Len(parts) : Only(S, parts[i]) \in Seq(A)
    BY <1>1, OnlyType
<1>3. Each(S, parts) \in [1 .. Len(parts) -> Seq(A)]
    BY <1>1, <1>2 DEF Each
<1> QED BY <1>1, <1>3, FunctionSeq

(* Four texts together have an atom when one of them has.                  *)
LEMMA FourFinds ==
    ASSUME NEW A, NEW a \in Seq(A), NEW b \in Seq(A), NEW c \in Seq(A), NEW d \in Seq(A)
    PROVE  a \o b \o c \o d # <<>> <=> a # <<>> \/ b # <<>> \/ c # <<>> \/ d # <<>>
<1>1. PICK x, y : x = a \o b /\ y = x \o c
    OBVIOUS
<1>2. x \in Seq(A) /\ (x = <<>> <=> a = <<>> /\ b = <<>>)
    BY <1>1, ConcatNonEmpty
<1>3. y \in Seq(A) /\ (y = <<>> <=> x = <<>> /\ c = <<>>)
    BY <1>1, <1>2, ConcatNonEmpty
<1>4. y \o d = <<>> <=> y = <<>> /\ d = <<>>
    BY <1>3, ConcatNonEmpty
<1> QED BY <1>1, <1>2, <1>3, <1>4

(* Of blocks that settle, one shows something when one has a word or a     *)
(* numbered item.                                                          *)
LEMMA SettlesAll ==
    ASSUME NEW s \in Seq(Blocks), \A i \in DOMAIN s : Settles(s[i])
    PROVE  FlattenSeq(Each(Alnum, Mapped(BlockText, s))) # <<>>
             <=> \/ FlattenSeq(Mapped(WordsOf, s)) # <<>>
                 \/ \E i \in DOMAIN s : Numbers[s[i]]
<1>1. PICK t, w, e : t = Mapped(BlockText, s) /\ w = Mapped(WordsOf, s) /\ e = Each(Alnum, t)
    OBVIOUS
<1>2. /\ t \in Seq(Seq(Atom)) /\ w \in Seq(Seq(Alnum))
      /\ DOMAIN t = DOMAIN s /\ DOMAIN w = DOMAIN s
      /\ \A i \in DOMAIN s : t[i] = BlockText[s[i]] /\ w[i] = WordsOf[s[i]]
    BY <1>1, MappedBlocks
<1>3. e \in Seq(Seq(Atom))
    BY <1>1, <1>2, EachType
<1>4. DOMAIN e = DOMAIN s /\ \A i \in DOMAIN s : e[i] = Only(Alnum, BlockText[s[i]])
    BY <1>1, <1>2 DEF Each
<1>5. FlattenSeq(e) # <<>> <=> \E i \in DOMAIN e : e[i] # <<>>
    BY <1>3, FlattenFinds
<1>6. FlattenSeq(w) # <<>> <=> \E i \in DOMAIN w : w[i] # <<>>
    BY <1>2, FlattenFinds
<1>7. \A i \in DOMAIN s : e[i] # <<>> <=> w[i] # <<>> \/ Numbers[s[i]]
    BY <1>2, <1>4 DEF Settles
<1>8. FlattenSeq(e) # <<>> <=> FlattenSeq(w) # <<>> \/ \E i \in DOMAIN s : Numbers[s[i]]
    BY <1>2, <1>4, <1>5, <1>6, <1>7
<1> QED BY <1>1, <1>8

(* A list has no text when each of its items has none.                     *)
LEMMA NoItem ==
    ASSUME NEW p \in Seq(Seq(Atom)), \A i \in DOMAIN p : p[i] = <<>>
    PROVE  Join(NonEmpty(p), <<"\n">>) = <<>>
<1>1. PICK line : line = <<"\n">>
    OBVIOUS
<1>2. line \in Seq(Atom)
  <2>1. line \in Seq(Sign)
      BY <1>1, Marks
  <2> QED BY <2>1, Marked
<1>3. NonEmpty(p) = <<>>
  <2>1. PICK q : q = [i \in DOMAIN p |-> IF p[i] # <<>> THEN <<p[i]>> ELSE <<>>]
      OBVIOUS
  <2>2. DOMAIN q = DOMAIN p /\ \A i \in DOMAIN q : q[i] = <<>>
      BY <2>1
  <2>3. q \in Seq(Seq(Atom))
    <3>1. DOMAIN p = 1 .. Len(p) /\ Len(p) \in Nat
        BY LenProperties
    <3>2. q \in [1 .. Len(p) -> Seq(Atom)]
        BY <2>1, <2>2, <3>1, EmptySeq
    <3> QED BY <3>1, <3>2, FunctionSeq
  <2>4. FlattenSeq(q) = <<>>
      BY <2>2, <2>3, FlattenFinds
  <2> QED BY <2>1, <2>4 DEF NonEmpty
<1>4. Join(<<>>, line) = <<>>
    BY <1>2, JoinType
<1> QED BY <1>1, <1>3, <1>4

(* What a text node has of words and numbers are the words it shows.       *)
LEMMA NodeShows ==
    ASSUME NEW node \in Nodes
    PROVE  Only(Alnum, TextOf[node]) = WordsOf[node] /\ WordsOf[node] \in Seq(Alnum)
<1>1. node \in Tree
    BY TreeFormed
<1> QED BY <1>1, NodeWords, WordsOfTree

(* Every block shows a letter or digit when it has a word, or a list in it *)
(* numbers an item: by induction over depth, one step per kind of block.   *)
LEMMA BlockSettles == \A block \in Blocks : Settles(block)
<1> DEFINE T == {block \in Blocks : Settles(block)}
<1>1. ASSUME NEW block \in Blocks, \A y \in Blocks : Depth[y] < Depth[block] => y \in T
      PROVE  block \in T
  <2>1. /\ WordsOf[block] = Shown(WordsOf, block) /\ BlockText[block] = OneBlock(BlockText, block)
        /\ Numbers[block] = Counted(Numbers, block)
      BY WordsOfTree, BlockTextOf, NumbersOf, TreeFormed
  <2>2. CASE block.is = "divider"
    <3>1. PICK s : s = <<"---">>
        OBVIOUS
    <3>2. s \in Seq(Sign)
        BY <3>1, Marks
    <3>3. Only(Alnum, s) = <<>>
        BY <3>2, Marked
    <3>4. BlockText[block] = s
        BY <2>1, <2>2, <3>1, OneBlockIs
    <3>5. WordsOf[block] = <<>>
        BY <2>1, <2>2 DEF Shown
    <3>6. ~Numbers[block]
        BY <2>1, <2>2 DEF Counted
    <3> QED BY <3>3, <3>4, <3>5, <3>6 DEF Settles
  <2>3. CASE block.is = "list"
    <3>1. PICK s : s = block.items
        OBVIOUS
    <3>2. /\ s \in Seq(Blocks) /\ block.ordered \in BOOLEAN
          /\ block.ordered => Len(s) <= Len(Numeral)
          /\ \A i \in DOMAIN s : s[i] \in Blocks /\ Settles(s[i])
        BY <1>1, <2>3, <3>1, BlockFormed
    <3>3. \A i \in DOMAIN s : BlockText[s[i]] \in Seq(Atom)
        BY <3>2, BlockTextOf
    <3>4. PICK p : p = ItemTexts(BlockText, block)
        OBVIOUS
    <3>5. p \in Seq(Seq(Atom)) /\ DOMAIN p = DOMAIN s
        BY <2>3, <3>1, <3>3, <3>4, ItemTextsType
    <3>6. BlockText[block] = Join(NonEmpty(p), <<"\n">>)
        BY <2>1, <2>3, <3>4, OneBlockIs
    <3>7. PICK e : e = Each(Alnum, p)
        OBVIOUS
    <3>8. /\ e \in Seq(Seq(Atom)) /\ DOMAIN e = DOMAIN s
          /\ \A i \in DOMAIN s : e[i] = Only(Alnum, p[i])
        BY <3>5, <3>7, EachType DEF Each
    <3>9. Only(Alnum, BlockText[block]) = FlattenSeq(e)
        BY <3>5, <3>6, <3>7, Joined
    <3>10. FlattenSeq(e) # <<>> <=> \E i \in DOMAIN s : e[i] # <<>>
        BY <3>8, FlattenFinds
    <3>11. PICK w : w = Mapped(WordsOf, s)
        OBVIOUS
    <3>12. /\ w \in Seq(Seq(Alnum)) /\ DOMAIN w = DOMAIN s
           /\ \A i \in DOMAIN s : w[i] = WordsOf[s[i]]
        BY <3>2, <3>11, MappedBlocks
    <3>13. FlattenSeq(w) # <<>> <=> \E i \in DOMAIN s : w[i] # <<>>
        BY <3>12, FlattenFinds
    <3>14. WordsOf[block] = FlattenSeq(w)
        BY <2>1, <2>3, <3>1, <3>11 DEF Shown
    <3>15. Numbers[block] <=> \/ block.ordered /\ BlockText[block] # <<>>
                              \/ \E i \in DOMAIN s : Numbers[s[i]]
        BY <2>1, <2>3, <3>1 DEF Counted
    <3>16. ASSUME NEW i \in DOMAIN s
           PROVE  /\ e[i] # <<>> <=> \/ w[i] # <<>> \/ Numbers[s[i]]
                                     \/ block.ordered /\ p[i] # <<>>
                  /\ e[i] # <<>> => p[i] # <<>>
      <4>1. PICK body, text : text = BlockText[s[i]] /\ body = Strip(text)
          OBVIOUS
      <4>2. text \in Seq(Atom)
          BY <3>3, <4>1
      <4>3. Alnum \cap Blank = {}
          BY RichAssumption DEF Sign
      <4>4. body \in Seq(Atom) /\ Only(Alnum, body) = Only(Alnum, text)
          BY <4>1, <4>2, <4>3, OnlyStrip
      <4>5. block.ordered => i \in 1 .. Len(Numeral)
        <5>1. DOMAIN s = 1 .. Len(s) /\ Len(s) \in Nat /\ Len(Numeral) \in Nat
            BY <3>2, RichAssumption, LenProperties
        <5> QED BY <3>2, <5>1
      <4>6. Only(Alnum, Item(block.ordered, i, body)) # <<>>
              <=> Only(Alnum, body) # <<>> \/ (block.ordered /\ body # <<>>)
        <5>1. PICK o : o = block.ordered
            OBVIOUS
        <5>2. o \in BOOLEAN /\ (o => i \in 1 .. Len(Numeral)) /\ body \in Seq(Atom)
            BY <3>2, <4>4, <4>5, <5>1
        <5>3. /\ Item(o, i, body) \in Seq(Atom)
              /\ Only(Word, Item(o, i, body)) = Only(Word, body)
              /\ Only(Alnum, Item(o, i, body)) # <<>>
                   <=> Only(Alnum, body) # <<>> \/ (o /\ body # <<>>)
            BY <5>2, ItemShows
        <5> QED BY <5>1, <5>3
      <4>7. p[i] = Item(block.ordered, i, body)
          BY <3>1, <3>4, <4>1 DEF ItemTexts
      <4>8. Only(Alnum, text) # <<>> <=> w[i] # <<>> \/ Numbers[s[i]]
          BY <3>2, <3>12, <4>1 DEF Settles
      <4>9. e[i] # <<>> => p[i] # <<>>
          BY <3>8, OnlyEmpty
      <4>10. p[i] # <<>> => body # <<>>
          BY <4>7 DEF Item
      <4>11. e[i] # <<>> <=> Only(Alnum, text) # <<>> \/ (block.ordered /\ body # <<>>)
          BY <3>8, <4>4, <4>6, <4>7
      <4>12. block.ordered /\ body # <<>> => p[i] # <<>>
          BY <4>9, <4>11
      <4> QED BY <4>8, <4>9, <4>10, <4>11, <4>12
    <3>17. BlockText[block] # <<>> => \E i \in DOMAIN s : p[i] # <<>>
        BY <3>5, <3>6, NoItem
    <3>18. FlattenSeq(e) # <<>> => BlockText[block] # <<>>
        BY <3>9, OnlyEmpty
    <3> QED BY <3>9, <3>10, <3>13, <3>14, <3>15, <3>16, <3>17, <3>18 DEF Settles
  <2>4. CASE block.is = "table"
    <3>1. ~Numbers[block]
        BY <2>1, <2>4 DEF Counted
    <3> QED BY <2>4, <3>1, TableWords DEF Settles
  <2>5. CASE block.is = "block"
    <3>1. PICK s : s = block.blocks
        OBVIOUS
    <3>2. /\ s \in Seq(Blocks) /\ \A i \in DOMAIN s : Settles(s[i])
        BY <1>1, <2>5, <3>1, BlockFormed
    <3>3. PICK a, b, c, d, e :
            /\ a = WordsOf[block.title] /\ b = WordsOf[block.text] /\ c = WordsOf[block.caption]
            /\ d = FlattenSeq(Mapped(WordsOf, s))
            /\ e = FlattenSeq(Each(Alnum, Mapped(BlockText, s)))
        OBVIOUS
    <3>4. block.title \in Nodes /\ block.text \in Nodes /\ block.caption \in Nodes
        BY <2>5, BlockFormed
    <3>5. /\ Only(Alnum, TextOf[block.title]) = a /\ a \in Seq(Alnum)
          /\ Only(Alnum, TextOf[block.text]) = b /\ b \in Seq(Alnum)
          /\ Only(Alnum, TextOf[block.caption]) = c /\ c \in Seq(Alnum)
        BY <3>3, <3>4, NodeShows
    <3>6. Only(Alnum, BlockText[block]) = a \o b \o c \o e
        BY <2>5, <3>1, <3>3, <3>5, PartsWords
    <3>7. WordsOf[block] = a \o b \o c \o d
        BY <2>1, <2>5, <3>1, <3>3 DEF Shown
    <3>8. d \in Seq(Alnum)
        BY <3>2, <3>3, MappedBlocks, FlattenType
    <3>9. e \in Seq(Atom)
        BY <3>2, <3>3, MappedBlocks, EachType, FlattenType
    <3>10. a \in Seq(Atom) /\ b \in Seq(Atom) /\ c \in Seq(Atom) /\ d \in Seq(Atom)
      <4>1. Alnum \subseteq Atom
          BY DEF Atom
      <4> QED BY <3>5, <3>8, <4>1
    <3>11. /\ a \o b \o c \o d # <<>> <=> a # <<>> \/ b # <<>> \/ c # <<>> \/ d # <<>>
           /\ a \o b \o c \o e # <<>> <=> a # <<>> \/ b # <<>> \/ c # <<>> \/ e # <<>>
        BY <3>9, <3>10, FourFinds
    <3>12. e # <<>> <=> d # <<>> \/ \E i \in DOMAIN s : Numbers[s[i]]
        BY <3>2, <3>3, SettlesAll
    <3>13. Numbers[block] <=> \E i \in DOMAIN s : Numbers[s[i]]
        BY <2>1, <2>5, <3>1 DEF Counted
    <3> QED BY <3>6, <3>7, <3>11, <3>12, <3>13 DEF Settles
  <2> QED BY <2>2, <2>3, <2>4, <2>5 DEF Blocks
<1>2. Blocks \subseteq T
  <2> HIDE DEF T
  <2> QED BY <1>1, BlockDepth, Downward
<1> QED BY <1>2

(* A rich message settles a window when one of its blocks shows a letter   *)
(* or digit, or numbers an item that shows something, and a message of     *)
(* emoji alone never does (_has_content on what rich_to_text returns).     *)
THEOREM WordsEndTheWindow == Spec => []WordsSettle
<1>1. IInv => WordsSettle
  <2> SUFFICES ASSUME IInv, Returned("message_text")
               PROVE  output[1].settles <=> \/ WordsOfAll(input) # <<>>
                                            \/ \E i \in DOMAIN input : Numbers[input[i]]
      BY DEF WordsSettle
  <2>1. input \in Seq(Blocks)
      BY InputAssumption DEF IInv, Asked, Returned
  <2>2. output[1].settles = HasContent(RichToText(input))
      BY DEF IInv, Answered, Returned, MessageText
  <2>3. PICK t, text : t = Mapped(BlockText, input) /\ text = RichToText(input)
      OBVIOUS
  <2>4. t \in Seq(Seq(Atom))
      BY <2>1, <2>3, MappedBlocks
  <2>5. Only(Alnum, text) = FlattenSeq(Each(Alnum, t))
      BY <2>3, <2>4, Joined DEF RichToText
  <2>6. text \in Seq(Atom)
    <3>1. PICK line : line = <<"\n">>
        OBVIOUS
    <3>2. line \in Seq(Sign)
        BY <3>1, Marks
    <3>3. line \in Seq(Atom) /\ NonEmpty(t) \in Seq(Seq(Atom))
        BY <2>4, <3>2, Marked, NonEmptyType
    <3>4. Join(NonEmpty(t), line) \in Seq(Atom)
        BY <3>3, JoinType
    <3> QED BY <2>3, <3>1, <3>4 DEF RichToText
  <2>7. HasContent(text) <=> Only(Alnum, text) # <<>>
      BY <2>6, OnlyFinds DEF HasContent
  <2>8. \A i \in DOMAIN input : Settles(input[i])
      BY <2>1, BlockSettles
  <2>9. FlattenSeq(Each(Alnum, t)) # <<>>
          <=> \/ FlattenSeq(Mapped(WordsOf, input)) # <<>>
              \/ \E i \in DOMAIN input : Numbers[input[i]]
      BY <2>1, <2>3, <2>8, SettlesAll
  <2> QED BY <2>2, <2>3, <2>5, <2>7, <2>9 DEF WordsOfAll
<1> QED BY <1>1, Inductive, PTL
=============================================================================
