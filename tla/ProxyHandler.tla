---------------------------- MODULE ProxyHandler ----------------------------
(***************************************************************************)
(* proxy_handler.cc: the request goes on to another host, and redirections *)
(* are followed until something else comes back.                           *)
(*                                                                         *)
(* The web answers each request in one way, which is found out when it is  *)
(* asked for the first time; any exchange may fail.  A URL has a protocol  *)
(* ("none" for a relative one, or a missing Location), host and path.      *)
(***************************************************************************)
EXTENDS RequestHandler, FiniteSets

CONSTANTS
  Urls,        \* what a Location field may hold
  Redirections,\* how many requests the web redirects at most
  Stack        \* how deep issue_outside_request can call itself

ASSUME ProxyAssumption == {Redirections, Stack} \subseteq Nat

VARIABLES
  web,         \* how the web has answered: request -> answer
  hop,         \* the request to be issued: host, port and target
  depth        \* how often issue_outside_request has called itself

proxyVars == <<web, hop, depth>>

NoHop == [host |-> "", port |-> "", target |-> <<>>]
Protocols == {"http", "https"}

\* parse_url: trailing slashes are removed, and an empty path is "/".
UrlPath(url) == IF url.path = <<>> THEN Root ELSE Strip(url.path)

\* Seeded fault of Followable: only https redirections are followed.
FollowableHttps(url) == url.protocol = "https"
Followable(url) == url.protocol \in Protocols

PortOf(url) == IF url.protocol = "https" THEN "443" ELSE "80"

\* Seeded fault of TargetFor: an empty rest is not replaced.
TargetForAsIs(target, pre) == SubSeq(target, Len(pre) + 1, Len(target))

\* The target that is asked for: what follows the prefix, or "/".
TargetFor(target, pre) ==
  IF Len(target) = Len(pre) THEN Root ELSE SubSeq(target, Len(pre) + 1, Len(target))

\* What the web may answer: a page, whose type has a parameter or has not, an
\* error, or a redirection.
Page(status, type) == [kind |-> "page", status |-> status, type |-> type]
Redirect(url) == [kind |-> "redirect", status |-> 301, type |-> <<>>, location |-> url]
Answers ==
  {Page(200, <<"text/html", "charset">>), Page(200, <<"text/html">>), Page(404, <<>>)}
    \cup {Redirect(url) : url \in Urls}

\* Seeded fault of TypeOnly: the parameters stay.
TypeAsIs(type) == type
\* The content type up to the first ";".
TypeOnly(type) == SubSeq(type, 1, IF type = <<>> THEN 0 ELSE 1)

\* What the client gets of an answer.
Holding(answer) == [status |-> answer.status, type |-> TypeOnly(answer.type), body |-> answer.kind]

ProxyInit == web = <<>> /\ hop = NoHop /\ depth = 0

\* "substr(prefix.length())" throws beyond the end of the target.
ProxyRequest ==
  /\ Step("ProxyHandler", "called")
  /\ IF Len(call.prefix) > Len(call.target) THEN Throw /\ UNCHANGED hop
     ELSE /\ hop' = [host |-> Handler.host, port |-> Handler.port,
                     target |-> TargetFor(call.target, call.prefix)]
          /\ at' = "issue"
          /\ UNCHANGED <<call, response>>
  /\ UNCHANGED <<web, depth>>

\* issue_outside_request knows two ports; for any other there is no request,
\* and the response is as constructed.
OtherPort ==
  /\ Step("ProxyHandler", "issue")
  /\ hop.port \notin {"80", "443"}
  /\ Return(Default)
  /\ UNCHANGED proxyVars

\* Whatever is thrown is caught, and the response is as constructed.
ExchangeFails ==
  /\ Step("ProxyHandler", "issue")
  /\ hop.port \in {"80", "443"}
  /\ Return(Default)
  /\ UNCHANGED proxyVars

\* The web's answer to a request, the same each time.
AnswersTo(request) ==
  IF request \in DOMAIN web THEN {web[request]}
  ELSE LET redirected == {r \in DOMAIN web : web[r].kind = "redirect"}
       IN  {a \in Answers : a.kind = "page" \/ Cardinality(redirected) < Redirections}
Learn(request, answer) ==
  web' = [r \in DOMAIN web \cup {request} |-> IF r = request THEN answer ELSE web[r]]

Followed(answer) ==
  IF answer.kind = "redirect" THEN Followable(answer.location) ELSE FALSE

GetPage ==
  /\ Step("ProxyHandler", "issue") /\ hop.port \in {"80", "443"}
  /\ \E answer \in AnswersTo(hop) :
       /\ ~Followed(answer)
       /\ Learn(hop, answer)
       /\ Return(Holding(answer))
  /\ UNCHANGED <<hop, depth>>

HopTo(url) == [host |-> url.host, port |-> PortOf(url), target |-> UrlPath(url)]

\* issue_outside_request calls itself.
Follow ==
  /\ Step("ProxyHandler", "issue") /\ hop.port \in {"80", "443"}
  /\ depth < Stack
  /\ \E answer \in AnswersTo(hop) :
       /\ Followed(answer)
       /\ Learn(hop, answer)
       /\ hop' = HopTo(answer.location)
  /\ depth' = depth + 1
  /\ UNCHANGED callVars

\* Nothing limits the calls but the stack, and with it the process ends.
Overflow ==
  /\ Step("ProxyHandler", "issue")
  /\ depth = Stack
  /\ at' = "overflow"
  /\ UNCHANGED <<call, response, proxyVars>>

HandleProxy == ProxyRequest \/ OtherPort \/ ExchangeFails \/ GetPage \/ Follow \/ Overflow
=============================================================================
