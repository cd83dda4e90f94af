------------------------------ MODULE Handlers ------------------------------
(***************************************************************************)
(* Any request to any handler that the dispatcher may choose for it.       *)
(***************************************************************************)
EXTENDS FileHandler, ProxyHandler

vars == <<callVars, fileVars, proxyVars>>

Init == CallInit /\ FileInit /\ ProxyInit

Next ==
  \/ Answer /\ UNCHANGED <<fileVars, proxyVars>>
  \/ (HandleFile \/ FilesChange) /\ UNCHANGED proxyVars
  \/ HandleProxy /\ UNCHANGED fileVars

Spec == Init /\ [][Next]_vars

-----------------------------------------------------------------------------
(* Properties.                                                             *)

IsCallOf(type) == Handler.type = type
Answered(type) == IsCallOf(type) /\ at = "returned"

TypeOK ==
  /\ call.target \in Targets /\ call.method \in Methods /\ call.prefix \in DOMAIN Locations
  /\ at \in {"called", "asleep", "opened", "reading", "issue", "returned", "threw", "overflow"}
  /\ response.status \in {200, 301, 404}
  /\ response.type \in {<<>>} \cup {<<t>> : t \in
       {"", "text/html", "text/plain", "image/jpeg", "application/zip", "unsupported"}}
  /\ response.body \in {"empty", "404 Not Found", "payload", "page", "redirect", "OK",
       "the request", "the request and more", "I slept for 5 seconds!"}
  /\ files \in [FilePaths -> Contents \cup {"directory", "nothing"}]
  /\ opened \in Contents \cup {"directory", "nothing", "none"} /\ linked \in BOOLEAN
  /\ payload \in Seq(Contents) /\ Len(payload) <= Pieces
  /\ seen \subseteq Contents \cup {"directory", "nothing"}
  /\ \A r \in DOMAIN web : web[r] \in Answers
  /\ DOMAIN hop = {"host", "port", "target"} /\ depth \in 0 .. Stack

\* A response to a GET tells something that was so while the request was being
\* handled: nothing was there if it is 404, the empty body of a file that was
\* there stands for one that went away, and each piece of any other body was part
\* of the file at some time.  (They need not be of one time: a file can be
\* rewritten between two pieces.)
AnswerWasTrue ==
  Answered("FileHandler") /\ call.method = "GET" /\ HasFile(call.target) =>
    CASE response.status = 404 -> "nothing" \in seen
      [] response.body = "empty" -> "nothing" \in seen /\ seen # {"nothing"}
      [] OTHER -> payload # <<>> /\ \A k \in DOMAIN payload : payload[k] \in seen

\* Below a location of one component, a target names the file that has the rest
\* of it for a path below the root; and if a known extension is the only one in
\* the target, the type is that of this extension.  (The prefix is not consulted:
\* below a location of two components, the second becomes part of the path.)
TargetIsMapped ==
  LET n == Len(call.prefix)
      rest == SubSeq(call.target, n + 1, Len(call.target))
      extensions == {call.target[i] : i \in 1 .. Len(call.target)} \cap Extensions
  IN  /\ IsCallOf("FileHandler") /\ (\A i \in 2 .. n : call.prefix[i] # "/")
           /\ Len(rest) > 1 /\ rest[1] = "/" =>
             HasFile(call.target) /\ PathOfCall = Handler.root \o rest
      /\ Answered("FileHandler") /\ response.status = 200 /\ call.method = "GET" =>
           \A k \in 1 .. 4 : extensions = {KnownTypes[k][1]} => response.type = <<KnownTypes[k][2]>>

\* No handler throws but the file handler, on a directory: in particular the
\* prefix a ProxyHandler cuts off is never longer than the target, because the
\* dispatcher has found it there.
ThrowsOnDirectoriesOnly ==
  at = "threw" => IsCallOf("FileHandler") /\ "directory" \in seen

\* The request that a proxy makes first is for what follows the location's
\* prefix, and always for something.
OutgoingTargetIsRest ==
  at = "issue" /\ web = <<>> =>
    /\ hop.target # <<>>
    /\ call.target \in {call.prefix, call.prefix \o hop.target}

\* A client is never sent to another place that the proxy could have gone to.
NoFollowableRedirect ==
  Answered("ProxyHandler") /\ response.status = 301 =>
    web[hop].location.protocol \notin Protocols

\* What the client gets is the answer to the last request of the chain, but
\* for the parameters of its type, or the empty response if that has failed:
\* never a redirection that was followed.
ResponseIsLastAnswer ==
  Answered("ProxyHandler") /\ response # Default =>
    /\ hop \in DOMAIN web
    /\ response.status = web[hop].status
    /\ response.type \in {<<>>, <<"text/html">>}
    /\ (response.type = <<>>) = (web[hop].type = <<>>)

\* file_handler.cc:57, "Failed to open the file", and FileHandlerTest's
\* Nonexistent_File and Unspecified_File: a path where there is no file to be
\* read is answered with 404.
EveryRequestIsAnswered == at # "threw"
=============================================================================
