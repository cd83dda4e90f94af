----------------------------- MODULE MCHandlers -----------------------------
(* Small instances of Handlers for TLC. *)
EXTENDS Handlers, TLC

\* A location of one component, one of two, one whose path another extends;
\* a proxy on either port, and one whose port is not known.
Proxy(port) == [type |-> "ProxyHandler", host |-> "h1", port |-> port]
FilesAt(root) == [type |-> "FileHandler", root |-> <<root>>]
SomeLocations ==
  Root :> [type |-> "404Handler"]
    @@ <<"/", "s">> :> FilesAt("R")
    @@ <<"/", "s", "/", "t">> :> FilesAt("T")
    @@ <<"/", "p">> :> Proxy("80") @@ <<"/", "q">> :> Proxy("8080")
    @@ <<"/", "p", "/", "a">> :> Proxy("443")
    @@ <<"/", "e">> :> [type |-> "EchoHandler"] @@ <<"/", "h">> :> [type |-> "HealthHandler"]
    @@ <<"/", "z">> :> [type |-> "SleepHandler"]

SomeTargets == {
  Root, <<"/", "x">>, <<"/", "e">>, <<"/", "h">>, <<"/", "z">>, <<"/", "/">>,
  <<"/", "s">>, <<"/", "s", "/">>, <<"/", "s", "/", "f", ".html">>,
  <<"/", "s", "/", "f", ".other">>, <<"/", "s", "x", "/", "f", ".html">>,
  <<"/", "s", "/", "t", "/", "f", ".html">>, <<"/", "s", "/", "d", ".txt", "/", "f", ".html">>,
  <<"/", "p">>, <<"/", "p", "/">>, <<"/", "p", "/", "d">>, <<"/", "p", "/", "d", "/">>,
  <<"/", "p", "/", "a">>, <<"/", "p", "x">>, <<"/", "q">>}

SomeFiles == {<<"R", "/", "f", ".html">>, <<"R", "/", "f", ".other">>, <<"T", "/", "t", "/", "f", ".html">>}

SomeUrls ==
  [protocol : {"http", "https"}, host : {"h1", "h2"}, path : {<<>>, <<"/", "d">>, <<"/", "d", "/">>}]
    \cup [protocol : {"none", "ftp"}, host : {"h1"}, path : {<<"/", "d">>}]
=============================================================================
