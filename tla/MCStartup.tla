----------------------------- MODULE MCStartup -----------------------------
(* Small instances of Startup, and of the Dispatcher in it, for TLC. *)
EXTENDS Startup

Location(path, type, block) ==
  [keyword |-> "location", size |-> 3, path |-> path, type |-> type, block |-> block,
   text |-> <<>>]

\* "/a" twice, once with a trailing slash, a path below it, one that extends
\* its last component, the root, ""; a type nobody knows; blocks
\* that are missing or that ProxyHandler refuses; statements that are too short.
Statements == {
  Location(<<"/", "a">>, "EchoHandler", "good"),
  Location(<<"/", "a", "/">>, "FileHandler", "good"),
  Location(<<"/", "a", "b">>, "ProxyHandler", "good"),
  Location(<<"/", "a", "/", "b">>, "StatusHandler", "good"),
  Location(<<"/">>, "FileHandler", "good"),
  Location(<<>>, "EchoHandler", "good"),
  Location(<<"/", "b">>, "NoSuchHandler", "good"),
  Location(<<"/", "a">>, "ProxyHandler", "bad"),
  Location(<<"/", "b">>, "FileHandler", "none"),
  Location(<<"/", "b", "/", "/">>, "EchoHandler", "none"),
  [Location(<<"/", "a">>, "", "good") EXCEPT !.size = 2]}

\* Up to two statements, or three that compete for the same prefixes.
Nested == {s \in Statements : s.block = "good" /\ Len(s.path) > 1 /\ s.path[2] = "a" /\ s.size = 3}
LocationConfigs == UNION {[1 .. n -> Statements] : n \in 0 .. 2} \cup [1 .. 3 -> Nested]

Word(mentions, says) == [mentions |-> mentions, says |-> says]
Number(n) == [kind |-> "number", n |-> n]
File(name) == [kind |-> "path", name |-> name]
Huge == [kind |-> "huge"]
Other == [kind |-> "other"]

Setting(keyword, text) ==
  [keyword |-> keyword, size |-> 2, path |-> <<>>, type |-> "", block |-> "none", text |-> text]
\* "keyword value;"
Says(keyword, value) ==
  Setting(keyword, <<Word(keyword, Nothing), Word("", value)>>)

Key == Says("private_key_root", File("domain.key"))
Certificate == Says("public_key_root", File("domain_certs.pem"))
Keys == <<Key, Certificate>>
Ports == <<Says("listen", Number(80)), Says("ssl-port", Number(443))>>

\* "listen;", "listen80;", "http { server { listen 80; } }", a location whose
\* path has the word in it, and numbers around every bound.
Numbers == {0, 80, 443, 32767, 32768, 65535, 65536, 70000}
Listens ==
  {Says("listen", Number(n)) : n \in Numbers} \cup {Says("listen", Other), Says("listen", Huge),
   Setting("listen", <<Word("listen", Nothing)>>),
   Setting("listen80", <<Word("listen", Number(80))>>),
   Setting("http", <<Word("", Other), Word("", Other), Word("listen", Nothing), Word("", Number(80))>>),
   [Location(<<"/", "a">>, "EchoHandler", "good") EXCEPT !.text =
      <<Word("", Other), Word("listen", Nothing), Word("", Other)>>]}
SslPorts ==
  {<<Says("ssl-port", Number(n))>> : n \in {0, 80, 443, 65535, 65536}}
    \cup {<<>>, <<Says("ssl-port", Other)>>, <<Says("ssl-port", Huge)>>}

PortConfigs ==
  {<<listen>> \o ssl \o Keys : listen \in Listens, ssl \in SslPorts}
    \cup {Keys \o Ports \o <<listen>> : listen \in Listens}
    \cup {Keys, <<Says("listen", Number(80))>>}
KeyConfigs ==
  {Ports \o keys : keys \in {<<Key>>, <<Certificate>>, <<Certificate>> \o Keys,
     <<Says("private_key_root", File("other.key"))>> \o Keys,
     Keys \o <<Says("private_key_root", File("other.key"))>>,
     Keys \o <<Says("private_key_root", File("other.key")),
               Says("public_key_root", File("other_certs.pem"))>>,
     Keys \o <<Says("public_key_root", File("gone.pem"))>>,
     <<Says("public_key_root", File("gone.pem"))>> \o Keys,
     Keys \o <<Setting("private_key_root", <<Word("private_key_root", Nothing)>>)>>}}
SmallConfigs == {Ports \o Keys \o c : c \in LocationConfigs} \cup PortConfigs \cup KeyConfigs

\* "other.key" is the key of "other_certs.pem".
AllThere ==
  [taken |-> {}, certificates |-> {"domain_certs.pem", "other_certs.pem"},
   pairs |-> {<<"domain.key", "domain_certs.pem">>, <<"other.key", "other_certs.pem">>},
   parameters |-> {DHFile}, threads |-> TRUE]
Troubles == {AllThere, [AllThere EXCEPT !.taken = {80}], [AllThere EXCEPT !.taken = {443}],
  [AllThere EXCEPT !.certificates = {}], [AllThere EXCEPT !.pairs = {}],
  [AllThere EXCEPT !.parameters = {}], [AllThere EXCEPT !.threads = FALSE]}
GoodEnvironment(c) == {AllThere}
\* What can go wrong outside does so with the simplest configurations.
SomeEnvironments(c) == IF Len(c) <= 5 THEN Troubles ELSE {AllThere}
SomeShorts == {0, 80, -1}
SomeEphemeral == {49152, 49153}

SmallTargets == {<<"a">>, <<"*">>, <<"/">>, <<"/", "/">>, <<"/", "a">>, <<"/", "a", "/", "/">>,
                 <<"/", "a", "b">>, <<"/", "a", "/", "b">>, <<"/", "b", "/", "a">>}
RootOnly == {<<"/">>}

KnownTypes == {"FileHandler", "EchoHandler", "404Handler", "StatusHandler",
               "ProxyHandler", "SleepHandler", "HealthHandler"}

\* README.md:97-102, the example of the section "Config File Format".
Documented == <<Says("listen", Number(80)), Location(<<"/", "a", "/">>, "FileHandler", "good")>>
DocumentedConfigs == {Documented, Ports \o Keys \o Tail(Documented)}

\* README.md:103-104, "A port that the server can listen on must be specified
\* using the keyword "listen" (...) After the port has been declared, multiple
\* handlers can be initialized": the configuration shown there is enough.
DocumentedConfigIsServed == config = Documented => <>(main = "serving")

\* A server whose "/" is not the 404 handler's, as in "location / FileHandler".
RootConfigs ==
  {Ports \o Keys \o c : c \in
     {<<Location(<<"/">>, "FileHandler", "good")>>,
      <<Location(<<"/", "a">>, "EchoHandler", "good"), Location(<<"/">>, "FileHandler", "good")>>}}

\* README.md:106, "The path after "location" is used to store the handler in a
\* map within the Dispatcher class and will be called on if the path of the
\* handler is the longest matching prefix to a given request"; and
\* dispatcher.cc:29, "however "/" is a valid path".
LocationsAreCalledOn ==
  request.pass = "name" =>
    LET paths == {Strip(config[i].path) : i \in {j \in DOMAIN config :
                    IsLocation(config[j]) /\ config[j].type \in HandlerTypes}}
        matching == {p \in paths : Matches(p, request.path)}
    IN  \A p \in matching :
          (\A q \in matching : Len(q) <= Len(p)) =>
            \E i \in Claims(p) : handler = config[i].type
=============================================================================
