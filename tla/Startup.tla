------------------------------ MODULE Startup ------------------------------
(***************************************************************************)
(* server_main.cc and the server constructors of server.cc: main() takes   *)
(* its two ports from the configuration, binds and builds the HTTP server, *)
(* then the HTTPS server with its keys, and runs both.  An exception on    *)
(* the way ends the program with status 0, an error main() sees with 1.    *)
(*                                                                         *)
(* GetPortNumber and GetKeyPath search the printed text of the statements. *)
(* A text is a sequence of words; "mentions" is the keyword that a word    *)
(* contains, "says" is what is written after that keyword in the word, or  *)
(* the whole word where there is none: a number, a huge one (beyond an     *)
(* int), a path, something else, or nothing.                               *)
(***************************************************************************)
EXTENDS Dispatcher

CONSTANTS
  Environments(_), \* what it may find with a configuration: ports taken, what the files
                \* that are there hold, threads
  Garbage,      \* values an uninitialised short may have
  Ephemeral     \* ports the system chooses from for port 0

VARIABLES
  env,          \* one of Environments(config)
  main,         \* where main() is
  status,       \* its exit status, once it has one
  port,         \* port_number and ssl_port_number
  listening,    \* the port each server's acceptor is bound to
  loaded        \* the certificate and key files the HTTPS server has loaded

startupVars == <<env, main, status, port, listening, loaded>>
vars == <<dispatcherVars, startupVars>>

DHFile == "dhparam4096.pem"
NoPort == -1
Running == -1
Nothing == [kind |-> "nothing"]

\* Where main() is when it constructs a server: its acceptor and its Dispatcher.
Binding(s) == IF s = "http" THEN "bind http" ELSE "bind https"
Building(s) == IF s = "http" THEN "build http" ELSE "build https"

-----------------------------------------------------------------------------
(* What the configuration says: GetPortNumber and GetKeyPath.              *)

\* The printed text of a statement is a sequence of words, what is a number is
\* a natural one ("find_first_not_of" its digits), and a file has a name.
ASSUME StartupAssumption ==
  \A c \in Configs :
    /\ \A i \in DOMAIN c :
         /\ c[i].text \in Seq({c[i].text[w] : w \in DOMAIN c[i].text})
         /\ \A w \in DOMAIN c[i].text :
              c[i].text[w].says.kind = "number" => c[i].text[w].says.n \in Nat
    /\ \A e \in Environments(c) :
         "" \notin e.certificates /\ \A p \in e.pairs : p[1] # ""

MinShort == -32768
MaxShort == 32767
MaxPort == 65535

\* Garbage is what a short can be, and a port has 16 bits.
ASSUME PortsAssumption ==
  Garbage \subseteq MinShort .. MaxShort /\ Ephemeral \subseteq 0 .. MaxPort

Mentions(stmt, keyword) == {i \in DOMAIN stmt.text : stmt.text[i].mentions = keyword}

\* What follows the first occurrence of a keyword, up to the next blank.
After(stmt, keyword) ==
  LET i == CHOOSE i \in Mentions(stmt, keyword) : \A j \in Mentions(stmt, keyword) : i <= j
  IN  CASE stmt.text[i].says # Nothing -> stmt.text[i].says
        [] stmt.text[i].says = Nothing /\ i < Len(stmt.text) -> stmt.text[i + 1].says
        [] OTHER -> Nothing

Mentioning(keyword) == {i \in DOMAIN config : Mentions(config[i], keyword) # {}}
First(indices) == CHOOSE i \in indices : \A j \in indices : i <= j
Last(indices) == CHOOSE i \in indices : \A j \in indices : j <= i

\* GetPortNumber: the first statement with the keyword in its text decides,
\* whatever the statement is; stoi throws where an int ends.
PortNumber(keyword) ==
  IF Mentioning(keyword) = {} THEN [result |-> "missing"]
  ELSE LET value == After(config[First(Mentioning(keyword))], keyword)
       IN  CASE value.kind = "huge" -> [result |-> "throws"]
             [] value.kind = "number" /\ value.n <= 65535 -> [result |-> "found", n |-> value.n]
             [] OTHER -> [result |-> "missing"]

\* "port_number = int_port", a short; tcp::endpoint takes an unsigned short.
ToShort(n) == ((n + 32768) % 65536) - 32768

\* Seeded fault of Unsigned: the endpoint is given the absolute value.
UnsignedByAbs(short) == IF short < 0 THEN -short ELSE short
Unsigned(short) == short % 65536

\* Seeded fault of KeyFile: the first statement decides, as for ports.
KeyFileOfFirst(keyword) ==
  IF Mentioning(keyword) = {} THEN ""
  ELSE LET value == After(config[First(Mentioning(keyword))], keyword)
       IN  IF value.kind = "path" THEN value.name ELSE ""

\* GetKeyPath, then filename(): the last statement decides, and the directory
\* is dropped, so that the file is looked for where the program runs.
KeyFile(keyword) ==
  IF Mentioning(keyword) = {} THEN ""
  ELSE LET value == After(config[Last(Mentioning(keyword))], keyword)
       IN  IF value.kind = "path" THEN value.name ELSE ""

-----------------------------------------------------------------------------
Init ==
  /\ DispatcherInit
  /\ env \in Environments(config)
  /\ main = "parsed"
  /\ status = Running
  /\ port = [s \in Servers |-> 0]
  /\ listening = [s \in Servers |-> NoPort]
  /\ loaded = <<>>

\* main() ends; its sockets are closed with it.
End(how, code) ==
  /\ main' = how
  /\ status' = code
  /\ listening' = [s \in Servers |-> NoPort]
  /\ UNCHANGED <<dispatcherVars, env, port, loaded>>

Advance(next) ==
  /\ main' = next
  /\ UNCHANGED <<env, status>>

\* Without an SSL port the program goes on: ssl_port_number has no value.
GetPorts ==
  /\ main = "parsed"
  /\ PortNumber("listen").result = "found"
  /\ PortNumber("ssl-port").result # "throws"
  /\ \E ssl \in IF PortNumber("ssl-port").result = "found"
                  THEN {ToShort(PortNumber("ssl-port").n)} ELSE Garbage :
       port' = [http |-> ToShort(PortNumber("listen").n), https |-> ssl]
  /\ Advance(Binding("http"))
  /\ UNCHANGED <<dispatcherVars, listening, loaded>>

GetPortsFails ==
  /\ main = "parsed"
  /\ \/ PortNumber("listen").result = "missing" /\ End("exited", 1)
     \/ /\ \/ PortNumber("listen").result = "throws"
           \/ PortNumber("listen").result = "found" /\ PortNumber("ssl-port").result = "throws"
        /\ End("exited", 0)

\* The ports a server may end up with, none when it cannot be bound.
Bindable(s) ==
  LET p == Unsigned(port[s])
      taken == env.taken \cup {listening[t] : t \in Servers}
  IN  (IF p = 0 THEN Ephemeral ELSE {p}) \ taken

\* acceptor_(io_service, tcp::endpoint(tcp::v4(), port))
Bind(s) ==
  /\ main = Binding(s)
  /\ \E p \in Bindable(s) : listening' = [listening EXCEPT ![s] = p]
  /\ UNCHANGED <<port, loaded>>

BindHttp == Bind("http") /\ Construct("http") /\ Advance(Building("http"))
BindHttps == Bind("https") /\ UNCHANGED dispatcherVars /\ Advance("load keys")

\* The three files the HTTPS constructor reads.
KeyFiles == <<KeyFile("public_key_root"), KeyFile("private_key_root"), DHFile>>

\* What OpenSSL takes, else throws: a certificate chain, the private key that
\* belongs to it, and Diffie-Hellman parameters.
Usable(files) ==
  /\ files[1] \in env.certificates
  /\ <<files[2], files[1]>> \in env.pairs
  /\ files[3] \in env.parameters

LoadKeys ==
  /\ main = "load keys"
  /\ Usable(KeyFiles)
  /\ loaded' = KeyFiles
  /\ Construct("https")
  /\ Advance(Building("https"))
  /\ UNCHANGED <<port, listening>>

InitHandlersOf(s) ==
  /\ main = Building(s)
  /\ InitHandlers
  /\ UNCHANGED startupVars

\* The dispatcher is complete and start_accept() arms the acceptor; nothing is
\* accepted until a thread runs the io_service.
Constructed(s, next) ==
  /\ main = Building(s)
  /\ Built(s)
  /\ Advance(next)
  /\ UNCHANGED <<port, listening, loaded>>

\* threads.create_thread(...); https_io_service.run()
RunServices ==
  /\ main = "run"
  /\ env.threads
  /\ Advance("serving")
  /\ UNCHANGED <<dispatcherVars, port, listening, loaded>>

\* Whatever throws between the ports and the serving is caught by main().
StartFails ==
  /\ \/ \E s \in Servers : main = Binding(s) /\ Bindable(s) = {}
     \/ main = "load keys" /\ ~Usable(KeyFiles)
     \/ building # "none" /\ todo # <<>> /\ Throws(Head(todo))
     \/ main = "run" /\ ~env.threads
  /\ End("exited", 0)

\* A constructor that is given no block.
ConstructorCrashes ==
  /\ building # "none" /\ todo # <<>>
  /\ MayCrash(Head(todo))
  /\ End("crashed", Running)

-----------------------------------------------------------------------------
(* The program serves: any request, at either server.                      *)

\* Seeded fault of Serving: requests are accepted as soon as a server is bound.
ServingOnceBound(lookup) ==
  listening["http"] # NoPort /\ lookup /\ UNCHANGED startupVars
Serving(lookup) == main = "serving" /\ lookup /\ UNCHANGED startupVars

CallNull ==
  /\ main = "serving"
  /\ NullHandler
  /\ main' = "crashed"
  /\ listening' = [s \in Servers |-> NoPort]
  /\ UNCHANGED <<env, status, port, loaded>>

Start ==
  \/ GetPorts \/ GetPortsFails
  \/ BindHttp \/ InitHandlersOf("http") \/ Constructed("http", Binding("https"))
  \/ BindHttps \/ LoadKeys \/ InitHandlersOf("https") \/ Constructed("https", "run")
  \/ RunServices \/ StartFails \/ ConstructorCrashes

Lookup ==
  \/ \E d \in Servers, target \in Targets : Serving(GetRequestHandler(d, target))
  \/ \E key \in left : Serving(VisitKey(key))
  \/ Serving(GetHandlerName) \/ Serving(Respond)
  \/ CallNull

Next == Start \/ Lookup

Spec == Init /\ [][Next]_vars

\* main() is a sequential program, and nothing it does there waits for others.
FairSpec == Spec /\ WF_vars(Start)

-----------------------------------------------------------------------------
(* Properties.                                                             *)

TypeOK ==
  /\ DispatcherTypeOK
  /\ env \in Environments(config)
  /\ main \in {"parsed", "load keys", "run", "serving", "exited", "crashed"}
             \cup UNION {{Binding(s), Building(s)} : s \in Servers}
  /\ status \in {Running, 0, 1}
  /\ port \in [Servers -> MinShort .. MaxShort]
  /\ listening \in [Servers -> NoPort .. MaxPort]
  /\ loaded \in {<<>>, KeyFiles}

\* The number written after the first mention of a keyword, if there is one.
Written(keyword) == After(config[First(Mentioning(keyword))], keyword)
IsPort(value) == value.kind = "number" /\ value.n <= 65535
KeywordOf == [http |-> "listen", https |-> "ssl-port"]

\* A server that serves listens on the port written in the configuration, also
\* where the number does not fit the short it is kept in, and never on what is
\* left of a number that is no port; for port 0 the system has chosen.  The two
\* servers never share a port.  (Where no usable ssl-port is written the HTTPS
\* server is on any port.)
PortsAreHonoured ==
  main = "serving" =>
    /\ Mentioning("listen") # {} /\ IsPort(Written("listen"))
    /\ \A s \in Servers :
         LET value == Written(KeywordOf[s])
         IN  Mentioning(KeywordOf[s]) # {} /\ IsPort(value) =>
               listening[s] \in IF value.n = 0 THEN Ephemeral ELSE {value.n}
    /\ listening["http"] # listening["https"]

\* HTTPS is served with the files of the last key statements, wherever in the
\* configuration they are, and only with a key that belongs to the certificate.
KeysAreThoseNamed ==
  main = "serving" =>
    /\ <<loaded[2], loaded[1]>> \in env.pairs
    /\ \A k \in {<<1, "public_key_root">>, <<2, "private_key_root">>} :
        \E i \in Mentioning(k[2]) :
          /\ \A j \in Mentioning(k[2]) : j <= i
          /\ After(config[i], k[2]).kind = "path"
          /\ loaded[k[1]] = After(config[i], k[2]).name

\* A configuration with nothing wrong in it, in a place where its ports are
\* free and its files are good.
Sound ==
  /\ \A s \in Servers :
       /\ Mentioning(KeywordOf[s]) # {}
       /\ Written(KeywordOf[s]).kind = "number"
       /\ Written(KeywordOf[s]).n \in (1 .. 65535) \ env.taken
  /\ Written("listen").n # Written("ssl-port").n
  /\ \A keyword \in {"public_key_root", "private_key_root"} :
       /\ Mentioning(keyword) # {}
       /\ \A i \in Mentioning(keyword) : After(config[i], keyword).kind = "path"
  /\ Usable(KeyFiles) /\ env.threads
  /\ \A i \in DOMAIN config : IsLocation(config[i]) => config[i].block = "good"

\* A sound configuration is eventually served, on both ports.
SoundConfigIsServed == main = "parsed" /\ Sound ~> main = "serving"
=============================================================================
