----------------------------- MODULE Dispatcher -----------------------------
(***************************************************************************)
(* dispatcher.cc: a Dispatcher for each of the two servers, built from the *)
(* same configuration; each request is then matched with the longest       *)
(* registered prefix of its target.                                        *)
(*                                                                         *)
(* Each Dispatcher has its own handlers_.  handler_info is static: both    *)
(* fill it, and session::get_handler_name searches it a second time, after *)
(* the request has been handled, for the name that goes to the log.        *)
(*                                                                         *)
(* When the Dispatchers are built, and what an exception in a constructor  *)
(* does, is in Startup.                                                    *)
(***************************************************************************)
EXTENDS Paths, FiniteSets

CONSTANTS
  Configs,     \* configurations: sequences of statements that Parse accepts
  Targets,     \* request targets, as sequences of characters
  HandlerTypes,\* the types add_handler knows
  NoHandler    \* nullptr, and the empty name

ASSUME DispatcherAssumption ==
  /\ "404Handler" \in HandlerTypes
  /\ NoHandler \notin HandlerTypes
  /\ Targets \subseteq Seq(STRING) \ {<<>>}  \* the HTTP parser refuses an empty one

Servers == {"http", "https"}

VARIABLES
  config,      \* the parsed configuration
  building,    \* the server whose Dispatcher is under construction, or "none"
  todo,        \* statements its init_handlers has not looked at
  handlers,    \* handlers_ of each Dispatcher: path -> type
  handlerInfo, \* the static handler_info: path -> name
  regnum,      \* regnum_ of each Dispatcher, 0 before it is built
  request,     \* what is being looked up: pass, Dispatcher and path
  left,        \* keys the search has not visited
  prefix,      \* the longest match so far
  found,       \* and what it maps to
  handler      \* result of get_request_handler

tableVars == <<config, building, todo, handlers, handlerInfo, regnum>>
searchVars == <<request, left, prefix, found, handler>>
dispatcherVars == <<tableVars, searchVars>>

Idle == [pass |-> "idle"]

\* map[key] = value, for a key that may be new.
Put(map, key, value) ==
  [k \in DOMAIN map \cup {key} |-> IF k = key THEN value ELSE map[k]]

-----------------------------------------------------------------------------
(* Construction: Dispatcher::Dispatcher, init_handlers and add_handler.    *)

IsLocation(stmt) == stmt.size >= 3 /\ stmt.keyword = "location"

\* The path of a location may be empty: a pair of quotes with nothing between
\* them is a token.
ASSUME ConfigsAssumption ==
  /\ Configs \subseteq Seq(UNION {{c[i] : i \in DOMAIN c} : c \in Configs})
  /\ \A c \in Configs : \A i \in DOMAIN c :
       IsLocation(c[i]) => c[i].path \in Seq(STRING)

\* Seeded faults of Registers: a path is handled anew; add_handler without
\* its last else.
RegistersAnew(stmt, map) == IsLocation(stmt) /\ stmt.type \in HandlerTypes
RegistersAnyType(stmt, map) == IsLocation(stmt) /\ Strip(stmt.path) \notin DOMAIN map

\* A location statement for a path that is free, of a type that exists.  Any
\* other is a "Formatting Error", "Already added" or of no known type.
Registers(stmt, map) ==
  IsLocation(stmt) /\ Strip(stmt.path) \notin DOMAIN map /\ stmt.type \in HandlerTypes

\* The constructors that read the statement's block.
Reads(type) == type \in {"FileHandler", "ProxyHandler"}

DispatcherInit ==
  /\ config \in Configs
  /\ building = "none"
  /\ todo = <<>>
  /\ handlers = [d \in Servers |-> <<>>]
  /\ handlerInfo = <<>>
  /\ regnum = [d \in Servers |-> 0]
  /\ request = Idle
  /\ left = {}
  /\ prefix = <<>>
  /\ found = NoHandler
  /\ handler = NoHandler

\* What init_handlers does before it reads any statement.
Construct(d) ==
  /\ building' = d
  /\ todo' = config
  /\ handlers' = [handlers EXCEPT ![d] = [p \in {Root} |-> "404Handler"]]
  /\ handlerInfo' = Put(handlerInfo, Root, "404Handler")
  /\ regnum' = [regnum EXCEPT ![d] = 1]
  /\ UNCHANGED <<config, searchVars>>

\* What the constructor that add_handler calls does of a statement.  A location
\* statement that ends with a semicolon has no block: *child_block_ refers to
\* nothing, which the constructors that read it do not survive, and others may
\* not.
MayCrash(stmt) == IsLocation(stmt) /\ stmt.block = "none"

\* Seeded fault of Throws: "!= http || != https", which no host satisfies.
ThrowsAlways(stmt) == Registers(stmt, handlers[building]) /\ stmt.type = "ProxyHandler"

\* A ProxyHandler whose block gives a host without http:// or https:// throws.
Throws(stmt) ==
  Registers(stmt, handlers[building]) /\ stmt.type = "ProxyHandler" /\ stmt.block = "bad"
Survives(stmt) ==
  /\ ~Throws(stmt)
  /\ MayCrash(stmt) => ~(Registers(stmt, handlers[building]) /\ Reads(stmt.type))

InitHandlers ==
  /\ todo # <<>>
  /\ Survives(Head(todo))
  /\ IF Registers(Head(todo), handlers[building])
       THEN LET path == Strip(Head(todo).path) type == Head(todo).type
            IN  /\ handlers' = [handlers EXCEPT ![building] = Put(@, path, type)]
                /\ handlerInfo' = Put(handlerInfo, path, type)
                /\ regnum' = [regnum EXCEPT ![building] = @ + 1]
       ELSE UNCHANGED <<handlers, handlerInfo, regnum>>
  /\ todo' = Tail(todo)
  /\ UNCHANGED <<config, building, searchVars>>

Built(d) ==
  /\ building = d
  /\ todo = <<>>
  /\ building' = "none"
  /\ UNCHANGED <<config, todo, handlers, handlerInfo, regnum, searchVars>>

-----------------------------------------------------------------------------
(* Search: get_request_handler, then get_handler_name.                     *)

Search(pass, d, path, keys) ==
  /\ request' = [pass |-> pass, dispatcher |-> d, path |-> path]
  /\ left' = keys
  /\ prefix' = <<>>
  /\ found' = NoHandler

GetRequestHandler(d, target) ==
  /\ request.pass = "idle"
  /\ Search("handler", d, Strip(target), DOMAIN handlers[d])
  /\ handler' = NoHandler
  /\ UNCHANGED tableVars

\* Seeded faults of Closer: the last match instead of the longest; the same in
\* get_handler_name's copy of the search only.
AnyMatch(key) == Matches(key, request.path)
AnyMatchForName(key) ==
  Matches(key, request.path) /\ (request.pass = "name" \/ Len(key) > Len(prefix))

Closer(key) == Matches(key, request.path) /\ Len(key) > Len(prefix)

\* One turn of either loop.  std::map iterates in key order; the result must
\* not depend on it.
VisitKey(key) ==
  /\ request.pass \in {"handler", "name"}
  /\ key \in left
  /\ left' = left \ {key}
  /\ IF Closer(key)
       THEN /\ prefix' = key
            /\ found' = IF request.pass = "handler" THEN handlers[request.dispatcher][key]
                        ELSE handlerInfo[key]
       ELSE UNCHANGED <<prefix, found>>
  /\ UNCHANGED <<tableVars, request, handler>>

\* send_response has its handler, runs it, and asks for its name.
GetHandlerName ==
  /\ request.pass = "handler" /\ left = {}
  /\ found # NoHandler
  /\ handler' = found
  /\ Search("name", request.dispatcher, request.path, DOMAIN handlerInfo)
  /\ UNCHANGED tableVars

\* handler->handle_request(req) through a null pointer.
NullHandler ==
  /\ request.pass = "handler" /\ left = {}
  /\ found = NoHandler
  /\ request' = [request EXCEPT !.pass = "null"]
  /\ UNCHANGED <<tableVars, left, prefix, found, handler>>

Respond ==
  /\ request.pass = "name" /\ left = {}
  /\ request' = Idle
  /\ prefix' = <<>>
  /\ found' = NoHandler
  /\ handler' = NoHandler
  /\ UNCHANGED <<tableVars, left>>

-----------------------------------------------------------------------------
(* What a Dispatcher may expect of its owner: one for each server is       *)
(* constructed, once and not while the other is, and they are used only    *)
(* when both are complete.  Nothing then changes handlers_ any more.       *)

IsBuilt == building = "none" /\ \A d \in Servers : regnum[d] > 0

DispatcherNext ==
  \/ \E d \in Servers : building = "none" /\ regnum[d] = 0 /\ Construct(d)
  \/ building # "none" /\ (InitHandlers \/ \E d \in Servers : Built(d))
  \/ IsBuilt /\ \E d \in Servers, target \in Targets : GetRequestHandler(d, target)
  \/ \E key \in left : VisitKey(key)
  \/ GetHandlerName \/ NullHandler \/ Respond

\* That main() and the server constructors do so is a property of Startup:
\* sessions search handlers_ without a lock, and no table is searched before
\* it is complete or filled while it is searched.
DispatcherSpec == DispatcherInit /\ [][DispatcherNext]_dispatcherVars

-----------------------------------------------------------------------------
(* Properties.                                                             *)

Path == Seq(STRING \cup {"/"})

\* The map that is searched.
Searched ==
  CASE request.pass = "handler" -> handlers[request.dispatcher]
    [] request.pass = "name" -> handlerInfo
    [] OTHER -> <<>>

DispatcherTypeOK ==
  /\ config \in Configs
  /\ building \in Servers \cup {"none"}
  /\ \E n \in 0 .. Len(config) : todo = SubSeq(config, n + 1, Len(config))
  /\ DOMAIN handlers = Servers
  /\ \A d \in Servers : \A p \in DOMAIN handlers[d] :
       p \in Path /\ handlers[d][p] \in HandlerTypes
  /\ \A p \in DOMAIN handlerInfo : p \in Path /\ handlerInfo[p] \in HandlerTypes
  /\ regnum \in [Servers -> Nat]
  /\ request = Idle \/ request \in [pass : {"handler", "name", "null"},
                                   dispatcher : Servers, path : Path]
  /\ left \subseteq DOMAIN Searched
  /\ prefix \in DOMAIN Searched \cup {<<>>}
  /\ {found, handler} \subseteq HandlerTypes \cup {NoHandler}

\* The statements of the configuration that ask for a handler at path p.
Claims(p) ==
  {i \in DOMAIN config :
     IsLocation(config[i]) /\ config[i].type \in HandlerTypes /\ Strip(config[i].path) = p}

\* What a Dispatcher makes of its configuration, without the loop: any path but
\* "/" belongs to the first statement that claims it, nothing else is in the
\* table, regnum_ counts it, and the second Dispatcher, built over a handler_info
\* the first has filled, ends with the same handlers as the first.  Statements
\* about ports and keys leave no trace.  (Of a statement that claims "/" it does
\* not speak: see LocationsAreCalledOn in MCStartup.)
HandlersMatchConfig ==
  IsBuilt =>
    \A d \in Servers :
      /\ DOMAIN handlers[d] =
           {Root} \cup {Strip(config[i].path) : i \in {j \in DOMAIN config :
                          Claims(Strip(config[j].path)) # {}}}
      /\ \A p \in DOMAIN handlers[d] \ {Root} :
           \E i \in Claims(p) : /\ handlers[d][p] = config[i].type
                                /\ \A j \in Claims(p) : i <= j
      /\ regnum[d] = Cardinality(DOMAIN handlers[d])

\* Whatever order the keys are visited in, the handler that runs is that of
\* the longest key that is a prefix of the stripped target; an empty one, which
\* a configuration can have, is never called on.
LongestPrefixWins ==
  request.pass = "name" =>
    LET map == handlers[request.dispatcher]
        matching == {k \in DOMAIN map : Matches(k, request.path)}
    IN  \E k \in matching \ {<<>>} : /\ handler = map[k]
                                    /\ \A m \in matching : Len(m) <= Len(k)

\* The name in the log is that of the handler that ran, although it is looked
\* up in another map, filled by both Dispatchers.
NameMatchesHandler ==
  request.pass = "name" /\ left = {} => found = handler

\* A target that starts with "/" always has a handler: no configuration takes
\* "/" from the table, and stripping slashes always leaves one.
SlashTargetsAreHandled ==
  request.pass = "null" => request.path # <<>> /\ request.path[1] # "/"
=============================================================================
