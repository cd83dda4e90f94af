--------------------------- MODULE StartupProofs ---------------------------
(***************************************************************************)
(* For any configuration and any targets: the ports and the keys that the  *)
(* program serves with, its handlers, and which of them a request gets.    *)
(***************************************************************************)
EXTENDS Startup, PathsProofs, FiniteSetTheorems

\* Characters are strings, and this is one.
Char == STRING \cup {"/"}

Statement == UNION {{c[i] : i \in DOMAIN c} : c \in Configs}

\* How many statements the Dispatcher of a server has read.
Read(d) == IF building = d THEN Len(config) - Len(todo) ELSE Len(config)

ConfigOK ==
  /\ config \in Configs /\ config \in Seq(Statement) /\ todo \in Seq(Statement)
  /\ Len(todo) <= Len(config)
  /\ \A i \in 1 .. Len(todo) : todo[i] = config[Len(config) - Len(todo) + i]
  /\ building \in Servers \cup {"none"}
  /\ building = "none" => todo = <<>>
  /\ building # "none" => regnum[building] > 0

\* Statement i, one of the first n, asks for the path p.
Asks(i, p) ==
  IsLocation(config[i]) /\ config[i].type \in HandlerTypes /\ Strip(config[i].path) = p

\* The table after the first n statements: each path was asked for first by
\* the statement that has it, and what was asked for is there.
IsTable(map, n) ==
  /\ Root \in DOMAIN map /\ map[Root] = "404Handler"
  /\ \A p \in DOMAIN map : p \in Seq(Char) /\ map[p] \in HandlerTypes
  /\ \A p \in DOMAIN map \ {Root} : \E i \in 1 .. n :
       /\ Asks(i, p) /\ map[p] = config[i].type
       /\ \A j \in 1 .. Len(config) : Asks(j, p) => i <= j
  /\ \A i \in 1 .. n : \A p : Asks(i, p) => p \in DOMAIN map

TablesOK ==
  /\ handlers = [d \in Servers |-> handlers[d]]
  /\ regnum \in [Servers -> Nat]
  /\ \A d \in Servers : regnum[d] = 0 => DOMAIN handlers[d] = {}
  /\ \A d \in Servers : regnum[d] > 0 =>
       /\ IsTable(handlers[d], Read(d))
       /\ IsFiniteSet(DOMAIN handlers[d])
       /\ regnum[d] = Cardinality(DOMAIN handlers[d])

\* handler_info has the names of both Dispatchers, and no others.
InfoOK ==
  /\ \A d \in Servers : \A p \in DOMAIN handlers[d] :
       p \in DOMAIN handlerInfo /\ handlerInfo[p] = handlers[d][p]
  /\ \A p \in DOMAIN handlerInfo : \E d \in Servers : p \in DOMAIN handlers[d]

\* The loop's invariant, over the map that is searched.
LoopOK(map) ==
  /\ left \subseteq DOMAIN map
  /\ \/ found = NoHandler /\ prefix = <<>>
     \/ /\ prefix \in DOMAIN map \ left /\ prefix # <<>>
        /\ Matches(prefix, request.path)
        /\ found = map[prefix]
  /\ \A k \in DOMAIN map \ left : Matches(k, request.path) => Len(k) <= Len(prefix)

SearchOK ==
  /\ request.pass \in {"idle", "handler", "name", "null"}
  /\ request.pass # "idle" =>
       /\ request \in [pass : {"handler", "name", "null"}, dispatcher : Servers,
                       path : Seq(Char) \ {<<>>}]
       /\ building = "none" /\ \A d \in Servers : regnum[d] > 0
  /\ request.pass = "handler" => LoopOK(handlers[request.dispatcher])
  /\ request.pass = "name" => LoopOK(handlerInfo)

\* Where main() is, and how far the construction has come.
PhaseOK ==
  /\ main \in {"parsed", "bind http"} => regnum["http"] = 0
  /\ main \in {"parsed", "bind http", "build http", "bind https", "load keys"} =>
       regnum["https"] = 0
  /\ main \in {"build http", "bind https", "load keys", "build https", "run", "serving"} =>
       regnum["http"] # 0
  /\ main \in {"build https", "run", "serving"} => regnum["https"] # 0
  /\ main \in {"parsed", "bind http", "bind https", "load keys", "run", "serving"} =>
       building = "none"
  /\ request.pass # "idle" => main \in {"serving", "crashed"}

DInv ==
  /\ ConfigOK /\ TablesOK /\ InfoOK /\ SearchOK
  /\ LongestPrefixWins /\ SlashTargetsAreHandled

IInv == DInv /\ PhaseOK

-----------------------------------------------------------------------------
(* The construction.                                                       *)

\* The properties say Claims, over which statements the table is silent.
LEMMA ClaimsAreAsked ==
  ASSUME ConfigOK, NEW i, NEW p
  PROVE  i \in Claims(p) <=> i \in 1 .. Len(config) /\ Asks(i, p)
  BY DEF ConfigOK, Claims, Asks

\* A path that is asked for is one that Strip can return.
LEMMA AskedPath ==
  ASSUME ConfigOK, NEW i \in 1 .. Len(config), NEW p, Asks(i, p)
  PROVE  p \in Seq(Char)
<1>1. config[i].path \in Seq(STRING)
  BY ConfigsAssumption DEF ConfigOK, Asks
<1>2. config[i].path \in Seq(Char)
  BY <1>1 DEF Char
<1> QED BY <1>1, <1>2, StripIsPrefix DEF Asks

LEMMA RootIsPath == Root \in Seq(Char) /\ Root # <<>> /\ Len(Root) = 1
<1>1. "/" \in Char
  BY DEF Char
<1> HIDE DEF Char
<1> QED BY <1>1 DEF Root

\* A table that nothing is added to stays one.
LEMMA SameTable ==
  ASSUME NEW c, config' = config, handlers'[c] = handlers[c], Read(c)' = Read(c),
         IsTable(handlers[c], Read(c))
  PROVE  IsTable(handlers[c], Read(c))'
<1> DEFINE n == Read(c)
<1>1. \A i, p : Asks(i, p)' <=> Asks(i, p)
  BY DEF Asks
<1>2. n' = n
  OBVIOUS
<1> HIDE DEF n
<1>3. IsTable(handlers[c], n)'
  <2>1. IsTable(handlers[c], n)
    BY DEF n
  <2> QED BY <1>1, <1>2, <2>1 DEF IsTable
<1> QED BY <1>3 DEF n

\* Nothing is looked up while a Dispatcher is being built.
LEMMA IdleSearch ==
  ASSUME request.pass = "idle", request' = request
  PROVE  SearchOK' /\ LongestPrefixWins' /\ SlashTargetsAreHandled'
<1>1. request'.pass = "idle"
  OBVIOUS
<1>2. SearchOK'
  BY <1>1 DEF SearchOK
<1>3. LongestPrefixWins'
  BY <1>1 DEF LongestPrefixWins
<1>4. SlashTargetsAreHandled'
  BY <1>1 DEF SlashTargetsAreHandled
<1> QED BY <1>2, <1>3, <1>4

LEMMA ConstructInv ==
  ASSUME DInv, NEW d \in Servers, Construct(d),
         building = "none", regnum[d] = 0, request.pass = "idle"
  PROVE  /\ DInv' /\ building' = d /\ request' = request
         /\ regnum'[d] # 0 /\ \A c \in Servers \ {d} : regnum'[c] = regnum[c]
<1>1. /\ config' = config /\ todo' = config /\ building' = d /\ request' = request
      /\ regnum' = [regnum EXCEPT ![d] = 1] /\ regnum'[d] = 1
      /\ \A c \in Servers \ {d} : regnum'[c] = regnum[c] /\ handlers'[c] = handlers[c]
      /\ handlers'[d] = [p \in {Root} |-> "404Handler"]
      /\ handlers' = [c \in Servers |-> handlers'[c]]
  BY DEF Construct, searchVars, DInv, TablesOK
<1>2. (\A c \in Servers : c # "none") /\ Len(config) \in Nat
  BY DEF Servers, DInv, ConfigOK
<1>3. ConfigOK'
  BY <1>1, <1>2 DEF DInv, ConfigOK
<1>4. TablesOK'
  <2>1. IsTable(handlers[d], Read(d))'
    <3>1. Read(d)' = 0
      BY <1>1, <1>2 DEF Read
    <3>2. DOMAIN handlers'[d] = {Root} /\ handlers'[d][Root] = "404Handler"
      BY <1>1
    <3> QED BY <3>1, <3>2, RootIsPath, DispatcherAssumption DEF IsTable
  <2>2. /\ IsFiniteSet(DOMAIN handlers'[d])
        /\ regnum'[d] = Cardinality(DOMAIN handlers'[d])
    BY <1>1, FS_Singleton
  <2>3. ASSUME NEW c \in Servers \ {d}, regnum'[c] > 0
        PROVE  IsTable(handlers[c], Read(c))'
    <3>1. Read(c)' = Read(c)
      BY <1>1, <1>2 DEF Read
    <3> QED BY <1>1, <2>3, <3>1, SameTable DEF DInv, TablesOK
  <2>4. regnum' \in [Servers -> Nat]
    BY <1>1 DEF DInv, TablesOK
  <2> QED BY <1>1, <2>1, <2>2, <2>3, <2>4 DEF DInv, TablesOK
<1>5. InfoOK'
  <2>1. handlerInfo' = Put(handlerInfo, Root, "404Handler")
    BY DEF Construct
  <2>2. DOMAIN handlers[d] = {}
    BY DEF DInv, TablesOK
  <2>3. \A c \in Servers : Root \in DOMAIN handlers[c] => handlers[c][Root] = "404Handler"
    BY DEF DInv, TablesOK, IsTable
  <2> QED BY <1>1, <2>1, <2>2, <2>3 DEF DInv, InfoOK, Put
<1>6. SearchOK' /\ LongestPrefixWins' /\ SlashTargetsAreHandled'
  BY <1>1, IdleSearch
<1>7. 1 # 0
  OBVIOUS
<1>8. regnum'[d] # 0
  BY <1>1, <1>7
<1> QED BY <1>1, <1>3, <1>4, <1>5, <1>6, <1>8 DEF DInv

LEMMA InitHandlersInv ==
  ASSUME DInv, InitHandlers
  PROVE  DInv' /\ building' = building /\ request' = request /\ regnum' \in [Servers -> Nat]
         /\ \A d \in Servers : (regnum'[d] > 0) = (regnum[d] > 0)
<1> DEFINE d == building
           n == Len(config) - Len(todo)
           stmt == Head(todo)
           path == Strip(stmt.path)
<1>1. d \in Servers /\ d # "none" /\ regnum[d] > 0 /\ request.pass = "idle"
  BY DEF InitHandlers, DInv, ConfigOK, SearchOK, Servers
<1>2. /\ config' = config /\ todo' = Tail(todo) /\ building' = building
      /\ request' = request
  BY DEF InitHandlers, searchVars
<1>3. /\ Len(config) \in Nat /\ Len(todo) \in Nat \ {0} /\ Len(todo') = Len(todo) - 1
      /\ n \in Nat /\ n + 1 \in 1 .. Len(config) /\ n + 1 = Len(config') - Len(todo')
      /\ stmt = config[n + 1]
  BY <1>2, EmptySeq DEF DInv, ConfigOK, InitHandlers
<1>4. ConfigOK'
  <2>1. todo' \in Seq(Statement)
    BY <1>2, <1>3 DEF DInv, ConfigOK
  <2>2. \A i \in 1 .. Len(todo') : todo'[i] = todo[i + 1]
    BY <1>2, <1>3 DEF DInv, ConfigOK
  <2>3. \A i \in 1 .. Len(todo') : todo'[i] = config'[Len(config') - Len(todo') + i]
    BY <1>2, <1>3, <2>2 DEF DInv, ConfigOK
  <2>4. regnum'[d] > 0
    BY <1>1 DEF InitHandlers, DInv, TablesOK
  <2> QED BY <1>1, <1>2, <1>3, <2>1, <2>3, <2>4 DEF DInv, ConfigOK
<1>5. /\ Read(d) = n /\ Read(d)' = n + 1
      /\ \A c \in Servers \ {d} : Read(c) = Len(config) /\ Read(c)' = Len(config)
  BY <1>2, <1>3 DEF Read
<1>6. /\ IsTable(handlers[d], n) /\ IsFiniteSet(DOMAIN handlers[d])
      /\ regnum[d] = Cardinality(DOMAIN handlers[d])
  BY <1>1, <1>5 DEF DInv, TablesOK
<1>7. CASE ~Registers(stmt, handlers[d])
  <2>1. UNCHANGED <<handlers, handlerInfo, regnum>>
    BY <1>7 DEF InitHandlers
  <2>2. IsTable(handlers[d], Read(d))'
    <3>1. \A p : Asks(n + 1, p) => p \in DOMAIN handlers[d]
      BY <1>3, <1>7 DEF Registers, Asks
    <3>2. \A i \in 1 .. n + 1 : i \in 1 .. n \/ i = n + 1
      BY <1>3
    <3>3. 1 .. n \subseteq 1 .. n + 1
      BY <1>3
    <3> QED BY <1>2, <1>5, <1>6, <2>1, <3>1, <3>2, <3>3 DEF IsTable, Asks
  <2>3. TablesOK'
    <3>1. \A c \in Servers \ {d} : regnum[c] > 0 => IsTable(handlers[c], Read(c))'
      BY <1>2, <1>5, <2>1, SameTable DEF DInv, TablesOK
    <3>2. ASSUME NEW c \in Servers, regnum'[c] > 0
          PROVE  /\ IsTable(handlers[c], Read(c))' /\ IsFiniteSet(DOMAIN handlers'[c])
                 /\ regnum'[c] = Cardinality(DOMAIN handlers'[c])
      <4>1. CASE c = d
        BY <1>2, <1>6, <2>1, <2>2, <4>1
      <4>2. CASE c # d
        BY <2>1, <3>1, <3>2, <4>2 DEF DInv, TablesOK
      <4> QED BY <4>1, <4>2
    <3>3. \A c \in Servers : regnum'[c] = 0 => DOMAIN handlers'[c] = {}
      BY <2>1 DEF DInv, TablesOK
    <3> QED BY <2>1, <3>2, <3>3 DEF DInv, TablesOK
  <2>4. InfoOK'
    BY <2>1 DEF DInv, InfoOK
  <2>5. SearchOK' /\ LongestPrefixWins' /\ SlashTargetsAreHandled'
    BY <1>1, <1>2, IdleSearch
  <2> QED BY <1>2, <1>4, <2>1, <2>3, <2>4, <2>5 DEF DInv, TablesOK
<1>8. CASE Registers(stmt, handlers[d])
  <2>1. /\ handlers' = [handlers EXCEPT ![d] = Put(@, path, stmt.type)]
        /\ handlerInfo' = Put(handlerInfo, path, stmt.type)
        /\ regnum' = [regnum EXCEPT ![d] = @ + 1]
    BY <1>8 DEF InitHandlers
  <2>2. /\ handlers'[d] = Put(handlers[d], path, stmt.type)
        /\ regnum'[d] = regnum[d] + 1
        /\ \A c \in Servers \ {d} : handlers'[c] = handlers[c] /\ regnum'[c] = regnum[c]
        /\ handlers' = [c \in Servers |-> handlers'[c]]
        /\ regnum' \in [Servers -> Nat]
    BY <1>1, <2>1 DEF DInv, TablesOK
  <2>3. /\ DOMAIN handlers'[d] = DOMAIN handlers[d] \cup {path}
        /\ handlers'[d][path] = stmt.type
        /\ \A p \in DOMAIN handlers[d] : handlers'[d][p] = handlers[d][p]
        /\ path \notin DOMAIN handlers[d]
        /\ Asks(n + 1, path) /\ stmt.type \in HandlerTypes
    BY <1>3, <1>8, <2>2 DEF Put, Registers, Asks
  <2>4. path \in Seq(Char)
    BY <1>3, <2>3, AskedPath DEF DInv
  \* Nobody before this statement has asked for its path.
  <2>5. \A j \in 1 .. Len(config) : Asks(j, path) => n + 1 <= j
    <3>1. ASSUME NEW j \in 1 .. Len(config), Asks(j, path), j <= n PROVE FALSE
      BY <1>3, <1>6, <2>3, <3>1 DEF IsTable
    <3> QED BY <1>3, <3>1
  <2>6. IsTable(handlers[d], Read(d))'
    <3>1. \A i \in 1 .. n + 1 : \A p : Asks(i, p) => p \in DOMAIN handlers'[d]
      <4>1. \A p : Asks(n + 1, p) => p = path
        BY <1>3 DEF Asks
      <4> QED BY <1>3, <1>6, <2>3, <4>1 DEF IsTable
    <3>2. \A p \in DOMAIN handlers'[d] \ {Root} : \E i \in 1 .. n + 1 :
             /\ Asks(i, p) /\ handlers'[d][p] = config[i].type
             /\ \A j \in 1 .. Len(config) : Asks(j, p) => i <= j
      <4>1. ASSUME NEW p \in DOMAIN handlers[d] \ {Root}
            PROVE  \E i \in 1 .. n + 1 :
                     /\ Asks(i, p) /\ handlers[d][p] = config[i].type
                     /\ \A j \in 1 .. Len(config) : Asks(j, p) => i <= j
        <5>1. PICK i \in 1 .. n :
                /\ Asks(i, p) /\ handlers[d][p] = config[i].type
                /\ \A j \in 1 .. Len(config) : Asks(j, p) => i <= j
          BY <1>6 DEF IsTable
        <5>2. i \in 1 .. n + 1
          BY <1>3
        <5> QED BY <5>1, <5>2
      <4>2. n + 1 \in 1 .. n + 1
        BY <1>3
      <4> QED BY <1>3, <2>3, <2>5, <4>1, <4>2
    <3>3. \A i, p : Asks(i, p)' <=> Asks(i, p)
      BY <1>2 DEF Asks
    <3>4. /\ Root \in DOMAIN handlers'[d] /\ handlers'[d][Root] = "404Handler"
          /\ \A p \in DOMAIN handlers'[d] :
               p \in Seq(Char) /\ handlers'[d][p] \in HandlerTypes
      BY <1>6, <2>3, <2>4 DEF IsTable
    <3> QED BY <1>2, <1>5, <3>1, <3>2, <3>3, <3>4 DEF IsTable
  <2>7. TablesOK'
    <3>1. \A c \in Servers \ {d} : regnum[c] > 0 => IsTable(handlers[c], Read(c))'
      BY <1>2, <1>5, <2>2, SameTable DEF DInv, TablesOK
    <3>2. /\ IsFiniteSet(DOMAIN handlers'[d])
          /\ regnum'[d] = Cardinality(DOMAIN handlers'[d])
      BY <1>6, <2>2, <2>3, FS_AddElement
    <3>3. regnum'[d] > 0
      BY <1>1, <2>2 DEF DInv, TablesOK
    <3>4. ASSUME NEW c \in Servers, regnum'[c] > 0
          PROVE  /\ IsTable(handlers[c], Read(c))' /\ IsFiniteSet(DOMAIN handlers'[c])
                 /\ regnum'[c] = Cardinality(DOMAIN handlers'[c])
      <4>1. CASE c = d
        BY <1>2, <2>6, <3>2, <4>1
      <4>2. CASE c # d
        BY <2>2, <3>1, <3>4, <4>2 DEF DInv, TablesOK
      <4> QED BY <4>1, <4>2
    <3>5. \A c \in Servers : regnum'[c] = 0 => DOMAIN handlers'[c] = {}
      BY <2>2, <3>3 DEF DInv, TablesOK
    <3> QED BY <2>2, <3>4, <3>5 DEF DInv, TablesOK
  \* The other Dispatcher, if it has the path, has it of the same statement.
  <2>8. \A c \in Servers \ {d} : path \in DOMAIN handlers[c] => handlers[c][path] = stmt.type
    <3>1. SUFFICES ASSUME NEW c \in Servers \ {d}, path \in DOMAIN handlers[c]
                   PROVE  handlers[c][path] = stmt.type
      OBVIOUS
    <3>2. regnum[c] > 0
      BY <3>1 DEF DInv, TablesOK
    <3>3. IsTable(handlers[c], Len(config))
      BY <1>5, <3>2 DEF DInv, TablesOK
    <3>4. path # Root
      BY <1>6, <2>3 DEF IsTable
    <3>5. PICK i \in 1 .. Len(config) :
            /\ Asks(i, path) /\ handlers[c][path] = config[i].type
            /\ \A j \in 1 .. Len(config) : Asks(j, path) => i <= j
      BY <3>1, <3>3, <3>4 DEF IsTable
    <3>6. i = n + 1
      BY <1>3, <2>3, <2>5, <3>5
    <3> QED BY <1>3, <3>5, <3>6
  <2>9. InfoOK'
    BY <1>1, <2>1, <2>2, <2>3, <2>8 DEF DInv, InfoOK, Put
  <2>10. SearchOK' /\ LongestPrefixWins' /\ SlashTargetsAreHandled'
    BY <1>1, <1>2, IdleSearch
  <2>11. \A c \in Servers : (regnum'[c] > 0) = (regnum[c] > 0)
    BY <1>1, <2>2 DEF DInv, TablesOK
  <2> QED BY <1>2, <1>4, <2>2, <2>7, <2>9, <2>10, <2>11 DEF DInv
<1> QED BY <1>7, <1>8

LEMMA BuiltInv ==
  ASSUME DInv, NEW d \in Servers, Built(d)
  PROVE  DInv' /\ building' = "none" /\ UNCHANGED <<request, regnum>>
<1>1. /\ building' = "none" /\ building = d /\ todo = <<>> /\ d # "none"
      /\ UNCHANGED <<config, todo, handlers, handlerInfo, regnum, searchVars>>
  BY DEF Built, Servers
<1>2. Len(config) \in Nat /\ Len(todo) = 0
  BY <1>1 DEF DInv, ConfigOK
<1>3. \A c \in Servers : Read(c)' = Read(c)
  BY <1>1, <1>2 DEF Read
<1>4. \A c \in Servers : regnum[c] > 0 => IsTable(handlers[c], Read(c))'
  BY <1>1, <1>3, SameTable DEF DInv, TablesOK
<1>5. TablesOK'
  BY <1>1, <1>4 DEF DInv, TablesOK
<1>6. ConfigOK' /\ InfoOK'
  BY <1>1 DEF DInv, ConfigOK, InfoOK
<1>7. SearchOK' /\ LongestPrefixWins' /\ SlashTargetsAreHandled'
  <2>1. request.pass = "idle" /\ request' = request
    BY <1>1 DEF DInv, SearchOK, searchVars
  <2> QED BY <2>1, IdleSearch
<1> QED BY <1>1, <1>5, <1>6, <1>7 DEF DInv, searchVars

-----------------------------------------------------------------------------
(* The search.                                                             *)

\* Once both Dispatchers are built their tables agree, and handler_info is
\* either of them.
LEMMA TablesAgree ==
  ASSUME DInv, building = "none", \A d \in Servers : regnum[d] > 0
  PROVE  \A d \in Servers : DOMAIN handlerInfo = DOMAIN handlers[d]
<1>1. \A d \in Servers : IsTable(handlers[d], Len(config))
  <2>1. \A d \in Servers : d # "none"
    BY DEF Servers
  <2> QED BY <2>1 DEF DInv, TablesOK, Read
<1>2. ASSUME NEW c \in Servers, NEW d \in Servers, NEW p \in DOMAIN handlers[c]
      PROVE  p \in DOMAIN handlers[d]
  BY <1>1 DEF IsTable
<1> QED BY <1>2 DEF DInv, InfoOK

\* What is searched: paths, / among them, with the names of
\* handlers.
Searchable(map) ==
  /\ Root \in DOMAIN map
  /\ \A p \in DOMAIN map : p \in Seq(Char) /\ map[p] \in HandlerTypes

LEMMA MapsAreSearchable ==
  ASSUME DInv, building = "none", \A d \in Servers : regnum[d] > 0
  PROVE  /\ \A d \in Servers : Searchable(handlers[d])
         /\ Searchable(handlerInfo)
<1>1. \A d \in Servers : Searchable(handlers[d])
  BY DEF DInv, TablesOK, IsTable, Searchable
<1>2. Searchable(handlerInfo)
  <2>1. "http" \in Servers
    BY DEF Servers
  <2> QED BY <1>1, <2>1, TablesAgree DEF DInv, InfoOK, Searchable
<1> QED BY <1>1, <1>2

\* Before the first turn.
LEMMA SearchStarts ==
  ASSUME NEW map, left = DOMAIN map, prefix = <<>>, found = NoHandler
  PROVE  LoopOK(map)
  BY DEF LoopOK

\* After the last: nothing that matches is longer than what has been found.
LEMMA SearchEnds ==
  ASSUME NEW map, Searchable(map), LoopOK(map), left = {}, NEW p \in DOMAIN map,
         p # <<>>, Matches(p, request.path)
  PROVE  /\ prefix \in DOMAIN map /\ found = map[prefix] /\ found # NoHandler
         /\ Matches(prefix, request.path)
         /\ \A k \in DOMAIN map : Matches(k, request.path) => Len(k) <= Len(prefix)
<1>1. Len(p) \in Nat \ {0} /\ Len(p) <= Len(prefix)
  BY EmptySeq DEF LoopOK, Searchable
<1>2. prefix # <<>>
  BY <1>1, EmptySeq
<1> QED BY <1>2, DispatcherAssumption DEF LoopOK, Searchable

\* A turn of the loop over a map, in whatever order the keys come.
LEMMA TurnInv ==
  ASSUME NEW map, Searchable(map), LoopOK(map), request' = request, NEW key \in left,
         left' = left \ {key},
         IF Closer(key) THEN prefix' = key /\ found' = map[key] ELSE UNCHANGED <<prefix, found>>
  PROVE  /\ left' \subseteq DOMAIN map
         /\ \/ found' = NoHandler /\ prefix' = <<>>
            \/ /\ prefix' \in DOMAIN map \ left' /\ prefix' # <<>>
               /\ Matches(prefix', request.path)
               /\ found' = map[prefix']
         /\ \A k \in DOMAIN map \ left' :
              Matches(k, request.path) => Len(k) <= Len(prefix')
<1>1. /\ \A k \in DOMAIN map : Len(k) \in Nat
      /\ Len(prefix) \in Nat /\ key \in DOMAIN map
  <2>1. \A k \in DOMAIN map : Len(k) \in Nat
    BY DEF Searchable
  <2>2. Len(<<>>) = 0
    OBVIOUS
  <2> QED BY <2>1, <2>2 DEF LoopOK
<1>2. CASE Closer(key)
  <2>1. Len(key) \in Nat \ {0} /\ prefix' = key
    BY <1>1, <1>2 DEF Closer
  <2>2. key # <<>>
    BY <2>1
  <2> QED BY <1>1, <1>2, <2>1, <2>2 DEF LoopOK, Closer
<1>3. CASE ~Closer(key)
  BY <1>1, <1>3 DEF LoopOK, Closer
<1> QED BY <1>2, <1>3

\* A search leaves the tables as they are.
LEMMA TablesKept ==
  ASSUME DInv, UNCHANGED tableVars
  PROVE  ConfigOK' /\ TablesOK' /\ InfoOK'
<1>1. UNCHANGED <<config, building, todo, handlers, handlerInfo, regnum>>
  BY DEF tableVars
<1>2. \A c \in Servers : Read(c)' = Read(c)
  BY <1>1 DEF Read
<1>3. \A c \in Servers : regnum[c] > 0 => IsTable(handlers[c], Read(c))'
  BY <1>1, <1>2, SameTable DEF DInv, TablesOK
<1> QED BY <1>1, <1>3 DEF DInv, ConfigOK, TablesOK, InfoOK

LEMMA GetRequestHandlerInv ==
  ASSUME DInv, NEW d \in Servers, NEW target \in Targets, GetRequestHandler(d, target),
         building = "none", \A c \in Servers : regnum[c] > 0
  PROVE  DInv' /\ UNCHANGED <<building, regnum>>
<1>1. /\ request' = [pass |-> "handler", dispatcher |-> d, path |-> Strip(target)]
      /\ left' = DOMAIN handlers'[d] /\ prefix' = <<>> /\ found' = NoHandler
      /\ UNCHANGED tableVars
  BY DEF GetRequestHandler, Search, tableVars
<1>2. Strip(target) \in Seq(Char) /\ Strip(target) # <<>>
  <2>1. target \in Seq(STRING) /\ target # <<>>
    BY DispatcherAssumption
  <2>2. target \in Seq(Char)
    BY <2>1 DEF Char
  <2> QED BY <2>1, <2>2, StripIsPrefix
<1>3. LoopOK(handlers[request.dispatcher])'
  BY <1>1 DEF LoopOK
<1>4. SearchOK'
  BY <1>1, <1>2, <1>3 DEF SearchOK, tableVars
<1>5. LongestPrefixWins' /\ SlashTargetsAreHandled'
  BY <1>1 DEF LongestPrefixWins, SlashTargetsAreHandled
<1> QED BY <1>1, <1>4, <1>5, TablesKept DEF DInv, tableVars

LEMMA VisitKeyInv ==
  ASSUME DInv, NEW key \in left, VisitKey(key)
  PROVE  DInv' /\ UNCHANGED <<building, regnum, request>>
<1>1. /\ request.pass \in {"handler", "name"} /\ left' = left \ {key}
      /\ UNCHANGED tableVars /\ request' = request /\ handler' = handler
  BY DEF VisitKey
<1>2. /\ request.dispatcher \in Servers
      /\ building = "none" /\ \A d \in Servers : regnum[d] > 0
  BY <1>1 DEF DInv, SearchOK
<1>3. SearchOK'
  <2>1. CASE request.pass = "handler"
    <3> DEFINE map == handlers[request.dispatcher]
    <3>1. Searchable(map) /\ LoopOK(map)
      BY <1>2, <2>1, MapsAreSearchable DEF DInv, SearchOK
    <3>2. IF Closer(key) THEN prefix' = key /\ found' = map[key] ELSE UNCHANGED <<prefix, found>>
      BY <2>1 DEF VisitKey
    <3>3. map' = map
      BY <1>1 DEF tableVars
    <3> HIDE DEF map
    <3>4. LoopOK(map)'
      BY <1>1, <3>1, <3>2, <3>3, TurnInv DEF LoopOK
    <3> QED BY <1>1, <2>1, <3>4 DEF DInv, SearchOK, map, tableVars
  <2>2. CASE request.pass = "name"
    <3>1. Searchable(handlerInfo) /\ LoopOK(handlerInfo)
      BY <1>2, <2>2, MapsAreSearchable DEF DInv, SearchOK
    <3>2. IF Closer(key) THEN prefix' = key /\ found' = handlerInfo[key]
          ELSE UNCHANGED <<prefix, found>>
      BY <2>2 DEF VisitKey
    <3>3. handlerInfo' = handlerInfo
      BY <1>1 DEF tableVars
    <3>4. LoopOK(handlerInfo)'
      BY <1>1, <3>1, <3>2, <3>3, TurnInv DEF LoopOK
    <3> QED BY <1>1, <2>2, <3>4 DEF DInv, SearchOK, tableVars
  <2> QED BY <1>1, <2>1, <2>2
<1>4. LongestPrefixWins' /\ SlashTargetsAreHandled'
  BY <1>1 DEF DInv, LongestPrefixWins, SlashTargetsAreHandled, tableVars
<1> QED BY <1>1, <1>3, <1>4, TablesKept DEF DInv, tableVars

LEMMA GetHandlerNameInv ==
  ASSUME DInv, GetHandlerName
  PROVE  DInv' /\ UNCHANGED <<building, regnum>> /\ request.pass # "idle"
<1> DEFINE map == handlers[request.dispatcher]
<1>1. /\ request.pass = "handler" /\ left = {} /\ found # NoHandler /\ handler' = found
      /\ request' = [pass |-> "name", dispatcher |-> request.dispatcher, path |-> request.path]
      /\ left' = DOMAIN handlerInfo' /\ prefix' = <<>> /\ found' = NoHandler
      /\ UNCHANGED tableVars
  BY DEF GetHandlerName, Search, tableVars
<1>2. /\ request.dispatcher \in Servers /\ request.path \in Seq(Char) \ {<<>>}
      /\ building = "none" /\ \A d \in Servers : regnum[d] > 0
  BY <1>1 DEF DInv, SearchOK
<1>3. SearchOK'
  <2>1. LoopOK(handlerInfo)'
    BY <1>1 DEF LoopOK
  <2> QED BY <1>1, <1>2, <2>1 DEF SearchOK, tableVars
<1>4. LongestPrefixWins'
  <2>1. Searchable(map) /\ LoopOK(map)
    BY <1>1, <1>2, MapsAreSearchable DEF DInv, SearchOK
  <2>2. prefix \in DOMAIN map /\ prefix # <<>> /\ Matches(prefix, request.path)
    BY <1>1, <2>1 DEF LoopOK
  <2>3. /\ found = map[prefix]
        /\ \A k \in DOMAIN map : Matches(k, request.path) => Len(k) <= Len(prefix)
    BY <1>1, <2>1, <2>2, SearchEnds
  <2> QED BY <1>1, <2>2, <2>3 DEF LongestPrefixWins, tableVars
<1>5. SlashTargetsAreHandled'
  BY <1>1 DEF SlashTargetsAreHandled
<1> QED BY <1>1, <1>3, <1>4, <1>5, TablesKept DEF DInv, tableVars

\* A path that begins with a slash has a handler: at least the one of "/".
LEMMA NullHandlerInv ==
  ASSUME DInv, NullHandler
  PROVE  DInv' /\ UNCHANGED <<building, regnum>> /\ request.pass # "idle"
<1> DEFINE map == handlers[request.dispatcher]
<1>1. /\ request.pass = "handler" /\ left = {} /\ found = NoHandler
      /\ request' = [request EXCEPT !.pass = "null"]
      /\ UNCHANGED <<tableVars, left, prefix, found, handler>>
  BY DEF NullHandler
<1>2. /\ request \in [pass : {"handler", "name", "null"}, dispatcher : Servers,
                       path : Seq(Char) \ {<<>>}]
      /\ building = "none" /\ \A d \in Servers : regnum[d] > 0
  BY <1>1 DEF DInv, SearchOK
<1>3. /\ request' \in [pass : {"handler", "name", "null"}, dispatcher : Servers,
                        path : Seq(Char) \ {<<>>}]
      /\ request'.pass = "null" /\ request'.path = request.path
  BY <1>1, <1>2
<1>4. SearchOK'
  BY <1>1, <1>2, <1>3 DEF SearchOK, tableVars
<1>5. request.path[1] # "/"
  <2>1. SUFFICES ASSUME request.path[1] = "/" PROVE FALSE
    OBVIOUS
  <2>2. Searchable(map) /\ LoopOK(map)
    BY <1>1, <1>2, MapsAreSearchable DEF DInv, SearchOK
  <2>3. Root \in DOMAIN map
    BY <2>2 DEF Searchable
  <2>4. Matches(Root, request.path)
    BY <1>2, <2>1, RootMatches
  <2> QED BY <1>1, <2>2, <2>3, <2>4, RootIsPath, SearchEnds
<1>6. LongestPrefixWins' /\ SlashTargetsAreHandled'
  BY <1>2, <1>3, <1>5 DEF LongestPrefixWins, SlashTargetsAreHandled
<1> QED BY <1>1, <1>4, <1>6, TablesKept DEF DInv, tableVars

LEMMA RespondInv ==
  ASSUME DInv, Respond
  PROVE  DInv' /\ UNCHANGED <<building, regnum>> /\ request'.pass = "idle"
<1>1. request'.pass = "idle" /\ UNCHANGED tableVars
  BY DEF Respond, Idle
<1>2. SearchOK' /\ LongestPrefixWins' /\ SlashTargetsAreHandled'
  BY <1>1 DEF SearchOK, LongestPrefixWins, SlashTargetsAreHandled
<1> QED BY <1>1, <1>2, TablesKept DEF DInv, tableVars

-----------------------------------------------------------------------------
(* main().                                                                 *)

LEMMA InitInv == Init => IInv
<1> SUFFICES ASSUME Init PROVE IInv
  OBVIOUS
<1>1. /\ config \in Configs /\ building = "none" /\ todo = <<>>
      /\ handlers = [d \in Servers |-> <<>>] /\ handlerInfo = <<>>
      /\ regnum = [d \in Servers |-> 0] /\ request.pass = "idle" /\ main = "parsed"
  BY DEF Init, DispatcherInit, Idle
<1>2. ConfigOK
  <2>1. config \in Seq(Statement)
    BY <1>1, ConfigsAssumption DEF Statement
  <2>2. todo \in Seq(Statement) /\ Len(todo) = 0 /\ Len(config) \in Nat
    BY <1>1, <2>1
  <2> QED BY <1>1, <2>1, <2>2 DEF ConfigOK
<1>3. TablesOK /\ InfoOK
  <2>1. DOMAIN <<>> = {}
    OBVIOUS
  <2> QED BY <1>1, <2>1 DEF TablesOK, InfoOK
<1>4. SearchOK
  BY <1>1 DEF SearchOK
<1>5. LongestPrefixWins /\ SlashTargetsAreHandled
  BY <1>1 DEF LongestPrefixWins, SlashTargetsAreHandled
<1>6. PhaseOK
  BY <1>1 DEF PhaseOK, Servers
<1> QED BY <1>2, <1>3, <1>4, <1>5, <1>6 DEF IInv, DInv

\* Whatever leaves the Dispatchers alone.
LEMMA DispatchersKept ==
  ASSUME DInv, UNCHANGED dispatcherVars
  PROVE  DInv' /\ UNCHANGED <<building, regnum, request>>
<1>1. /\ UNCHANGED tableVars /\ UNCHANGED <<request, left, prefix, found, handler>>
      /\ UNCHANGED <<handlers, handlerInfo, building, regnum>>
  BY DEF dispatcherVars, tableVars, searchVars
<1>2. SearchOK' /\ LongestPrefixWins' /\ SlashTargetsAreHandled'
  BY <1>1 DEF DInv, SearchOK, LoopOK, LongestPrefixWins, SlashTargetsAreHandled
<1> QED BY <1>1, <1>2, TablesKept DEF DInv

LEMMA StartInv == IInv /\ Start => IInv'
<1> SUFFICES ASSUME IInv, Start PROVE IInv'
  OBVIOUS
<1> USE DEF IInv
<1>1. CASE GetPorts
  BY <1>1, DispatchersKept DEF GetPorts, Advance, Binding, PhaseOK
<1>2. CASE GetPortsFails
  BY <1>2, DispatchersKept DEF GetPortsFails, End, PhaseOK, Servers
<1>3. CASE BindHttp
  <2>1. /\ main = "bind http" /\ main' = "build http" /\ Construct("http")
        /\ "http" \in Servers /\ "https" \in Servers
    BY <1>3 DEF BindHttp, Bind, Binding, Building, Advance, Servers
  <2>2. building = "none" /\ regnum["http"] = 0 /\ request.pass = "idle"
    BY <2>1 DEF PhaseOK
  <2>3. /\ DInv' /\ building' = "http" /\ request' = request /\ regnum'["http"] # 0
        /\ \A c \in Servers \ {"http"} : regnum'[c] = regnum[c]
    BY <2>1, <2>2, ConstructInv
  <2>4. regnum'["http"] # 0 /\ regnum'["https"] = regnum["https"]
    BY <2>1, <2>3
  <2>5. PhaseOK'
    <3>1. building' = "http" /\ request' = request
      BY <2>3
    <3> QED BY <2>1, <2>2, <2>4, <3>1 DEF PhaseOK
  <2> QED BY <2>3, <2>5
<1>4. CASE InitHandlersOf("http") \/ InitHandlersOf("https")
  <2>1. InitHandlers /\ main' = main
    BY <1>4 DEF InitHandlersOf, startupVars
  <2>2. /\ DInv' /\ building' = building /\ request' = request
        /\ regnum' \in [Servers -> Nat]
        /\ \A d \in Servers : (regnum'[d] > 0) = (regnum[d] > 0)
    BY <2>1, InitHandlersInv
  <2>3. /\ (regnum'["http"] = 0) <=> (regnum["http"] = 0)
        /\ (regnum'["https"] = 0) <=> (regnum["https"] = 0)
    <3>1. \A d \in Servers : /\ regnum[d] \in Nat /\ regnum'[d] \in Nat
                             /\ (regnum'[d] = 0) <=> (regnum[d] = 0)
      BY <2>2 DEF DInv, TablesOK
    <3> QED BY <3>1 DEF Servers
  <2>4. PhaseOK'
    <3>1. building' = building /\ request' = request
      BY <2>2
    <3> QED BY <2>1, <2>3, <3>1 DEF PhaseOK
  <2> QED BY <2>2, <2>4
<1>5. CASE Constructed("http", Binding("https"))
  <2>1. /\ main = "build http" /\ main' = "bind https" /\ Built("http")
        /\ "http" \in Servers
    BY <1>5 DEF Constructed, Binding, Building, Advance, Servers
  <2>2. DInv' /\ building' = "none" /\ UNCHANGED <<request, regnum>>
    BY <2>1, BuiltInv
  <2> QED BY <2>1, <2>2 DEF PhaseOK
<1>6. CASE BindHttps
  BY <1>6, DispatchersKept DEF BindHttps, Bind, Binding, Advance, PhaseOK
<1>7. CASE LoadKeys
  <2>1. /\ main = "load keys" /\ main' = "build https" /\ Construct("https")
        /\ "http" \in Servers /\ "https" \in Servers
    BY <1>7 DEF LoadKeys, Building, Advance, Servers
  <2>2. building = "none" /\ regnum["https"] = 0 /\ request.pass = "idle"
    BY <2>1 DEF PhaseOK
  <2>3. /\ DInv' /\ building' = "https" /\ request' = request /\ regnum'["https"] # 0
        /\ \A c \in Servers \ {"https"} : regnum'[c] = regnum[c]
    BY <2>1, <2>2, ConstructInv
  <2>4. regnum'["https"] # 0 /\ regnum'["http"] = regnum["http"]
    BY <2>1, <2>3
  <2>5. PhaseOK'
    <3>1. building' = "https" /\ request' = request
      BY <2>3
    <3> QED BY <2>1, <2>2, <2>4, <3>1 DEF PhaseOK
  <2> QED BY <2>3, <2>5
<1>8. CASE Constructed("https", "run")
  <2>1. /\ main = "build https" /\ main' = "run" /\ Built("https")
        /\ "https" \in Servers
    BY <1>8 DEF Constructed, Building, Advance, Servers
  <2>2. DInv' /\ building' = "none" /\ UNCHANGED <<request, regnum>>
    BY <2>1, BuiltInv
  <2> QED BY <2>1, <2>2 DEF PhaseOK
<1>9. CASE RunServices
  BY <1>9, DispatchersKept DEF RunServices, Advance, PhaseOK
<1>10. CASE StartFails
  BY <1>10, DispatchersKept DEF StartFails, End, PhaseOK, Binding, DInv, SearchOK
<1>11. CASE ConstructorCrashes
  BY <1>11, DispatchersKept DEF ConstructorCrashes, End, PhaseOK, DInv, SearchOK
<1> QED BY <1>1, <1>2, <1>3, <1>4, <1>5, <1>6, <1>7, <1>8, <1>9, <1>10, <1>11 DEF Start

LEMMA LookupInv == IInv /\ Lookup => IInv'
<1> SUFFICES ASSUME IInv, Lookup PROVE IInv'
  OBVIOUS
<1> USE DEF IInv
<1>1. "http" \in Servers /\ "https" \in Servers
  BY DEF Servers
<1>2. ASSUME NEW d \in Servers, NEW target \in Targets,
             Serving(GetRequestHandler(d, target))
      PROVE  IInv'
  <2>1. /\ main = "serving" /\ main' = main /\ GetRequestHandler(d, target)
        /\ building = "none" /\ \A c \in Servers : regnum[c] > 0
    <3>1. \A c \in Servers : regnum[c] \in Nat /\ regnum[c] # 0
      BY <1>2 DEF Serving, PhaseOK, Servers, DInv, TablesOK
    <3>2. \A c \in Servers : regnum[c] > 0
      BY <3>1
    <3> QED BY <1>2, <3>2 DEF Serving, startupVars, PhaseOK
  <2>2. DInv' /\ UNCHANGED <<building, regnum>>
    BY <2>1, GetRequestHandlerInv
  <2> QED BY <1>1, <2>1, <2>2 DEF PhaseOK
<1>3. ASSUME NEW key \in left, Serving(VisitKey(key)) PROVE IInv'
  <2>1. main' = main /\ VisitKey(key)
    BY <1>3 DEF Serving, startupVars
  <2>2. DInv' /\ UNCHANGED <<building, regnum, request>>
    BY <2>1, VisitKeyInv
  <2> QED BY <2>1, <2>2 DEF PhaseOK
<1>4. CASE Serving(GetHandlerName)
  <2>1. main = "serving" /\ main' = main /\ GetHandlerName
    BY <1>4 DEF Serving, startupVars
  <2>2. DInv' /\ UNCHANGED <<building, regnum>>
    BY <2>1, GetHandlerNameInv
  <2> QED BY <2>1, <2>2 DEF PhaseOK
<1>5. CASE Serving(Respond)
  <2>1. main = "serving" /\ main' = main /\ Respond
    BY <1>5 DEF Serving, startupVars
  <2>2. DInv' /\ UNCHANGED <<building, regnum>>
    BY <2>1, RespondInv
  <2> QED BY <2>1, <2>2 DEF PhaseOK
<1>6. CASE CallNull
  <2>1. main = "serving" /\ main' = "crashed" /\ NullHandler
    BY <1>6 DEF CallNull
  <2>2. DInv' /\ UNCHANGED <<building, regnum>>
    BY <2>1, NullHandlerInv
  <2> QED BY <2>1, <2>2 DEF PhaseOK
<1> QED BY <1>2, <1>3, <1>4, <1>5, <1>6 DEF Lookup

LEMMA Invariance == Spec => []IInv
<1>1. IInv /\ UNCHANGED vars => IInv'
  <2> SUFFICES ASSUME IInv, UNCHANGED vars PROVE IInv'
    OBVIOUS
  <2>1. UNCHANGED dispatcherVars /\ main' = main
    BY DEF vars, startupVars
  <2> QED BY <2>1, DispatchersKept DEF IInv, PhaseOK
<1>2. IInv /\ [Next]_vars => IInv'
  BY <1>1, StartInv, LookupInv DEF Next
<1> QED BY <1>2, InitInv, PTL DEF Spec

-----------------------------------------------------------------------------
\* The loop of get_request_handler, in whatever order the map is iterated,
\* finds the handler of the longest registered prefix of the target.
THEOREM SearchFindsLongest == Spec => []LongestPrefixWins
<1>1. IInv => LongestPrefixWins
  BY DEF IInv, DInv
<1> QED BY <1>1, Invariance, PTL

\* send_response calls through a null pointer for no target with a slash at its
\* beginning, whatever the configuration.
THEOREM SlashesAreHandled == Spec => []SlashTargetsAreHandled
<1>1. IInv => SlashTargetsAreHandled
  BY DEF IInv, DInv
<1> QED BY <1>1, Invariance, PTL

\* Both Dispatchers have the handlers that the configuration asks for: each path
\* belongs to the first statement that names it, but "/" to the 404 handler.
THEOREM TablesMatchConfig == Spec => []HandlersMatchConfig
<1>1. IInv => HandlersMatchConfig
  <2> SUFFICES ASSUME IInv, IsBuilt, NEW d \in Servers
               PROVE  /\ DOMAIN handlers[d] =
                           {Root} \cup {Strip(config[i].path) : i \in {j \in DOMAIN config :
                                          Claims(Strip(config[j].path)) # {}}}
                      /\ \A p \in DOMAIN handlers[d] \ {Root} :
                           \E i \in Claims(p) : /\ handlers[d][p] = config[i].type
                                                /\ \A j \in Claims(p) : i <= j
                      /\ handlers[d][Root] = "404Handler"
                      /\ regnum[d] = Cardinality(DOMAIN handlers[d])
    BY DEF HandlersMatchConfig
  <2>1. /\ IsTable(handlers[d], Len(config)) /\ DOMAIN config = 1 .. Len(config)
        /\ regnum[d] = Cardinality(DOMAIN handlers[d])
    BY DEF IInv, DInv, ConfigOK, TablesOK, IsBuilt, Read, Servers
  <2>2. \A i, p : i \in Claims(p) <=> i \in 1 .. Len(config) /\ Asks(i, p)
    BY ClaimsAreAsked DEF IInv, DInv
  <2>3. \A p \in DOMAIN handlers[d] \ {Root} :
          \E i \in Claims(p) : /\ handlers[d][p] = config[i].type
                               /\ \A j \in Claims(p) : i <= j
    BY <2>1, <2>2 DEF IsTable
  <2>4. DOMAIN handlers[d] \subseteq
          {Root} \cup {Strip(config[i].path) : i \in {j \in DOMAIN config :
                         Claims(Strip(config[j].path)) # {}}}
    <3>1. SUFFICES ASSUME NEW p \in DOMAIN handlers[d], p # Root
                   PROVE  \E i \in DOMAIN config :
                            Claims(Strip(config[i].path)) # {} /\ p = Strip(config[i].path)
      OBVIOUS
    <3>2. PICK i \in Claims(p) : TRUE
      BY <2>3, <3>1
    <3>3. i \in DOMAIN config /\ p = Strip(config[i].path)
      BY <2>1, <2>2, <3>2 DEF Asks
    <3> QED BY <3>2, <3>3
  <2>5. {Root} \cup {Strip(config[i].path) : i \in {j \in DOMAIN config :
                       Claims(Strip(config[j].path)) # {}}} \subseteq DOMAIN handlers[d]
    <3>1. ASSUME NEW i \in DOMAIN config, Claims(Strip(config[i].path)) # {}
          PROVE  Strip(config[i].path) \in DOMAIN handlers[d]
      <4>1. PICK j \in Claims(Strip(config[i].path)) : TRUE
        BY <3>1
      <4> QED BY <2>1, <2>2, <4>1 DEF IsTable
    <3>2. Root \in DOMAIN handlers[d]
      BY <2>1 DEF IsTable
    <3> QED BY <3>1, <3>2
  <2> QED BY <2>1, <2>3, <2>4, <2>5 DEF IsTable
<1> QED BY <1>1, Invariance, PTL

\* The name that get_handler_name finds in the other map, after the request has
\* been handled, is that of the handler: two prefixes of one path that are of
\* the same length are the same.
THEOREM NamesMatchHandlers == Spec => []NameMatchesHandler
<1>1. IInv => NameMatchesHandler
  <2> SUFFICES ASSUME IInv, request.pass = "name", left = {} PROVE found = handler
    BY DEF NameMatchesHandler
  <2> DEFINE map == handlers[request.dispatcher]
  <2>1. /\ request.dispatcher \in Servers
        /\ building = "none" /\ \A d \in Servers : regnum[d] > 0
        /\ LoopOK(handlerInfo)
    BY DEF IInv, DInv, SearchOK
  <2>2. Searchable(handlerInfo) /\ DOMAIN handlerInfo = DOMAIN map
    BY <2>1, MapsAreSearchable, TablesAgree DEF IInv
  <2>3. PICK k \in DOMAIN map :
          /\ k # <<>> /\ Matches(k, request.path) /\ handler = map[k]
          /\ \A m \in DOMAIN map : Matches(m, request.path) => Len(m) <= Len(k)
    BY DEF IInv, DInv, LongestPrefixWins
  <2>4. /\ prefix \in DOMAIN map /\ found = handlerInfo[prefix]
        /\ Matches(prefix, request.path) /\ Len(k) <= Len(prefix)
    BY <2>1, <2>2, <2>3, SearchEnds
  <2>5. Len(prefix) \in Nat /\ Len(k) \in Nat /\ Len(prefix) <= Len(k)
    BY <2>2, <2>3, <2>4 DEF Searchable
  <2>6. Len(prefix) = Len(k)
    BY <2>4, <2>5
  <2>7. prefix = k
    BY <2>3, <2>4, <2>6 DEF Matches
  <2>8. handlerInfo[k] = map[k]
    BY <2>1, <2>3 DEF IInv, DInv, InfoOK
  <2> QED BY <2>3, <2>4, <2>7, <2>8
<1> QED BY <1>1, Invariance, PTL
-----------------------------------------------------------------------------
(* The ports and the keys.                                                 *)

\* Of natural numbers, one is the smallest.
LEMMA SmallestExists ==
  ASSUME NEW S \in SUBSET Nat, S # {}
  PROVE  \E n \in S : \A m \in S : n <= m
<1> DEFINE R == {p \in Nat \X Nat : p[1] < p[2]}
<1>1. IsWellFoundedOn(R, Nat)
  BY NatLessThanWellFounded DEF OpToRel
<1>2. PICK n \in S : \A m \in S : <<m, n>> \notin R
  <2> HIDE DEF R
  <2> QED BY <1>1, WFMin
<1>3. ASSUME NEW m \in S PROVE n <= m
  <2>1. ~(m < n)
    BY <1>2
  <2> QED BY <2>1
<1> QED BY <1>3

LEMMA SmallMod == \A n \in Int : n >= 0 /\ n < 65536 => n % 65536 = n
  BY SMT
LEMMA ShiftMod == \A n \in Int : n - 65536 \in Int /\ (n - 65536) % 65536 = n % 65536
  BY Z3

\* A port that went through a short is the one that was written.
LEMMA PortSurvivesShort ==
  ASSUME NEW n \in Nat, n <= 65535
  PROVE  Unsigned(ToShort(n)) = n
<1>1. CASE n <= 32767
  <2>1. (n + 32768) % 65536 = n + 32768
    <3>1. n + 32768 \in Int /\ n + 32768 >= 0 /\ n + 32768 < 65536
      BY <1>1
    <3> QED BY <3>1, SmallMod
  <2>2. ToShort(n) = n
    BY <2>1 DEF ToShort
  <2>3. n % 65536 = n
    BY SmallMod
  <2> QED BY <2>2, <2>3 DEF Unsigned
<1>2. CASE n > 32767
  <2>1. (n + 32768) % 65536 = n - 32768
    <3> DEFINE m == n + 32768
    <3>1. m \in Int /\ m - 65536 = n - 32768
      OBVIOUS
    <3>2. n - 32768 \in Int /\ n - 32768 >= 0 /\ n - 32768 < 65536
      BY <1>2
    <3>3. (n - 32768) % 65536 = n - 32768
      BY <3>2, SmallMod
    <3> HIDE DEF m
    <3>4. (m - 65536) % 65536 = m % 65536
      BY <3>1, ShiftMod
    <3>5. m % 65536 = n - 32768
      BY <3>1, <3>3, <3>4
    <3> QED BY <3>5 DEF m
  <2>2. ToShort(n) = n - 65536
    BY <2>1 DEF ToShort
  <2>3. (n - 65536) % 65536 = n
    BY SmallMod, ShiftMod
  <2> QED BY <2>2, <2>3 DEF Unsigned
<1> QED BY <1>1, <1>2

\* The numbers that GetPortNumber reads are natural.
LEMMA WrittenNumber ==
  ASSUME config \in Configs, NEW keyword, Mentioning(keyword) # {}, config \in Seq(Statement)
  PROVE  Written(keyword).kind = "number" => Written(keyword).n \in Nat
<1> DEFINE stmt == config[First(Mentioning(keyword))]
<1>1. First(Mentioning(keyword)) \in Mentioning(keyword)
  <2>1. Mentioning(keyword) \in SUBSET Nat
    BY DEF Mentioning
  <2> QED BY <2>1, SmallestExists DEF First
<1>2. /\ First(Mentioning(keyword)) \in DOMAIN config
      /\ Mentions(stmt, keyword) # {}
  BY <1>1 DEF Mentioning
<1>3. /\ stmt.text \in Seq({stmt.text[w] : w \in DOMAIN stmt.text})
      /\ \A w \in DOMAIN stmt.text : stmt.text[w].says.kind = "number" => stmt.text[w].says.n \in Nat
  <2>1. \A k \in DOMAIN config :
          /\ config[k].text \in Seq({config[k].text[w] : w \in DOMAIN config[k].text})
          /\ \A w \in DOMAIN config[k].text :
               config[k].text[w].says.kind = "number" => config[k].text[w].says.n \in Nat
    BY Zenon, StartupAssumption
  <2> QED BY <1>2, <2>1
<1> HIDE DEF stmt
<1>4. Mentions(stmt, keyword) \in SUBSET Nat /\ Mentions(stmt, keyword) \subseteq 1 .. Len(stmt.text)
  BY <1>3 DEF Mentions
<1> DEFINE i == CHOOSE i \in Mentions(stmt, keyword) : \A j \in Mentions(stmt, keyword) : i <= j
<1>5. i \in Mentions(stmt, keyword)
  BY <1>2, <1>4, SmallestExists
<1>6. After(stmt, keyword) =
        CASE stmt.text[i].says # Nothing -> stmt.text[i].says
          [] stmt.text[i].says = Nothing /\ i < Len(stmt.text) -> stmt.text[i + 1].says
          [] OTHER -> Nothing
  BY DEF After
<1> HIDE DEF i
<1>7. i \in DOMAIN stmt.text /\ (i < Len(stmt.text) => i + 1 \in DOMAIN stmt.text)
  BY <1>3, <1>4, <1>5
<1>8. \/ After(stmt, keyword) = Nothing
      \/ \E w \in DOMAIN stmt.text : After(stmt, keyword) = stmt.text[w].says
  BY <1>6, <1>7
<1>9. Nothing.kind # "number"
  BY DEF Nothing
<1>10. Written(keyword) = After(stmt, keyword)
  BY DEF Written, stmt
<1> QED BY <1>3, <1>8, <1>9, <1>10

\* The ports that a server may be on for the short that main() has for it.
Candidates(s) == IF Unsigned(port[s]) = 0 THEN Ephemeral ELSE {Unsigned(port[s])}

HasHttpPort == {"build http", "bind https", "load keys", "build https", "run", "serving"}
HasHttpsPort == {"load keys", "build https", "run", "serving"}
HasKeys == {"build https", "run", "serving"}

\* What main() has read of the configuration by the time it has come to a place.
SettingsOK ==
  /\ env \in Environments(config)
  /\ listening = [s \in Servers |-> listening[s]]
  /\ main \in {"bind http"} \cup HasHttpPort =>
       /\ PortNumber("listen").result = "found"
       /\ port["http"] = ToShort(PortNumber("listen").n)
       /\ PortNumber("ssl-port").result = "found" =>
            port["https"] = ToShort(PortNumber("ssl-port").n)
  /\ main \in HasHttpPort => listening["http"] \in Candidates("http")
  /\ main \in HasHttpsPort =>
       listening["https"] \in Candidates("https") /\ listening["https"] # listening["http"]
  /\ main \in HasKeys => loaded = KeyFiles /\ Usable(KeyFiles)

LEMMA ConfigKept == Next => config' = config
<1> USE DEF dispatcherVars, tableVars, searchVars, startupVars
<1>1. Start => config' = config
  BY DEF Start, GetPorts, GetPortsFails, End, BindHttp, Construct, InitHandlersOf, InitHandlers,
         Constructed, Built, BindHttps, LoadKeys, RunServices, StartFails, ConstructorCrashes
<1>2. Lookup => config' = config
  BY DEF Lookup, Serving, GetRequestHandler, VisitKey, GetHandlerName, Respond, CallNull,
         NullHandler
<1> QED BY <1>1, <1>2 DEF Next

\* What is read of a configuration that does not change does not change.
LEMMA ReadingKept ==
  ASSUME config' = config
  PROVE  /\ KeyFiles' = KeyFiles
         /\ PortNumber("listen")' = PortNumber("listen")
         /\ PortNumber("ssl-port")' = PortNumber("ssl-port")
  BY DEF KeyFiles, KeyFile, PortNumber, Mentioning

LEMMA SettingsKept ==
  ASSUME SettingsOK, config' = config,
         main' = main \/ main' \notin {"bind http"} \cup HasHttpPort,
         UNCHANGED <<env, port, loaded>>,
         listening' = listening \/ listening' = [s \in Servers |-> NoPort],
         main' = main => listening' = listening
  PROVE  SettingsOK'
<1>1. main' \notin HasHttpsPort \/ main' = main
  BY DEF HasHttpPort, HasHttpsPort
<1>2. main' \notin HasKeys \/ main' = main
  BY DEF HasHttpPort, HasKeys
<1>3. listening' = [s \in Servers |-> listening'[s]]
  BY DEF SettingsOK
<1>4. Candidates("http")' = Candidates("http") /\ Candidates("https")' = Candidates("https")
  BY DEF Candidates
<1>5. CASE main' = main
  <2>1. Usable(KeyFiles)' <=> Usable(KeyFiles)
    BY ReadingKept DEF Usable
  <2> QED BY <1>3, <1>4, <1>5, <2>1, ReadingKept DEF SettingsOK
<1>6. CASE main' # main
  BY <1>1, <1>2, <1>3, <1>6 DEF SettingsOK
<1> QED BY <1>5, <1>6

\* A server that is bound is on one of its candidates, which the other has not.
LEMMA BindGivesCandidate ==
  ASSUME SettingsOK, NEW s \in Servers, Bind(s)
  PROVE  /\ listening' = [t \in Servers |-> listening'[t]]
         /\ listening'[s] \in Candidates(s)'
         /\ \A t \in Servers \ {s} : listening'[t] = listening[t] /\ listening'[s] # listening[t]
         /\ UNCHANGED <<port, loaded>>
<1>1. PICK p \in Bindable(s) : listening' = [listening EXCEPT ![s] = p]
  BY DEF Bind
<1>2. p \in Candidates(s) /\ \A t \in Servers : p # listening[t]
  BY <1>1 DEF Bindable, Candidates
<1>3. listening = [t \in Servers |-> listening[t]] /\ UNCHANGED <<port, loaded>>
  BY DEF SettingsOK, Bind
<1>4. /\ listening' = [t \in Servers |-> listening'[t]]
      /\ listening'[s] = p /\ \A t \in Servers \ {s} : listening'[t] = listening[t]
  BY <1>1, <1>3
<1>5. Candidates(s)' = Candidates(s)
  BY <1>3 DEF Candidates
<1> QED BY <1>2, <1>3, <1>4, <1>5

LEMMA SettingsInit == Init => SettingsOK
  BY DEF Init, SettingsOK, HasHttpPort, HasHttpsPort, HasKeys

LEMMA SettingsInv == SettingsOK /\ [Next]_vars => SettingsOK'
<1> SUFFICES ASSUME SettingsOK, [Next]_vars PROVE SettingsOK'
  OBVIOUS
<1> USE DEF HasHttpPort
<1>1. config' = config
  BY ConfigKept DEF vars, dispatcherVars, tableVars
<1>2. /\ KeyFiles' = KeyFiles
      /\ PortNumber("listen")' = PortNumber("listen")
      /\ PortNumber("ssl-port")' = PortNumber("ssl-port")
  BY <1>1, ReadingKept
<1>3. "http" \in Servers /\ "https" \in Servers
  BY DEF Servers
<1>4. ASSUME UNCHANGED startupVars PROVE SettingsOK'
  <2>1. UNCHANGED <<env, main, port, listening, loaded>>
    BY <1>4 DEF startupVars
  <2> QED BY <1>1, <2>1, SettingsKept
<1>5. ASSUME NEW how \in {"exited", "crashed"}, NEW code, End(how, code) PROVE SettingsOK'
  <2>1. main' = how /\ UNCHANGED <<env, port, loaded>> /\ listening' = [s \in Servers |-> NoPort]
    BY <1>5 DEF End
  <2>2. main' \notin {"bind http"} \cup HasHttpPort
    BY <2>1
  <2>3. main' \notin HasHttpsPort /\ main' \notin HasKeys
    BY <2>1 DEF HasHttpsPort, HasKeys
  <2> QED BY <1>1, <2>1, <2>2, <2>3 DEF SettingsOK
<1>6. CASE GetPorts
  <2>1. /\ main' = "bind http" /\ UNCHANGED <<env, listening>>
        /\ PortNumber("listen").result = "found"
        /\ port'["http"] = ToShort(PortNumber("listen").n)
        /\ PortNumber("ssl-port").result = "found" =>
             port'["https"] = ToShort(PortNumber("ssl-port").n)
    <3>1. PICK ssl : /\ port' = [http |-> ToShort(PortNumber("listen").n), https |-> ssl]
                     /\ PortNumber("ssl-port").result = "found" =>
                          ssl = ToShort(PortNumber("ssl-port").n)
      <4>1. \E ssl \in IF PortNumber("ssl-port").result = "found"
                         THEN {ToShort(PortNumber("ssl-port").n)} ELSE Garbage :
              port' = [http |-> ToShort(PortNumber("listen").n), https |-> ssl]
        BY <1>6, Zenon DEF GetPorts
      <4> QED BY <4>1, Zenon
    <3>2. port'["http"] = ToShort(PortNumber("listen").n) /\ port'["https"] = ssl
      BY <3>1
    <3>3. /\ main' = "bind http" /\ UNCHANGED <<env, listening>>
          /\ PortNumber("listen").result = "found"
      <4>1. Advance(Binding("http")) /\ listening' = listening
        BY <1>6, Zenon DEF GetPorts
      <4>2. PortNumber("listen").result = "found"
        BY <1>6, Zenon DEF GetPorts
      <4> QED BY <4>1, <4>2 DEF Advance, Binding
    <3> QED BY <3>1, <3>2, <3>3
  <2> QED BY <1>1, <1>2, <2>1 DEF SettingsOK, HasHttpsPort, HasKeys
<1>7. CASE GetPortsFails
  BY <1>5, <1>7 DEF GetPortsFails
<1>8. CASE BindHttp
  <2>1. main = "bind http" /\ main' = "build http" /\ Bind("http") /\ env' = env
    BY <1>8 DEF BindHttp, Bind, Binding, Building, Advance
  <2>2. /\ listening' = [t \in Servers |-> listening'[t]]
        /\ listening'["http"] \in Candidates("http")' /\ UNCHANGED <<port, loaded>>
    BY <1>3, <2>1, BindGivesCandidate
  <2> QED BY <1>1, <1>2, <2>1, <2>2 DEF SettingsOK, HasHttpsPort, HasKeys
<1>9. CASE BindHttps
  <2>1. main = "bind https" /\ main' = "load keys" /\ Bind("https") /\ env' = env
    BY <1>9 DEF BindHttps, Bind, Binding, Advance
  <2>2. /\ listening' = [t \in Servers |-> listening'[t]]
        /\ listening'["https"] \in Candidates("https")'
        /\ \A t \in Servers \ {"https"} :
             listening'[t] = listening[t] /\ listening'["https"] # listening[t]
        /\ UNCHANGED <<port, loaded>>
    BY <1>3, <2>1, BindGivesCandidate
  <2>3. listening'["http"] = listening["http"] /\ listening'["https"] # listening'["http"]
    BY <1>3, <2>2
  <2>4. Candidates("http")' = Candidates("http")
    BY <2>2 DEF Candidates
  <2> QED BY <1>1, <1>2, <2>1, <2>2, <2>3, <2>4 DEF SettingsOK, HasKeys
<1>10. CASE LoadKeys
  <2>1. /\ main = "load keys" /\ main' = "build https"
        /\ Usable(KeyFiles)
        /\ loaded' = KeyFiles /\ UNCHANGED <<env, port, listening>>
    BY <1>10 DEF LoadKeys, Advance, Building
  <2>2. Candidates("http")' = Candidates("http") /\ Candidates("https")' = Candidates("https")
    BY <2>1 DEF Candidates
  <2>3. loaded' = KeyFiles' /\ Usable(KeyFiles)'
    BY <1>2, <2>1 DEF Usable
  <2>4. main \in HasHttpPort /\ main \in HasHttpsPort
    BY <2>1 DEF HasHttpsPort
  <2>5. /\ listening["http"] \in Candidates("http")
        /\ listening["https"] \in Candidates("https") /\ listening["https"] # listening["http"]
        /\ listening = [s \in Servers |-> listening[s]] /\ env \in Environments(config)
        /\ PortNumber("listen").result = "found"
        /\ port["http"] = ToShort(PortNumber("listen").n)
        /\ PortNumber("ssl-port").result = "found" =>
             port["https"] = ToShort(PortNumber("ssl-port").n)
    BY <2>4 DEF SettingsOK
  <2> HIDE DEF HasHttpPort
  <2> QED BY <1>1, <1>2, <2>1, <2>2, <2>3, <2>5, Zenon DEF SettingsOK
<1>11. CASE \/ Constructed("http", Binding("https")) \/ Constructed("https", "run")
            \/ RunServices
  <2>1. /\ \/ main = "build http" /\ main' = "bind https"
           \/ main = "build https" /\ main' = "run"
           \/ main = "run" /\ main' = "serving"
        /\ UNCHANGED <<env, port, listening, loaded>>
    BY <1>11 DEF Constructed, RunServices, Advance, Binding, Building
  <2>2. Candidates("http")' = Candidates("http") /\ Candidates("https")' = Candidates("https")
    BY <2>1 DEF Candidates
  <2>3. Usable(KeyFiles)' <=> Usable(KeyFiles)
    BY <1>2, <2>1 DEF Usable
  <2> QED BY <1>1, <1>2, <2>1, <2>2, <2>3 DEF SettingsOK, HasHttpsPort, HasKeys
<1>12. CASE StartFails
  BY <1>5, <1>12 DEF StartFails
<1>13. CASE ConstructorCrashes
  BY <1>5, <1>13 DEF ConstructorCrashes
<1>14. CASE InitHandlersOf("http") \/ InitHandlersOf("https")
  BY <1>4, <1>14 DEF InitHandlersOf
<1>15. CASE Lookup
  <2>1. CASE CallNull
    <3>1. main' = "crashed" /\ UNCHANGED <<env, port, loaded>> /\ listening' = [s \in Servers |-> NoPort]
      BY <2>1 DEF CallNull
    <3>2. main' \notin {"bind http"} \cup HasHttpPort
      BY <3>1
    <3>3. main' \notin HasHttpsPort /\ main' \notin HasKeys
      BY <3>1 DEF HasHttpsPort, HasKeys
    <3> QED BY <1>1, <3>1, <3>2, <3>3 DEF SettingsOK
  <2> QED BY <1>4, <1>15, <2>1 DEF Lookup, Serving
<1>16. CASE UNCHANGED vars
  BY <1>4, <1>16 DEF vars
<1> QED BY <1>6, <1>7, <1>8, <1>9, <1>10, <1>11, <1>12, <1>13, <1>14, <1>15, <1>16
        DEF Next, Start

LEMMA SettingsAlways == Spec => []SettingsOK
  BY SettingsInit, SettingsInv, PTL DEF Spec

\* A server is on the port that the configuration gives it, through the short
\* that main() keeps it in: 16 bits are enough for a port, whatever their sign.
THEOREM PortsAsWritten == Spec => []PortsAreHonoured
<1>1. IInv /\ SettingsOK => PortsAreHonoured
  <2> SUFFICES ASSUME IInv, SettingsOK, main = "serving" PROVE PortsAreHonoured
    BY DEF PortsAreHonoured
  <2>1. config \in Configs /\ config \in Seq(Statement)
    BY DEF IInv, DInv, ConfigOK
  <2>2. /\ PortNumber("listen").result = "found"
        /\ port["http"] = ToShort(PortNumber("listen").n)
        /\ PortNumber("ssl-port").result = "found" =>
             port["https"] = ToShort(PortNumber("ssl-port").n)
        /\ listening["http"] \in Candidates("http")
        /\ listening["https"] \in Candidates("https")
        /\ listening["https"] # listening["http"]
    BY DEF SettingsOK, HasHttpPort, HasHttpsPort
  <2>3. ASSUME NEW keyword, Mentioning(keyword) # {}, IsPort(Written(keyword))
        PROVE  /\ PortNumber(keyword).result = "found"
               /\ PortNumber(keyword).n = Written(keyword).n
               /\ Unsigned(ToShort(Written(keyword).n)) = Written(keyword).n
    <3>1. Written(keyword).kind = "number" /\ Written(keyword).n <= 65535
      BY <2>3 DEF IsPort
    <3>2. Written(keyword).n \in Nat
      BY <2>1, <2>3, <3>1, WrittenNumber
    <3>3. PortNumber(keyword) = [result |-> "found", n |-> Written(keyword).n]
      BY <2>3, <3>1 DEF PortNumber, Written
    <3> QED BY <3>1, <3>2, <3>3, PortSurvivesShort
  <2>4. Mentioning("listen") # {} /\ IsPort(Written("listen"))
    BY <2>2 DEF PortNumber, Written, IsPort
  <2>5. listening["http"] \in IF Written("listen").n = 0 THEN Ephemeral ELSE {Written("listen").n}
    BY <2>2, <2>3, <2>4 DEF Candidates
  <2>6. Mentioning("ssl-port") # {} /\ IsPort(Written("ssl-port")) =>
          listening["https"] \in IF Written("ssl-port").n = 0 THEN Ephemeral
                                 ELSE {Written("ssl-port").n}
    BY <2>2, <2>3 DEF Candidates
  <2>7. KeywordOf["http"] = "listen" /\ KeywordOf["https"] = "ssl-port"
    BY DEF KeywordOf
  <2> QED BY <2>2, <2>4, <2>5, <2>6, <2>7 DEF PortsAreHonoured, Servers
<1> QED BY <1>1, Invariance, SettingsAlways, PTL

\* The HTTPS server never serves with other files than those that the last key
\* statements of the configuration name.
THEOREM KeysAsNamed == Spec => []KeysAreThoseNamed
<1>1. IInv /\ SettingsOK => KeysAreThoseNamed
  <2> SUFFICES ASSUME IInv, SettingsOK, main = "serving" PROVE KeysAreThoseNamed
    BY DEF KeysAreThoseNamed
  <2>1. config \in Configs /\ config \in Seq(Statement) /\ env \in Environments(config)
    BY DEF IInv, DInv, ConfigOK, SettingsOK
  <2>2. "" \notin env.certificates /\ \A p \in env.pairs : p[1] # ""
    <3>1. \A e \in Environments(config) : "" \notin e.certificates /\ \A p \in e.pairs : p[1] # ""
      BY <2>1, Zenon, StartupAssumption
    <3> QED BY <2>1, <3>1
  <2>3. loaded = KeyFiles /\ Usable(KeyFiles)
    <3>1. main \in HasKeys
      BY DEF HasKeys
    <3> QED BY <3>1, Zenon DEF SettingsOK
  <2>4. ASSUME NEW keyword, KeyFile(keyword) # ""
        PROVE  \E i \in Mentioning(keyword) :
                 /\ \A j \in Mentioning(keyword) : j <= i
                 /\ After(config[i], keyword).kind = "path"
                 /\ KeyFile(keyword) = After(config[i], keyword).name
    <3> DEFINE i == Last(Mentioning(keyword))
    <3>1. Mentioning(keyword) # {}
      BY <2>4 DEF KeyFile
    <3>2. Mentioning(keyword) \in SUBSET (0 .. Len(config)) /\ Len(config) \in Nat
      BY <2>1 DEF Mentioning
    <3>3. i \in Mentioning(keyword) /\ \A j \in Mentioning(keyword) : j <= i
      BY <3>1, <3>2, LargestExists DEF Last
    <3>4. /\ After(config[i], keyword).kind = "path"
          /\ KeyFile(keyword) = After(config[i], keyword).name
      BY <2>4, <3>1 DEF KeyFile
    <3> QED BY <3>3, <3>4
  <2>5. /\ loaded[1] = KeyFile("public_key_root") /\ loaded[2] = KeyFile("private_key_root")
        /\ loaded[1] \in env.certificates /\ <<loaded[2], loaded[1]>> \in env.pairs
    BY <2>3 DEF KeyFiles, Usable
  <2>6. loaded[1] # "" /\ loaded[2] # ""
    <3>1. loaded[2] = <<loaded[2], loaded[1]>>[1]
      OBVIOUS
    <3> QED BY <2>2, <2>5, <3>1, Zenon
  <2>7. ASSUME NEW k \in {<<1, "public_key_root">>, <<2, "private_key_root">>}
        PROVE  \E i \in Mentioning(k[2]) :
                 /\ \A j \in Mentioning(k[2]) : j <= i
                 /\ After(config[i], k[2]).kind = "path"
                 /\ loaded[k[1]] = After(config[i], k[2]).name
    <3>1. loaded[k[1]] = KeyFile(k[2]) /\ KeyFile(k[2]) # ""
      <4>1. CASE k = <<1, "public_key_root">>
        BY <2>5, <2>6, <4>1
      <4>2. CASE k = <<2, "private_key_root">>
        BY <2>5, <2>6, <4>2
      <4> QED BY <4>1, <4>2
    <3>2. PICK i \in Mentioning(k[2]) :
            /\ \A j \in Mentioning(k[2]) : j <= i
            /\ After(config[i], k[2]).kind = "path"
            /\ KeyFile(k[2]) = After(config[i], k[2]).name
      BY <2>4, <3>1, Zenon
    <3> QED BY <3>1, <3>2, Zenon
  <2> QED BY <2>5, <2>7 DEF KeysAreThoseNamed
<1> QED BY <1>1, Invariance, SettingsAlways, PTL

-----------------------------------------------------------------------------
(* main() and the constructors use the Dispatchers as they may.            *)

\* Each step of main() is one that the Dispatchers allow, or none of theirs.
LEMMA StepIsAllowed ==
  ASSUME IInv, [Next]_vars
  PROVE  [DispatcherNext]_dispatcherVars
<1> USE DEF IInv
<1>1. "http" \in Servers /\ "https" \in Servers /\ "none" \notin Servers
  BY DEF Servers
<1>2. CASE UNCHANGED dispatcherVars
  BY <1>2
<1>3. CASE BindHttp \/ LoadKeys
  <2>1. PICK d \in Servers : building = "none" /\ regnum[d] = 0 /\ Construct(d)
    BY <1>1, <1>3 DEF BindHttp, Bind, LoadKeys, PhaseOK, Binding
  <2> QED BY <2>1 DEF DispatcherNext
<1>4. CASE InitHandlersOf("http") \/ InitHandlersOf("https")
  <2>1. InitHandlers /\ todo # <<>>
    BY <1>4 DEF InitHandlersOf, InitHandlers
  <2>2. building # "none"
    BY <2>1 DEF DInv, ConfigOK
  <2> QED BY <2>1, <2>2 DEF DispatcherNext
<1>5. CASE Constructed("http", Binding("https")) \/ Constructed("https", "run")
  <2>1. PICK d \in Servers : Built(d) /\ building = d
    BY <1>1, <1>5 DEF Constructed, Built
  <2> QED BY <1>1, <2>1 DEF DispatcherNext
<1>6. ASSUME NEW d \in Servers, NEW target \in Targets, Serving(GetRequestHandler(d, target))
      PROVE  [DispatcherNext]_dispatcherVars
  <2>1. building = "none" /\ \A c \in Servers : regnum[c] \in Nat /\ regnum[c] # 0
    BY <1>6 DEF Serving, PhaseOK, Servers, DInv, TablesOK
  <2>2. IsBuilt
    BY <2>1 DEF IsBuilt
  <2> QED BY <1>6, <2>2 DEF Serving, DispatcherNext
<1>7. CASE Lookup
  BY <1>6, <1>7 DEF Lookup, Serving, CallNull, DispatcherNext
<1>8. CASE GetPorts \/ GetPortsFails \/ BindHttps \/ RunServices \/ StartFails \/ ConstructorCrashes
  BY <1>2, <1>8 DEF GetPorts, GetPortsFails, BindHttps, RunServices, StartFails,
                    ConstructorCrashes, End
<1>9. CASE UNCHANGED vars
  BY <1>2, <1>9 DEF vars
<1> QED BY <1>3, <1>4, <1>5, <1>7, <1>8, <1>9 DEF Next, Start

\* main() implements what a Dispatcher expects of its owner: it never searches
\* a table that is not complete, and constructs none twice.
THEOREM DispatchersAreUsedWell == Spec => DispatcherSpec
<1>1. Init => DispatcherInit
  BY DEF Init
<1>2. IInv /\ [Next]_vars => [DispatcherNext]_dispatcherVars
  BY StepIsAllowed
<1> QED BY <1>1, <1>2, Invariance, PTL DEF Spec, DispatcherSpec

-----------------------------------------------------------------------------
(* Types.                                                                  *)

\* The shorts and the ports, by their bounds.
IsShort(n) == n \in Int /\ MinShort <= n /\ n <= MaxShort
IsPortOrNone(n) == n \in Int /\ NoPort <= n /\ n <= MaxPort

SearchTypes ==
  /\ request.pass = "idle" => request = Idle
  /\ request.pass \in {"idle", "null"} => left = {} /\ prefix = <<>>
  /\ {found, handler} \subseteq HandlerTypes \cup {NoHandler}

MainTypes ==
  /\ main \in {"parsed", "load keys", "run", "serving", "exited", "crashed"}
             \cup UNION {{Binding(s), Building(s)} : s \in Servers}
  /\ status \in {Running, 0, 1}
  /\ port = [s \in Servers |-> port[s]] /\ \A s \in Servers : IsShort(port[s])
  /\ listening = [s \in Servers |-> listening[s]] /\ \A s \in Servers : IsPortOrNone(listening[s])

LoadedOK == loaded \in {<<>>, KeyFiles}

\* The keys and the handlers that a search can find.
LEMMA TableTypes ==
  ASSUME DInv
  PROVE  /\ \A d \in Servers : \A p \in DOMAIN handlers[d] :
              p \in Path /\ handlers[d][p] \in HandlerTypes
         /\ \A p \in DOMAIN handlerInfo : p \in Path /\ handlerInfo[p] \in HandlerTypes
<1>1. ASSUME NEW d \in Servers, NEW p \in DOMAIN handlers[d]
      PROVE  p \in Path /\ handlers[d][p] \in HandlerTypes
  <2>1. regnum[d] > 0
    BY DEF DInv, TablesOK
  <2> QED BY <2>1 DEF DInv, TablesOK, IsTable, Path, Char
<1>2. ASSUME NEW p \in DOMAIN handlerInfo PROVE p \in Path /\ handlerInfo[p] \in HandlerTypes
  <2>1. PICK d \in Servers : p \in DOMAIN handlers[d]
    BY DEF DInv, InfoOK
  <2>2. handlerInfo[p] = handlers[d][p]
    BY <2>1 DEF DInv, InfoOK
  <2> QED BY <1>1, <2>1, <2>2
<1> QED BY <1>1, <1>2

LEMMA SearchTypesNext ==
  ASSUME IInv, SearchTypes, [Next]_vars
  PROVE  SearchTypes'
<1>1. NoHandler \in HandlerTypes \cup {NoHandler}
  OBVIOUS
<1>2. CASE UNCHANGED searchVars
  BY <1>2 DEF searchVars, SearchTypes
<1>3. CASE Start \/ UNCHANGED vars
  BY <1>2, <1>3 DEF Start, GetPorts, GetPortsFails, BindHttp, InitHandlersOf, InitHandlers,
       Constructed, Built, Construct, BindHttps, LoadKeys, RunServices, StartFails,
       ConstructorCrashes, End, vars, dispatcherVars
<1>4. ASSUME NEW key \in left, VisitKey(key) PROVE SearchTypes'
  <2>1. CASE ~Closer(key)
    <3>1. request'.pass \in {"handler", "name"} /\ UNCHANGED <<found, handler>>
      BY <1>4, <2>1 DEF VisitKey
    <3> QED BY <3>1 DEF SearchTypes
  <2>2. CASE Closer(key)
    <3>1. CASE request.pass = "handler"
      <4>1. request.dispatcher \in Servers /\ key \in DOMAIN handlers[request.dispatcher]
        BY <3>1 DEF IInv, DInv, SearchOK, LoopOK
      <4>2. /\ found' = handlers[request.dispatcher][key] /\ handler' = handler
            /\ request'.pass = "handler"
        BY <1>4, <2>2, <3>1 DEF VisitKey
      <4> QED BY <4>1, <4>2, TableTypes DEF IInv, SearchTypes
    <3>2. CASE request.pass = "name"
      <4>1. key \in DOMAIN handlerInfo
        BY <3>2 DEF IInv, DInv, SearchOK, LoopOK
      <4>2. found' = handlerInfo[key] /\ handler' = handler /\ request'.pass = "name"
        BY <1>4, <2>2, <3>2 DEF VisitKey
      <4> QED BY <4>1, <4>2, TableTypes DEF IInv, SearchTypes
    <3> QED BY <1>4, <3>1, <3>2 DEF VisitKey
  <2> QED BY <2>1, <2>2
<1>5. CASE Lookup
  <2>1. CASE \E d \in Servers, target \in Targets : Serving(GetRequestHandler(d, target))
    BY <1>1, <2>1 DEF Serving, GetRequestHandler, Search, SearchTypes
  <2>2. CASE Serving(GetHandlerName) \/ Serving(Respond)
    BY <1>1, <2>2 DEF Serving, GetHandlerName, Respond, Search, SearchTypes
  <2>3. CASE CallNull
    <3>1. /\ request.pass = "handler" /\ left = {} /\ found = NoHandler
          /\ request' = [request EXCEPT !.pass = "null"]
          /\ UNCHANGED <<left, prefix, found, handler>>
      BY <2>3 DEF CallNull, NullHandler
    <3>2. request'.pass = "null"
      BY <3>1 DEF IInv, DInv, SearchOK
    <3>3. prefix = <<>>
      <4>1. request.dispatcher \in Servers /\ LoopOK(handlers[request.dispatcher])
        BY <3>1 DEF IInv, DInv, SearchOK
      <4> QED BY <3>1, <4>1, TableTypes, DispatcherAssumption DEF IInv, LoopOK
    <3> QED BY <3>1, <3>2, <3>3 DEF SearchTypes
  <2> QED BY <1>4, <1>5, <2>1, <2>2, <2>3 DEF Lookup, Serving
<1> QED BY <1>3, <1>5 DEF Next

LEMMA ShortsAndPorts ==
  /\ \A n : n \in MinShort .. MaxShort <=> IsShort(n)
  /\ \A n : n \in NoPort .. MaxPort <=> IsPortOrNone(n)
  /\ \A n : n \in 0 .. MaxPort => IsPortOrNone(n)
<1>1. MinShort \in Int /\ MaxShort \in Int /\ MaxPort \in Int /\ NoPort \in Int /\ NoPort <= 0
  BY DEF MinShort, MaxShort, MaxPort, NoPort
<1> QED BY <1>1 DEF IsShort, IsPortOrNone

\* 16 bits, with a sign and without.
LEMMA Bits16 ==
  /\ \A n \in Int : IsShort(ToShort(n))
  /\ \A n \in Int : IsPortOrNone(Unsigned(n))
<1>1. \A n \in Int : n % 65536 \in Int /\ 0 <= n % 65536 /\ n % 65536 < 65536
  BY Z3
<1>2. ASSUME NEW n \in Int PROVE IsShort(ToShort(n))
  <2>1. n + 32768 \in Int
    OBVIOUS
  <2> DEFINE m == (n + 32768) % 65536
  <2>2. m \in Int /\ 0 <= m /\ m < 65536
    BY <1>1, <2>1
  <2>3. ToShort(n) = m - 32768
    BY DEF ToShort
  <2> HIDE DEF m
  <2> QED BY <2>2, <2>3 DEF IsShort, MinShort, MaxShort
<1>3. ASSUME NEW n \in Int PROVE IsPortOrNone(Unsigned(n))
  BY <1>1 DEF IsPortOrNone, Unsigned, NoPort, MaxPort
<1> QED BY <1>2, <1>3

\* A port that GetPortNumber finds is a number.
LEMMA FoundIsNumber ==
  ASSUME config \in Configs, config \in Seq(Statement), NEW keyword,
         PortNumber(keyword).result = "found"
  PROVE  PortNumber(keyword).n \in Int
<1>1. Mentioning(keyword) # {}
  BY DEF PortNumber
<1>2. /\ Written(keyword).kind = "number"
      /\ PortNumber(keyword) = [result |-> "found", n |-> Written(keyword).n]
  BY <1>1 DEF PortNumber, Written
<1>3. Written(keyword).n \in Nat
  BY <1>1, <1>2, WrittenNumber
<1> QED BY <1>2, <1>3

LEMMA MainTypesNext ==
  ASSUME IInv, MainTypes, [Next]_vars
  PROVE  MainTypes'
<1> DEFINE Places == {"parsed", "load keys", "run", "serving", "exited", "crashed"}
                       \cup UNION {{Binding(s), Building(s)} : s \in Servers}
<1>1. /\ Binding("http") \in Places /\ Binding("https") \in Places
      /\ Building("http") \in Places /\ Building("https") \in Places
      /\ "load keys" \in Places /\ "run" \in Places /\ "serving" \in Places
      /\ "exited" \in Places /\ "crashed" \in Places
  BY DEF Servers
<1> HIDE DEF Places
<1>2. ASSUME UNCHANGED <<main, status, port, listening>> PROVE MainTypes'
  BY <1>2 DEF MainTypes
<1>3. ASSUME NEW how \in {"exited", "crashed"}, NEW code \in {Running, 0, 1}, End(how, code)
      PROVE  MainTypes'
  <2>1. \A s \in Servers : IsPortOrNone(NoPort)
    BY DEF IsPortOrNone, NoPort, MaxPort
  <2>2. /\ main' \in Places /\ status' \in {Running, 0, 1} /\ port' = port
        /\ listening' = [s \in Servers |-> NoPort]
    BY <1>1, <1>3 DEF End
  <2> QED BY <2>1, <2>2 DEF MainTypes, Places
<1>4. ASSUME NEW next \in Places, Advance(next), UNCHANGED <<port, listening>>
      PROVE  MainTypes'
  BY <1>4 DEF MainTypes, Advance, Places
<1>5. CASE GetPorts
  <2>1. PICK ssl \in IF PortNumber("ssl-port").result = "found"
                       THEN {ToShort(PortNumber("ssl-port").n)} ELSE Garbage :
          port' = [http |-> ToShort(PortNumber("listen").n), https |-> ssl]
    BY <1>5, Zenon DEF GetPorts
  <2>2. config \in Configs /\ config \in Seq(Statement)
    BY DEF IInv, DInv, ConfigOK
  <2>3. PortNumber("listen").n \in Int
    BY <1>5, <2>2, FoundIsNumber DEF GetPorts
  <2>4. IsShort(ToShort(PortNumber("listen").n))
    BY <2>3, Bits16
  <2>5. IsShort(ssl)
    <3>1. CASE PortNumber("ssl-port").result = "found"
      <4>1. PortNumber("ssl-port").n \in Int
        BY <2>2, <3>1, FoundIsNumber
      <4> QED BY <2>1, <3>1, <4>1, Bits16
    <3>2. CASE PortNumber("ssl-port").result # "found"
      <4>1. ssl \in Garbage
        BY <2>1, <3>2, Zenon
      <4>2. ssl \in MinShort .. MaxShort
        BY <4>1, PortsAssumption, Zenon
      <4> QED BY <4>2, ShortsAndPorts, Zenon
    <3> QED BY <3>1, <3>2
  <2>6. port' = [s \in Servers |-> port'[s]] /\ \A s \in Servers : IsShort(port'[s])
    <3>1. port'["http"] = ToShort(PortNumber("listen").n) /\ port'["https"] = ssl
      BY <2>1
    <3>2. DOMAIN port' = {"http", "https"} /\ port' = [s \in DOMAIN port' |-> port'[s]]
      BY <2>1
    <3>3. port' = [s \in Servers |-> port'[s]]
      BY <3>2 DEF Servers
    <3> QED BY <2>4, <2>5, <3>1, <3>3 DEF Servers
  <2>7. main' = Binding("http") /\ UNCHANGED <<status, listening>>
    BY <1>5, Zenon DEF GetPorts, Advance
  <2> QED BY <1>1, <2>6, <2>7 DEF MainTypes, Places
<1>6. ASSUME NEW s \in Servers, Bind(s), NEW next \in Places, Advance(next) PROVE MainTypes'
  <2>1. PICK p \in Bindable(s) : listening' = [listening EXCEPT ![s] = p]
    BY <1>6 DEF Bind
  <2>2. IsPortOrNone(p)
    <3>1. port[s] \in Int
      BY Zenon DEF MainTypes, IsShort
    <3>2. CASE Unsigned(port[s]) = 0
      <4>1. p \in Ephemeral
        BY <2>1, <3>2, Zenon DEF Bindable
      <4>2. p \in 0 .. MaxPort
        BY <4>1, PortsAssumption, Zenon
      <4> QED BY <4>2, ShortsAndPorts, Zenon
    <3>3. CASE Unsigned(port[s]) # 0
      BY <2>1, <3>1, <3>3, Bits16 DEF Bindable
    <3> QED BY <3>2, <3>3
  <2>3. listening' = [t \in Servers |-> listening'[t]] /\ \A t \in Servers : IsPortOrNone(listening'[t])
    BY <2>1, <2>2 DEF MainTypes
  <2> QED BY <1>6, <2>3 DEF MainTypes, Advance, Bind, Places
<1>7. CASE BindHttp \/ BindHttps
  BY <1>1, <1>6, <1>7 DEF BindHttp, BindHttps, Servers
<1>8. CASE LoadKeys \/ Constructed("http", Binding("https")) \/ Constructed("https", "run") \/ RunServices
  BY <1>1, <1>4, <1>8 DEF LoadKeys, Constructed, RunServices
<1>9. CASE GetPortsFails \/ StartFails \/ ConstructorCrashes
  BY <1>3, <1>9 DEF GetPortsFails, StartFails, ConstructorCrashes
<1>10. CASE InitHandlersOf("http") \/ InitHandlersOf("https")
  BY <1>2, <1>10 DEF InitHandlersOf, startupVars
<1>11. CASE Lookup
  <2>1. CASE CallNull
    <3>1. \A s \in Servers : IsPortOrNone(NoPort)
      BY DEF IsPortOrNone, NoPort, MaxPort
    <3>2. /\ main' = "crashed" /\ UNCHANGED <<status, port>>
          /\ listening' = [s \in Servers |-> NoPort]
      BY <2>1 DEF CallNull
    <3> QED BY <1>1, <3>1, <3>2 DEF MainTypes, Places
  <2> QED BY <1>2, <1>11, <2>1 DEF Lookup, Serving, startupVars
<1>12. CASE UNCHANGED vars
  BY <1>2, <1>12 DEF vars, startupVars
<1> QED BY <1>5, <1>7, <1>8, <1>9, <1>10, <1>11, <1>12 DEF Next, Start

LEMMA LoadedNext ==
  ASSUME LoadedOK, [Next]_vars
  PROVE  LoadedOK'
<1>1. KeyFiles' = KeyFiles
  <2>1. config' = config
    BY ConfigKept DEF vars, dispatcherVars, tableVars
  <2> QED BY <2>1, ReadingKept
<1>2. CASE LoadKeys
  BY <1>1, <1>2 DEF LoadKeys, LoadedOK
<1>3. CASE UNCHANGED loaded
  BY <1>1, <1>3 DEF LoadedOK
<1>4. CASE Start
  BY <1>2, <1>3, <1>4 DEF Start, GetPorts, GetPortsFails, BindHttp, Bind, InitHandlersOf,
       Constructed, BindHttps, RunServices, StartFails, ConstructorCrashes, End, startupVars
<1>5. CASE Lookup
  BY <1>3, <1>5 DEF Lookup, Serving, CallNull, startupVars
<1>6. CASE UNCHANGED vars
  BY <1>3, <1>6 DEF vars, startupVars
<1> QED BY <1>4, <1>5, <1>6 DEF Next

\* What the statements left to read are, and the search's map.
LEMMA StateTypes ==
  ASSUME IInv, SearchTypes
  PROVE  DispatcherTypeOK
<1>1. config \in Configs /\ building \in Servers \cup {"none"}
  BY DEF IInv, DInv, ConfigOK
<1>2. \E n \in 0 .. Len(config) : todo = SubSeq(config, n + 1, Len(config))
  <2> DEFINE n == Len(config) - Len(todo)
             rest == SubSeq(config, n + 1, Len(config))
  <2>1. /\ config \in Seq(Statement) /\ todo \in Seq(Statement) /\ Len(todo) <= Len(config)
        /\ \A i \in 1 .. Len(todo) : todo[i] = config[n + i]
    BY DEF IInv, DInv, ConfigOK
  <2>2. n \in 0 .. Len(config) /\ n + 1 \in Nat \ {0} /\ Len(config) \in Nat
        /\ Len(config) - (n + 1) + 1 = Len(todo) /\ \A i \in 1 .. Len(todo) : n + 1 + i - 1 = n + i
    BY <2>1
  <2> HIDE DEF n
  <2>3. /\ rest \in Seq(Statement) /\ Len(rest) = Len(config) - (n + 1) + 1
        /\ \A i \in 1 .. Len(config) - (n + 1) + 1 : rest[i] = config[n + 1 + i - 1]
    BY <2>1, <2>2, PartOfSeq
  <2> HIDE DEF rest
  <2>4. todo = rest
    <3>1. Len(rest) = Len(todo) /\ \A i \in 1 .. Len(todo) : rest[i] = todo[i]
      BY <2>1, <2>2, <2>3
    <3> QED BY <2>1, <2>3, <3>1
  <2> QED BY <2>2, <2>4 DEF rest
<1>3. DOMAIN handlers = Servers /\ regnum \in [Servers -> Nat]
  BY DEF IInv, DInv, TablesOK
<1>4. /\ \A d \in Servers : \A p \in DOMAIN handlers[d] :
           p \in Path /\ handlers[d][p] \in HandlerTypes
      /\ \A p \in DOMAIN handlerInfo : p \in Path /\ handlerInfo[p] \in HandlerTypes
  BY TableTypes DEF IInv
<1>5. request = Idle \/ request \in [pass : {"handler", "name", "null"},
                                    dispatcher : Servers, path : Path]
  BY DEF IInv, DInv, SearchOK, SearchTypes, Path, Char
<1>6. left \subseteq DOMAIN Searched /\ prefix \in DOMAIN Searched \cup {<<>>}
  <2>1. CASE request.pass = "handler"
    BY <2>1 DEF IInv, DInv, SearchOK, LoopOK, Searched
  <2>2. CASE request.pass = "name"
    BY <2>2 DEF IInv, DInv, SearchOK, LoopOK, Searched
  <2>3. CASE request.pass \in {"idle", "null"}
    BY <2>3 DEF SearchTypes
  <2> QED BY <2>1, <2>2, <2>3 DEF IInv, DInv, SearchOK
<1>7. {found, handler} \subseteq HandlerTypes \cup {NoHandler}
  BY DEF SearchTypes
<1> QED BY <1>1, <1>2, <1>3, <1>4, <1>5, <1>6, <1>7, Zenon DEF DispatcherTypeOK

\* Wherever main() is, every variable is of its type: its ports are shorts, its
\* sockets on ports, the tables hold paths and known handlers, what is left to
\* read is the end of the configuration, and a search keeps to the keys of the
\* map that it searches.
THEOREM TypeCorrect == Spec => []TypeOK
<1>1. Init => SearchTypes /\ MainTypes /\ LoadedOK
  <2> SUFFICES ASSUME Init PROVE SearchTypes /\ MainTypes /\ LoadedOK
    OBVIOUS
  <2>1. SearchTypes
    <3>1. /\ request = Idle /\ left = {} /\ prefix = <<>>
          /\ found = NoHandler /\ handler = NoHandler
      BY DEF Init, DispatcherInit
    <3> QED BY <3>1 DEF SearchTypes
  <2>2. IsShort(0) /\ IsPortOrNone(NoPort)
    BY DEF IsShort, IsPortOrNone, NoPort, MinShort, MaxShort, MaxPort
  <2>3. /\ main = "parsed" /\ status = Running /\ port = [s \in Servers |-> 0]
        /\ listening = [s \in Servers |-> NoPort] /\ loaded = <<>>
    BY DEF Init
  <2>4. MainTypes
    BY <2>2, <2>3 DEF MainTypes
  <2> QED BY <2>1, <2>3, <2>4 DEF LoadedOK
<1>2. IInv /\ SearchTypes /\ MainTypes /\ LoadedOK /\ [Next]_vars
        => SearchTypes' /\ MainTypes' /\ LoadedOK'
  BY SearchTypesNext, MainTypesNext, LoadedNext
<1>3. IInv /\ SettingsOK /\ SearchTypes /\ MainTypes /\ LoadedOK => TypeOK
  <2> SUFFICES ASSUME IInv, SettingsOK, SearchTypes, MainTypes, LoadedOK PROVE TypeOK
    OBVIOUS
  <2>1. env \in Environments(config) /\ loaded \in {<<>>, KeyFiles}
    BY Zenon DEF SettingsOK, LoadedOK
  <2>2. DispatcherTypeOK
    BY StateTypes
  <2>4. port \in [Servers -> MinShort .. MaxShort] /\ listening \in [Servers -> NoPort .. MaxPort]
    <3>1. \A s \in Servers : /\ port[s] \in MinShort .. MaxShort
                             /\ listening[s] \in NoPort .. MaxPort
      BY ShortsAndPorts, Zenon DEF MainTypes
    <3>2. port = [s \in Servers |-> port[s]] /\ listening = [s \in Servers |-> listening[s]]
      BY Zenon DEF MainTypes
    <3>3. port \in [Servers -> MinShort .. MaxShort]
      BY <3>1, <3>2
    <3>4. listening \in [Servers -> NoPort .. MaxPort]
      BY <3>1, <3>2
    <3> QED BY <3>3, <3>4
  <2>5. /\ main \in {"parsed", "load keys", "run", "serving", "exited", "crashed"}
                     \cup UNION {{Binding(s), Building(s)} : s \in Servers}
        /\ status \in {Running, 0, 1}
    BY Zenon DEF MainTypes
  <2> QED BY <2>1, <2>2, <2>4, <2>5, Zenon DEF TypeOK
<1> QED BY <1>1, <1>2, <1>3, Invariance, SettingsAlways, PTL DEF Spec
=============================================================================
