# A verification project for the HTTPS server

TLA+ modules that model the web server of this repository, the TLC
configurations that check them on small instances, and TLAPS proofs of what
matters most for every instance. Paths below are those of the repository
(`src/session.cc` is `src/src/session.cc` in `PROJECT.json`, whose `map` gives
the lines each definition stands for).

Contents: [the system](#1-the-system), [the modules](#2-the-modules),
[the runs](#3-the-runs), [what the code does that is said otherwise](#4-what-the-code-does-and-its-documentation-does-not-say),
[the proofs](#5-the-proofs), [limits](#6-what-is-only-checked-and-what-is-not-modelled),
[what could follow](#7-what-could-follow).

## 1. The system

`main()` parses a configuration file, builds one server for HTTP and one for
HTTPS, each with an `io_service` of its own, and gives each `io_service` one
thread: a new one for HTTP, the main thread for HTTPS. From then on everything
happens in completion handlers.

| component | state | operations | interacts with |
|---|---|---|---|
| server (`server.cc`) | acceptor, the session that waits for the next connection, a detached thread per connection | `start_accept`, `handle_accept`, `start_session` | creates sessions, adds threads to the pool that runs the `io_service` |
| session (`session.cc`) | socket, `data_`, `buffer_` | `start`, `handle_handshake`, `handle_read`, `append_data`, `send_response`, `handle_write`, `delete this` | called by any thread of the pool; calls the dispatcher and a request handler |
| request buffer (in `session.cc`) | `data_`, of which only the first NUL tells the length | clear, append, `end_of_request` | filled by the socket, searched and parsed by the session |
| statistics (`session.cc`, `status_handler.cc`) | the statics `request_count` and `handled_requests` | update after each handled request, `condense` and the status page | shared by all sessions of both servers, without a lock |
| dispatcher (`dispatcher.cc`) | `handlers_` of each, the static `handler_info` of both | `init_handlers`, `add_handler`, `get_request_handler`, and the session's `get_handler_name` | built from the configuration, immutable afterwards, read by all threads |
| config parser (`config_parser.cc`) | two stacks, the last token type, the tree | `ParseToken`, `Parse`; `GetPortNumber`, `GetKeyPath` over the tree | `main()`, the HTTPS constructor |
| startup (`server_main.cc`, the constructors of `server.cc`) | ports, bound acceptors, loaded keys, exit code | `main`, two constructors | all of the above |
| proxy handler (`proxy_handler.cc`) | prefix, host, port | construction from its block, outgoing request, redirections | blocks its thread on another host |
| file handler (`file_handler.cc`) | prefix, root | `handle_request`: opens a file twice, reads it in pieces | files that others change |
| echo, 404, health, sleep handlers | none | `handle_request` | called by sessions |
| logger | none of the program's | `init` | |

What is hard in it:

* **Concurrency without locks.** Any thread of the pool may run any handler.
  Sessions have no strand; they are safe only as long as one operation or
  handler at a time refers to them. The statistics have neither that nor a lock.
* **Lifetime.** A session is a raw pointer bound into handlers; it deletes
  itself when an operation fails.
* **Blocking handlers.** A proxied request or a sleep holds its thread. The
  defence is one more thread for each connection.
* **Failure.** Accepts, handshakes, reads and writes fail at any time, clients
  reset connections between any two steps, the operating system refuses a
  thread. An exception that leaves a handler leaves `io_service.run()`, in a
  detached thread, and ends the process.
* **Other programs.** A proxied host redirects without end; a file disappears,
  or turns into a directory, between two openings, or is rewritten while it is read.
* **Start-up.** Whatever goes wrong while the two servers are constructed, one after the
  other, ends the program; the second is constructed whether or not it is configured.
* **Implicit lengths and implicit invariants.** The buffer is a C string; the
  parser tests one of its two stacks and relies on the other; the dispatcher
  searches two maps that have to agree.

What makes each component correct: the server never stops accepting and never
runs out of threads that can run a queued handler; a session is not used after
its deletion nor by two activities at once, and each request gets one response
before the connection is closed or dropped; the buffer holds what has arrived and
the end of a request is seen exactly when it has come; a status page counts
what had been answered; the handler that runs is that of the longest prefix,
and is the one the log names; the parser returns the tokens that were written,
accepts the files of its grammar and builds their tree; a server listens on the port
and with the keys it was given, and a sound configuration is served; a
handler answers with what was so, and follows redirections to their end. `PROJECT.json` lists under `hazards` each place where one of
these could go wrong.

## 2. The modules

```
Exchange <--refines-- Server <-- MCServer, ServerProofs

Paths <-- Dispatcher <-- Startup <-- MCStartup
  ^                        ^-- StartupProofs
  ^-- PathsProofs (used by the proofs of Startup, Handlers, ConfigParser and RequestBuffer)
  ^-- RequestHandler <-- FileHandler ---+
              ^--------- ProxyHandler --+-- Handlers <-- MCHandlers
                                                ^-- HandlersProofs

Statistics    <-- MCStatistics,    StatisticsProofs
RequestBuffer <-- MCRequestBuffer, RequestBufferProofs
ConfigParser  <-- ConfigParserProofs

Tokenizer     <-- ConfigFile (instantiates ConfigParser) <-- MCConfigFile
                      ^-- ConfigFileProofs (instantiates ConfigParserProofs)
```

(`A <-- B`: B extends A.) The models compose where the components do: `Startup`
contains both `Dispatcher`s and the two servers' construction, `Handlers` any
handler behind the dispatcher's choice, `Server` sessions, pool, kernel and
clients. What one model abstracts another has in detail: `Server`'s `data` is
`RequestBuffer`'s buffer, its `HandleRequest` is a call in `Handlers` followed by the
updates of `Statistics`, `Dispatcher`'s configuration is what `ConfigFile` has
built: `ConfigParser` on the tokens of `Tokenizer`.

*Seeded faults.* Next to some definitions is a second form of them with a plausible slip
in it, marked as a seeded fault. None of these is used in any specification; `PROJECT.json`
names, under `mutants`, the property that notices when the one replaces the other.

### Server and Exchange

`Server` is one of the two servers (`Version` says which), its sessions, its
pool of threads, its clients and the kernel.

* `object`, `socket`, `data` are a session's memory, its socket, and what its
  buffer holds. `armed` has the asynchronous
  operations in progress, `ready` the completions queued on the `io_service`.
  `at` and `call` are where each thread is and for which completion.
* A thread's name is that of the session it was spawned for, or `Main`.
* A handler that cannot be interrupted to any effect is one action
  (`HandleHandshake`, `AppendData`, `HandleWrite`...). `handle_accept` is two,
  because the thread it spawns runs at the same time; `send_response` is four:
  the call of the request handler (`CallHandler`), its return, with which the update of the
  statistics begins (`HandleRequest`), the end of that update (`CountRequest`), and the rest,
  since the handler takes any time, others update the statistics and the client may
  reset the connection meanwhile.
* An exception, a null dereference or undefined behaviour in a handler may make `alive`
  false, after which nothing happens: `SpawnFails`, `CallNullHandler` (which stands for handlers
  that throw as well), `StackEnds` (a proxy's handler that follows redirections),
  `RemoteEndpointThrows`, and `RaceEnds`.
* A thread between the beginning and the end of an update of the statistics is in `Updating`. Once two
  have met the map is `torn`, and any update, and any status page, which walks the map, may end
  the process (`RaceEnds`). `Statistics` has the details; `Server` has what they can do to
  everybody else.
* The bound: `Sessions` is the set of session objects that are ever allocated.
  `Connect` and `AcceptFails` leave one for the `start_accept` that follows.
  An object is never allocated twice, which is the stronger assumption where
  dangling pointers are looked for.

`Exchange` is what a client is promised: accepted, listened to, asked, answered,
closed; dropped only while the server listens or writes. The process ends only by a
`Stop`: over a request under way whose client provokes it (by a reset, a target without a
good handler, or one that a proxy redirects), or that is not alone (two requests
are handled at once, or have been and the statistics are `torn`); or over a connection
that is accepted when all `SureThreads` are taken. `Server` is mapped to it by `statusOf`. So two
ordinary requests that overlap are enough for the process to end, in `Exchange` as in the code
(`session.cc:168`); with one at a time, threads enough, and clients that provoke nothing, it
goes on.

### Startup, Dispatcher, Paths

`Startup` is `main()` with both constructors: the two ports, `acceptor_`'s binding, the
three key files, the Dispatcher, `start_accept`, for HTTP and then for HTTPS, and
the two services. `env` says what is found outside: ports taken,
which certificates and which pairs of key and certificate are good, whether threads are
granted. An exception anywhere ends `main()` with status 0
(`StartFails`), a missing HTTP port with 1.

`GetPortNumber` and `GetKeyPath` search the *printed* text of each statement for a
keyword, so that a statement is here also a sequence of words, each with the keyword it
contains and what is written after it. The first match decides for ports, the last
for keys. A port passes through a `short` (`ToShort`, `Unsigned`); an SSL port that
is not there leaves it uninitialised (`Garbage`).

`Dispatcher` has the construction, statement by statement, and then any number
of lookups, in both passes: `get_request_handler` over the Dispatcher's own
`handlers_`, and `get_handler_name` over the static `handler_info`. The iteration
over a map is in any order: the result must not depend on it. Paths are
sequences of characters because prefixes, trailing slashes and `/ab` beside
`/a` are what the component is about. `DispatcherSpec` is what the component
expects of its owner, since nothing locks its two maps: each Dispatcher is
constructed once, not while the other is, and searched when both are complete.
`Startup` is shown to implement it. `Paths` has the helpers that the
dispatcher, the session and the handlers each write out for themselves.
`HandlersMatchConfig` speaks of all paths but `/`, whose statements are dropped:
`LocationsAreCalledOn` of `MCStartup` shows that this is not what is said of them.

### RequestHandler, FileHandler, ProxyHandler, Handlers

A call of `handle_request`, dispatched as above. `FileHandler` opens a file to see whether it is
there (`OpenFile`), opens it again without a look at the result (`OpenAgain`) and reads it
piece by piece (`ReadPiece`, up to `Pieces`), while others create, replace and remove files
(`Replace`, which leaves an open file as it is) and rewrite them in place (`Rewrite`, which
does not). `seen` remembers what has been at the path or in the open file meanwhile.
`ProxyHandler` meets a web that answers each request in one way, which is decided when it is
first asked, and fails at any exchange; `issue_outside_request` calls itself for each
redirection, without a limit but the `Stack`, whose end (`Overflow`) ends the call. `Handlers`
composes them and states what each promises.

### ConfigParser, Tokenizer and ConfigFile

`Tokenizer` is `ParseToken`, one action for each turn of its loop, with a file that is
written while it is read: the author writes words, plain or quoted, marks, blanks
and comments, with the backslashes they need, and `items` has what is to come out. So
files are not bounded in length, only words are (`ConfigFile` bounds both, for TLC). `ConfigParser` is `Parse` over token types. The
`NginxConfig` objects are a sequence, so that the stack of pointers is one of indices.
`Undefined` marks a `top()` or `back()` of something empty. What `Parse` should accept, and
what it should build, is stated of the places of the tokens alone, without a stack and without
recursion: `IsConfig` counts brackets and looks at the token before each token; `TreeOf` has
the statements of a block at the places where they end (`Ends`), in their order, a block being that
of the last bracket that is still open (`BlockAt`). `MCConfigFile` has TLC compare the two
with what they are meant to be, a recursive grammar and a recursive printer: `IsConfig` holds of the
files of the grammar and no others, and the tree of a file, printed, is the file.

`ConfigFile` is the two together: a step of `Parse` is a turn of `ParseToken`, and, when
that is its last, what `Parse` does with the token it returns (`Returned`, `Handle`).
`written` has the types of all items that the author wrote, to the last. The properties compare
these, not the tokens, with the grammar and the tree. There are two kinds of files of which
the code does not make what was written, and the properties name both: a last plain word that nothing ends
(`Unended`) is forgotten, which `AcceptedIsValid` shows to be against what `Parse` promises; and a plain
word that is nothing but escapes is joined with the next one, or forgotten (`escaped`). Words have
no characters in the tree of this model, only a place: that the characters are right is `TokenIsItem`.

### RequestBuffer

`data_` byte by byte, of which there are four kinds: CR, LF, NUL and the others. A client's
request of any bytes, as many as the buffer has at most, is cut into pieces at will. `CString` is
what `strlen` and `std::string` see: all before the first NUL, or, where `data_` is full, what lies `behind`
it as well. `BlankLineAt` says of the request, independently of the code's search, where it ends.

### Statistics

Workers are sessions that have read a request. A malformed one is answered with 400 and
counted nowhere (`Refuse`); any other is answered with one of `Codes`. The increment is a load
and a store; an update of the map has a beginning and an end. Where two updates
overlap, and ever after (`torn`), or where `condense` reads during one, the outcome is undefined: it works,
it loses the entry or reads any row, or the process ends. `returned`, `answered`,
`before` and `serial` are history variables by which the properties say what a
page should show: for each target and code how often, and how many in all.

## 3. The runs

Deadlock is not checked: every model comes to rest, when clients ask nothing
more, when the process has ended, when the bound is reached, or when parsing is over.

| run | bounds | shows |
|---|---|---|
| `server` | HTTPS, 3 sessions: the first asks for one page of a proxy and may never get it, the others send every kind of request, fail handshakes and reset; 2 sure threads | under `FairSpec`: `NoDanglingSession`, `SingleActivity`, `AcceptorNeverLost`, `NoStarvation`, `NoAbandonedConnection`, `ImplementsExchange`, `AcceptedIsStarted`, `RequestIsAnswered`, `TypeOK` |
| `server_reset` | HTTP, resets allowed | violation: a reset ends the process |
| `startup` | all configurations of up to 2 of 11 location statements and of 3 nested ones, 9 targets; ports around every bound, keys named twice, nowhere or elsewhere; ports taken, files or threads wanting | `HandlersMatchConfig`, `LongestPrefixWins`, `NameMatchesHandler`, `SlashTargetsAreHandled`, `PortsAreHonoured`, `KeysAreThoseNamed`, `TypeOK`, `DispatcherSpec`; under `FairSpec`, `SoundConfigIsServed` |
| `startup_documented` | the README's configuration | violation: it is never served |
| `startup_root` | two configurations with a location `/` | violation: its handler is never called on |
| `statistics_all` | 3 requests on 3 threads, well-formed or not, 2 targets, 2 codes for each | `PageIsExact`, `NeverOvercounts`, `TypeOK` |
| `statistics_lost` | 3 requests on 2 threads | violation: lost increments |
| `buffer_pieces` | all requests of 1 to 6 bytes, NULs among them, buffer of 6, nothing or one byte behind it | `BufferHoldsRequest`, `DetectionIgnoresPieces` |
| `config` | files of up to 6 items, ended anywhere, words of up to 2 of 10 characters | `TokenIsItem`, `AcceptedAsWritten`, `RejectedForCause`, `NeverUndefined`, `StacksAgree`, `AcceptsTheGrammar`, `RejectsWhatIsOutOfPlace`, `TreeIsTheFile`, `TypeOK`; the assumptions `ConfigsAreTheGrammar`, `TreePrintsAsTheFile` for all files of up to 7 tokens |
| `config_unended` | files of up to 3 items, words of one character | violation: a file that is not of the grammar is accepted without its last word |
| `handlers` | 9 locations, 20 targets, 3 paths with 2 contents, read in up to 2 pieces, 14 URLs, 3 redirections, a stack of 4 | `AnswerWasTrue`, `TargetIsMapped`, `ThrowsOnDirectoriesOnly`, `OutgoingTargetIsRest`, `NoFollowableRedirect`, `ResponseIsLastAnswer`, `TypeOK` |
| `handlers_directory` | the same | violation: a directory makes the handler throw |

Why the bounds are enough. *Server*: with three session objects two connections
are at any stage while a third accept waits, so that any two handlers meet, with
the accept as a third party; no handler looks at more than one session, and the
proofs carry the invariants and the refinement to any number, and to both versions.
That one session's requests are of one kind is enough for a blocked thread, and leaves the
others theirs. `SureThreads` is two, so that a thread is granted, or refused to the third.
*Startup*: two statements decide every conflict over one path, three nested ones every
order of visits, and the statements include each path to a `continue` or a `return
false`; the numbers are those on either side of 32767, 65535 and 0. Troubles outside come with the
shorter configurations only, since they do not depend on the locations. *Statistics*:
a lost increment takes two workers; three let one interleave with the other two. Three
requests are two before the one for the status page, so that a row and a total can be off by one
in either direction; two codes tell a row of one from a row of the other.
*RequestBuffer*: the longest marker has four bytes, and six leave room around it;
a request may fill the buffer, and one byte behind it can make a marker of its last.
*ConfigFile*: the ten characters are one of each that the code tells apart, and the
state of `ParseToken` depends on one character and the next; six items reach a block with
a statement in it, quotes, comments, a block in a block, and a word cut off behind it; longer
files are what the theorems are for. Files with a word that is nothing but escapes are of one item
(`MaxEscaped`), for nothing is claimed of them. *Handlers*: with three redirections there are chains
that end and circles of every length up to three, the one that `parse_url` makes of a directory's
trailing slash among them, which reach the stack's end; two pieces are read of one file, of two
versions of it, or of one that has gone; a call does not affect the next, so that one at a time is enough.

**Symmetry** is used in `statistics_all`, whose workers are interchangeable, and in no
run with a temporal property.

**Fairness.** `Server`'s `FairSpec`: each thread's own steps are weakly fair, since the
operating system schedules every thread. A request handler returns, also
weakly fair, except those of the `Stalling` sessions. A completion of a
given session is taken by some thread with strong fairness: the queue of an
`io_service` is first in, first out, so that each time a thread is back in
`run()` the completion is nearer to its turn. Nothing is assumed of clients and
network: reads, writes, accepts and handshakes need never complete, and the
properties speak of what the server does with what has reached it.
`Startup`'s `FairSpec`: `main()` takes its next step, because until it serves it is
a sequential program that waits for nobody.

## 4. What the code does and its documentation does not say

Each of these is a run whose expected outcome is a violation; `PROJECT.json` quotes the
line that says otherwise.

1. `server_reset`: `remote_endpoint()` throws if the client has gone since its
   request was read; the process ends (`session.cc:172`, `session.cc:183`).
2. `statistics_lost`: `request_count++` is unlocked, and increments get lost
   (`session.cc:167`). The map beside it (`session.cc:168`) is exposed to the
   same overlap, whose outcome the language leaves undefined.
3. `startup_documented`: the configuration that `README.md` shows is never served, since
   the HTTPS server is constructed without keys and throws (`server_main.cc:53`).
4. `handlers_directory`: a target that names a directory makes `FileHandler` throw, and
   the process end, where other unreadable paths get 404 (`file_handler.cc:67`).
5. `startup_root`: `location /` is dropped, as `/` has the 404 handler before the first
   statement is read (`dispatcher.cc:69`, `dispatcher.cc:101`), although `README.md:106` says of any
   path that its handler will be called on, and `dispatcher.cc:29` that `/` is a valid one.
6. `config_unended`: a word that the end of the file cuts off is forgotten
   (`config_parser.cc:224`) and the file accepted, although `config_parser.h:36` says that
   `Parse` returns true only for valid files.

The models have these as the code does, and the properties are stated around them:

* A target that does not begin with a slash, such as `*`, gets a null handler, which is
  called (`session.cc:166`): `CallNull` in `Startup`, `CallNullHandler` in `Server`.
* A plain word that is nothing but escapes is joined with the next word, or forgotten at the end
  of the file (`config_parser.cc:110`): `escaped` in `Tokenizer`, after which `TokenIsItem` is silent.
* Two requests that overlap may end the process (`session.cc:168`): `RaceEnds` in `Server`, `EndPush` in
  `Statistics`, and `Stop` in `Exchange`, where it is a reason of its own.
* A proxied host that redirects in a circle, or a directory's name to the same with a slash behind it, which
  `parse_url` takes off again (`proxy_handler.cc:29`), is asked until the stack ends
  (`proxy_handler.cc:144`): `Overflow` in `Handlers`, `StackEnds` in `Server`.
* Single quotes stay part of a word, double quotes do not, where `README.md:105` has a path
  "optionally enclosed in quotes": `ValueOf`.
* Below a location of two components the file handler takes the second for a part of the
  file's path (`file_handler.cc:34`): `TargetIsMapped` is about locations of one.
* A proxied exchange that fails is answered with an empty 200, a redirection without a
  Location is taken for one to a relative URL after reading before the string's
  beginning (`proxy_handler.cc`); the model has the outcome, not the read.
* Without a usable `ssl-port` the HTTPS server binds a port number that was never set.
* The echo handler reads on behind the target, which is a view without an end of its own.
* What follows a NUL in a request is overwritten or never seen, and the string runs on behind
  `data_` where a request fills it, which `session.cc:88` allows (`session.cc:79`). `BufferHoldsRequest`
  says what holds all the same: the text before the NUL is kept, and is what is searched first.

## 5. The proofs

Every theorem below holds for all values of the constants that satisfy the assumptions of
the module it is about (`ServerAssumption`, `DispatcherAssumption`, `StartupAssumption` and so on), which TLC
evaluates on each run; nothing else is assumed. `IInv` and `RInv` of
`ServerProofs` hold in TLC's runs of `MCServer`, for both versions, with the constants of `Server.cfg`.

| module | proves | of |
|---|---|---|
| `ServerProofs` | `TypeOK`, `NoDanglingSession`, `SingleActivity`, `AcceptorNeverLost`, `NoAbandonedConnection`, `NoStarvation`, `ImplementsExchange` | any finite set of sessions, either version, any clients |
| `StartupProofs` | `LongestPrefixWins`, `SlashTargetsAreHandled`, `HandlersMatchConfig`, `NameMatchesHandler`, `PortsAreHonoured`, `KeysAreThoseNamed`, `TypeOK`, and that `Startup` implements `DispatcherSpec` | any configurations, targets, types, orders of iteration, ports taken and files |
| `HandlersProofs` | `ThrowsOnDirectoriesOnly`, `AnswerWasTrue`, `TargetIsMapped`, `OutgoingTargetIsRest`, `NoFollowableRedirect`, `ResponseIsLastAnswer`, `TypeOK` | any locations, targets, files, webs and chains |
| `ConfigParserProofs` | `NeverUndefined`, `StacksAgree`, `AcceptsTheGrammar`, `RejectsWhatIsOutOfPlace`, `TreeIsTheFile` | files of any length |
| `ConfigFileProofs` | `TokenIsItem`, `TypeOK` and the lemma `EndIsSeen` of `Tokenizer`; `AcceptedAsWritten`, `RejectedForCause`, and of the parser in `ConfigFile` all five of the row above | files of any length, words of any length |
| `RequestBufferProofs` | `BufferHoldsRequest`, `DetectionIgnoresPieces` | any buffer size, any request that is not longer, any pieces and whatever lies behind the buffer |
| `StatisticsProofs` | `NeverOvercounts`, `PageIsExact`, `TypeOK` | any finite set of workers, any targets, codes and number of requests |
| `PathsProofs` | lemmas: what `Strip` and `Matches` do, how a match cuts a target in two, and that finite sets of lengths have a greatest | |

**Server.** None of the properties is inductive by itself. That a handler may delete its
session rests on no other activity referring to it (`SingleActivity`); that a
session armed by a handler was not armed already rests on the same; that it
is allocated rests on `NoDanglingSession`; and that the two survive an accept
rests on `AcceptorNeverLost`, which says the accepting thread is the only one. The
inductive invariant `IInv` is their conjunction with two facts about the model's
bookkeeping: `CallOK` (a thread has a completion exactly where it needs one, of
the kind of handler it is in) and `SpawnOK` (a session has a thread exactly when it
has been accepted). The lemmas `ArmEffect`, `CompleteEffect`, `TakeEffect`, `LeaveEffect` say how
the four kinds of activity change when an operation is started, completes, is taken by a thread
and is left by it; `OneSessionMoves` reduces the invariants over sessions to
the one session an action is about. One lemma for each kind of step
follows (`RunHandlerInv`, `StartSessionInv`, `HandlerReturnsInv`, `CompleteInv`, `QuietInv`,
`HandleAcceptInv`, `StartAcceptInv`), and `NextInv` collects them.
`NoStarvation` follows from `IInv` in a single state, by counting
(`PoolSuffices`): if no thread were in `run()` or about to be, each thread of the pool would
be inside a handler; by `SingleActivity` two threads are charged to two different
sessions, each of which has a thread of its own in the pool or is the accepting one; the
session whose completion is queued is yet another, and there is one more thread (`Main`)
than sessions that could be charged.

**The refinement.** `RInv` adds to `IInv` what each activity implies of its session
(`SessionOK`: a session with an accept in progress has no client, one that is read
from has no request yet, one that is written to has one), and that a session with a thread has
a client (`PeersOK`). `Statuses` is the table that follows: for each activity the
value of `statusOf`. Because a session has one activity, an action that is `Quiet` for all sessions but one
changes the status of that one at most, and one lemma per kind of step shows that this
is one of `Exchange`'s (`Onward`). That the process ends only by a `Stop` is `EndStep`: `Reason` says,
in `Exchange`'s words, why it may. `RefusalNeedsConnections` counts the pool once more: a
thread is refused only when there are at least `SureThreads` connections. `TearStep` is the step by which the
map of the statistics is `torn`: by `SingleActivity` the two threads that are in an update are
there for two sessions, both of which have been asked.

**Dispatcher.** During construction a table is that of the statements read so far: each path
was asked for first by the statement that has it, and what was asked for is there (`IsTable`); `regnum_`
counts it (`TablesOK`), and the static map has the names of both tables and no others
(`InfoOK`). Once both Dispatchers are complete they are the same table, hence the static map is
too. During a search what is found is the longest match among the keys visited, whatever is left
(`LoopOK`). The path `/` is in every table and matches every stripped target
that begins with a slash, so that such a search never ends empty. `PhaseOK` ties these to where
`main()` is. That a longest matching prefix exists at all is `LargestExists` of `PathsProofs`.

**Startup.** `SettingsOK` says what `main()` has read of the configuration by the time it has come
to a place: the shorts it keeps are those of the numbers found, a server that is bound is on one of
the ports its short stands for (`Candidates`), which the other server is not on, and the keys
loaded are those of `GetKeyPath`. `PortSurvivesShort` is the arithmetic modulo 2^16: a number up
to 65535 that is kept in a signed short and handed on as an unsigned one is the number that was
written. `WrittenNumber` rests on `StartupAssumption`: what `GetPortNumber` takes for a number has digits only.

*That `Startup` implements `DispatcherSpec`* follows step by step from the same invariant
(`StepIsAllowed`): a constructor that calls `Construct` finds nobody else's table half filled,
because `PhaseOK` ties `building` and `regnum` to the place `main()` has come to, and where it serves
both tables have been counted. *Types*: `SearchTypes` (what is visited and found are keys of
the table that is searched), `MainTypes` and `ShortsAndPorts` (every number that is kept is in the
range of its C++ type; the bounds are `PortsAssumption`'s).

**Handlers.** `CallOK` says that the call's prefix is one of the locations and matches the stripped
target, hence is no longer than the target itself; `SeenOK`, that what is at the path and in the open file
now has been noticed, as have all pieces that were read, and that an opened path was one where there was
something; `WebOK`, that the web has given
only answers it may give. With `PlaceOK` and `FilesOK` the first four properties are then inductive.
`JInv` adds to these the types (`TypeOK`, and `TypedOK` of a file's `Content-Type`) and
`OutgoingTargetIsRest`. `OutgoingTargetIsRest` and `TargetIsMapped` are about the two ways of
cutting a target behind its prefix: `PrefixAndRest` and `MatchIsPrefix` of `PathsProofs` say
that the two parts are the target again, which the dispatcher's stripping of slashes does
not affect.

**ConfigParser.** `StacksAgree` is inductive only together with `StackAscends` (the indices
on the stack ascend, hence differ, so that appending to the top block leaves the others) and
`WordHasStatement` (after a word the top block has a statement to continue).

*That `Parse` accepts the grammar* (`GInv`): while it runs, all that was read is as `IsConfig` asks
(`PlaceOK` at each place), `last_token_type` is the type of the last token that is no comment (`Before`),
and there are as many brackets as open blocks (`Depth`). A token that is rejected is at a place
of which `PlaceOK` fails, which is enough (`NoPlace`), and one that is not rejected at a place of which it
holds: this is `RejectsWhatIsOutOfPlace`, of each step (`Judged`). `TokenMore` collects what a token more makes of a file:
counts change by one or not at all, and what is said of a place does not depend on what follows it.

*That the tree is the file* (`TInv`): there is a `NginxConfig` for the file and one for each bracket
opened so far (`BlocksOK`); each has the statements that have ended in it, in their order
(`EndsOK`, by `Holds`), and the one on top one more if a word was last (`Filling`), whose size
is the number of words since the last statement's end (`WordsOK`). The next token is in the block on top (`TopIsBlock`) because the stack of blocks is
that of the open brackets (`OpenOK`): the unclosed bracket at depth *d* is that of
the block at *d* + 1 on the stack, and the last one, which `BlockAt` looks for, is the deepest (`InnerIsDeeper`).
Least and greatest elements of finite sets of places (`Max`, `MaxIsThere`) take the place of induction.

**Tokenizer.** The parser is up to three characters behind the author of the file, and how far is up
to chance; an invariant about where it is would have a case for each place in each kind of token. It
is about where the parser gets to. `Goal` is the one configuration (what is left to
read, the items it stands for, state and string) in which the parser stops once it has done all that
what is written allows: after a blank or a mark nothing is left; within a word its characters are the
string, but a backslash at its end is unread; after a word the word is not returned yet. `Leads(T)` is the
least set of configurations from which turns that return the right items lead into `T`, and `IInv` says
that the parser is in `Leads` of the goal, or of `Doom` when something is stuck to a quoted word, or has
`Ended` as `EndIsSeen` says. All this is of files without a word that is nothing but escapes (`escaped`, after
which nothing is claimed but the types, `Typed`): what is proved is `Typed /\ (~escaped => IInv)`.

A turn of the parser then moves along `Leads` (`LeadsOn`, and `TurnIs`: the action is the turn
that `NextTurn` computes), or starts at the goal, where only the end of the file can
follow (`GoalIs`, `EndIs`), or at the doom (`StuckIsSeen`). When
the author writes, fewer than two characters are unread, and no turn that can be made there looks beyond them,
so that what is written may be thought of as written when the parser has come to its goal (`WritingLater`). What is
left is one lemma for each thing that can be written, in a known configuration: `CharWritten`,
`Begun`, `WordIsReturned`, `CommentEnded`, `MarkIsRead`, `BlankIsRead`. `Leads` is a least set and no
recursion: what is needed of it is that it holds what leads into it (`LeadsBack`) and nothing else.

**ConfigFile.** A step of the two together is a step of `Tokenizer` or none, and one of
`ConfigParser` or none (`FileStep`), so that what is proved of each holds here (`PartsOK`, by
`PartsHold`, from the theorems of both modules, `ConfigParserProofs` being instantiated). What is left is
between them, and it is inductive on top of those (`FInv`): the items that were written are
the tokens that `Parse` has read and the items that are still to come, in this order (`InStep`), because a token
that is returned is the first of these (`TokenIsItem`, `TurnReturns`); and `Parse` has returned true only at the end, false
only there or at a token out of place (`Reason`). At the end `EndIsSeen` leaves at most a word that nothing ended, so that the
tokens read are all that was written unless it is `Unended` (`AllIsRead`), and the theorems about the grammar and the tree
are about what was written. This, too, is for as long as nothing is `escaped`. A word that is stuck to another is an item out of place, of which
`Parse` is told before it has read what follows. What `ConfigParserProofs` proves of
`Parse` for any tokens then holds of the tokens of a file (`ParseIsDefined`, `TreeIsBuilt`...), by `PartsRun` alone.

**RequestBuffer.** `DataOK`, as long as no NUL has come: `data_` is what has arrived followed by
zeros, so that its first NUL is where the next piece belongs. `TextKept`, in any case: the text that
the request begins with stays where it went, because `append_data` writes behind the text it
finds (`StringEnds`: a C string ends where its text does). So the string the code searches begins with that text
(`TextIsHeld`), and is all that has arrived where no NUL has come and the buffer is not full
(`StringIsArrived`); `EndIsFound` and `FoundIsEnd` are the two directions of `DetectionIgnoresPieces`.

**Statistics.** `CountsOK`: the count, and any value a worker has loaded, plus the number of
workers whose increment is still to come, is at most the number of handlers that have returned.
Plain `requestCount <= returned` does not survive a store.
`PageIsExact` is about clients that take turns, and its invariant (`SInv`) about what the turns
leave: at most one worker is busy (`SerialOK`), so that the map is not torn; it has for each target
and code as many entries as have been answered, but for the one whose worker is between the update and
the response (`TalliesOK`), and each row that the busy worker has read is what it would still read
(`PageOK`). The counts are of occurrences in a sequence; `CountAppend` is all that is needed of them.

## 6. What is only checked, and what is not modelled

Model-checked only: liveness (`AcceptedIsStarted`, `RequestIsAnswered`, `SoundConfigIsServed`),
which this prover does not do; and that `IsConfig` and `TreeOf` of `ConfigParser` say what the recursive
grammar and printer of `MCConfigFile` say, which would need induction over those: TLC
compares them for all files of up to seven tokens.

Not modelled: the logger (its sinks influence nothing), `config_parser_main` (prints a tree),
build and deployment files; HTTP syntax (a request is `complete`, `malformed` or
`unroutable`, as Beast's parser decides), TLS itself (a handshake succeeds or fails), the
HTML of the status page, the words of responses and time. The boost
libraries are modelled from how the code uses them, and marked external in `PROJECT.json`.

The two servers are run one at a time in `Server`: they share the life of the process, the
static `handler_info` (both Dispatchers are in `Dispatcher`) and the statistics (whose workers may be
sessions of either). The session that `handle_write` closes is not deleted, in the model as in the code.
Hazards without a property have a note in `PROJECT.json` that says why.

## 7. What could follow

* `Program`: both servers in one process with one `Statistics`, refining two `Exchange`s whose `Stop` is
  common to both.
