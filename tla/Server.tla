------------------------------- MODULE Server -------------------------------
(***************************************************************************)
(* One server of the program (server.cc), its sessions (session.cc) and    *)
(* the pool of threads that run its io_service.                            *)
(*                                                                         *)
(* Every accepted connection gets a thread that starts the session and     *)
(* then calls io_service.run() for ever; the pool therefore grows by one   *)
(* thread per connection and any handler may run on any thread of it.  No  *)
(* lock or strand protects a session: what does is that at most one        *)
(* asynchronous operation or handler refers to a session at a time.        *)
(*                                                                         *)
(* main() builds one such server for HTTP and one for HTTPS, each with an  *)
(* io_service of its own; Version tells which of the two this is.  They    *)
(* share the process and the statistics: the other is taken to be idle.    *)
(***************************************************************************)
EXTENDS Integers, FiniteSets

CONSTANTS
  Sessions,    \* the session objects that may be allocated: bounds the connections
  Version,     \* server::version_, "http" or "https"
  Stalling,    \* sessions whose requests a ProxyHandler answers: it may block for
               \* ever, or follow redirections to the end of its stack
  SureThreads, \* threads the operating system is sure to let this pool have
  Sends(_),    \* what the client of a session puts on its connection
  Resetting,   \* sessions whose clients may reset the connection
  Main,        \* the thread main() gives the io_service at startup
  NoCall       \* a thread that runs no handler

\* A request the read handler considers to be at its end.  An unroutable one has
\* no handler, or one that throws.
Requests == {"complete", "malformed", "unroutable"}

ASSUME ServerAssumption ==
  /\ IsFiniteSet(Sessions) /\ Sessions # {}
  /\ Main \notin Sessions
  /\ Version \in {"http", "https"}
  /\ Stalling \subseteq Sessions
  /\ SureThreads \in Nat \ {0}
  /\ \A s \in Sessions : Sends(s) \subseteq {"partial"} \cup Requests
  /\ Resetting \subseteq Sessions
  /\ NoCall \notin [op : {"accept", "handshake", "read", "write"},
                    sess : Sessions, ok : BOOLEAN]

VARIABLES
  alive,     \* the process has not been terminated
  torn,      \* two updates of handled_requests, a std::map, have overlapped
  object,    \* the memory of each session object
  socket,    \* its socket
  data,      \* what its data_ buffer holds
  armed,     \* asynchronous operations that have been started and not completed
  ready,     \* completions queued on the io_service, with their error code
  at,        \* where each thread is
  call,      \* the completion whose handler a thread runs
  peer,      \* the client at the other end of each connection
  inflight   \* what that client has sent and data_ has not received

vars == <<alive, torn, object, socket, data, armed, ready, at, call, peer, inflight>>

Ops == {"accept", "handshake", "read", "write"}
Operation == [op : Ops, sess : Sessions]
Completion == [op : Ops, sess : Sessions, ok : BOOLEAN]

\* The thread spawned for a session carries the name of that session.
Threads == Sessions \cup {Main}

HandlerOf == [op \in Ops |->
  CASE op = "accept"    -> "handle_accept"
    [] op = "handshake" -> "handle_handshake"
    [] op = "read"      -> "handle_read"
    [] op = "write"     -> "handle_write"]

\* Places inside a handler where the session it was called for is still used.
SessionLabels == {"handle_accept", "handle_handshake", "handle_read",
                  "handle_request", "count_request", "remote_endpoint",
                  "handle_write"}
Labels == {"unborn", "start_session", "run", "start_accept"} \cup SessionLabels

\* The threads that update handled_requests.
Updating == {t \in Threads : at[t] = "count_request"}

\* Between the request and its response.
Responding == {"handle_request", "count_request", "remote_endpoint"}

Pool == {t \in Threads : at[t] # "unborn"}

TypeOK ==
  /\ alive \in BOOLEAN
  /\ torn \in BOOLEAN
  /\ object \in [Sessions -> {"raw", "allocated", "deleted"}]
  /\ socket \in [Sessions -> {"idle", "open", "closed"}]
  /\ data \in [Sessions -> {"empty", "partial"} \cup Requests]
  /\ armed \subseteq Operation
  /\ ready \subseteq Completion
  /\ at \in [Threads -> Labels]
  /\ call \in [Threads -> Completion \cup {NoCall}]
  /\ peer \in [Sessions -> {"absent", "connected", "finished", "reset"}]
  /\ inflight \in [Sessions -> {"nothing", "partial"} \cup Requests]

-----------------------------------------------------------------------------
\* What new session(...) allocates.  Which of the objects that are left it is
\* makes no difference.
Raw == {s \in Sessions : object[s] = "raw"}
NewSession(raw) == CHOOSE s \in raw : TRUE

\* The constructor has called start_accept: one session waits for the first
\* connection, and one thread runs the io_service.

Init ==
  /\ alive = TRUE
  /\ torn = FALSE
  /\ LET first == NewSession(Sessions)
     IN  /\ object = [s \in Sessions |-> IF s = first THEN "allocated" ELSE "raw"]
         /\ armed = {[op |-> "accept", sess |-> first]}
  /\ socket = [s \in Sessions |-> "idle"]
  /\ data = [s \in Sessions |-> "empty"]
  /\ ready = {}
  /\ at = [t \in Threads |-> IF t = Main THEN "run" ELSE "unborn"]
  /\ call = [t \in Threads |-> NoCall]
  /\ peer = [s \in Sessions |-> "absent"]
  /\ inflight = [s \in Sessions |-> "nothing"]

-----------------------------------------------------------------------------
\* async_accept, async_handshake, async_read_some and async_write return at once.
Arm(op, s) == armed' = armed \cup {[op |-> op, sess |-> s]}

GoTo(t, label) == at' = [at EXCEPT ![t] = label]

\* The handler returns, and its thread is back in io_service.run().
Return(t) ==
  /\ GoTo(t, "run")
  /\ call' = [call EXCEPT ![t] = NoCall]

\* An exception that leaves a handler, or a null dereference in it, ends the process.
Terminate(t) ==
  /\ alive' = FALSE
  /\ UNCHANGED <<torn, object, socket, data, armed, ready, at, call, peer, inflight>>

\* An operation completes: its handler is queued with error code ok.
Complete(a, ok) ==
  /\ armed' = armed \ {a}
  /\ ready' = ready \cup {[op |-> a.op, sess |-> a.sess, ok |-> ok]}

-----------------------------------------------------------------------------
(* Seeded faults: actions below with a plausible slip in them, and small   *)
(* operators, each next to its faulty form.  PROJECT.json names the        *)
(* property that notices each of them.                                     *)

\* handle_read deletes the session and goes on to read again.
HandleReadErrorGoesOn(t) ==
  /\ alive
  /\ at[t] = "handle_read"
  /\ ~call[t].ok
  /\ object' = [object EXCEPT ![call[t].sess] = "deleted"]
  /\ Arm("read", call[t].sess)
  /\ Return(t)
  /\ UNCHANGED <<alive, torn, socket, data, ready, peer, inflight>>

\* handle_read without the else: reads on, and answers as well.
CallHandlerAndReadOn(t) ==
  /\ alive
  /\ at[t] = "handle_read"
  /\ call[t].ok
  /\ data[call[t].sess] = "complete"
  /\ Arm("read", call[t].sess)
  /\ GoTo(t, "handle_request")
  /\ UNCHANGED <<alive, torn, object, socket, data, ready, call, peer, inflight>>

\* handle_accept starts the session itself, without a thread for it.
SpawnNoThread(t) ==
  /\ alive
  /\ at[t] = "handle_accept"
  /\ call[t].ok
  /\ Arm(IF Version = "https" THEN "handshake" ELSE "read", call[t].sess)
  /\ GoTo(t, "start_accept")
  /\ UNCHANGED <<alive, torn, object, socket, data, ready, call, peer, inflight>>

\* handle_accept returns after an error instead of accepting again.
AfterAcceptErrorReturn == "run"
AfterAcceptError == "start_accept"

\* start_session lets its thread end.
AfterStartExit == "unborn"
AfterStart == "run"

\* handle_write leaves the socket open for a second request.
AfterWriteOpen == "open"
AfterWrite == "closed"

\* A read completes although no byte has arrived.
ArrivedOrNot(s) == TRUE
Arrived(s) == inflight[s] # "nothing"

-----------------------------------------------------------------------------
(* Steps of the threads of the pool.                                       *)

\* io_service.run() takes a completion of session s from its queue.
RunHandler(t, s) ==
  /\ alive
  /\ at[t] = "run"
  /\ \E c \in ready :
       /\ c.sess = s
       /\ ready' = ready \ {c}
       /\ call' = [call EXCEPT ![t] = c]
       /\ GoTo(t, HandlerOf[c.op])
  /\ UNCHANGED <<alive, torn, object, socket, data, armed, peer, inflight>>

\* A first step of the thread spawned for session s: session::start(), then run().
StartSession(s) ==
  /\ alive
  /\ at[s] = "start_session"
  /\ IF Version = "https"
       THEN Arm("handshake", s) /\ UNCHANGED data
       ELSE Arm("read", s) /\ data' = [data EXCEPT ![s] = "empty"]
  /\ GoTo(s, AfterStart)
  /\ UNCHANGED <<alive, torn, object, socket, ready, call, peer, inflight>>

\* server::handle_accept when the accept succeeded: spawns the session's thread.
SpawnThread(t) ==
  /\ alive
  /\ at[t] = "handle_accept"
  /\ call[t].ok
  /\ at' = [at EXCEPT ![t] = "start_accept", ![call[t].sess] = "start_session"]
  /\ UNCHANGED <<alive, torn, object, socket, data, armed, ready, call, peer, inflight>>

\* The same when boost::thread's constructor throws thread_resource_error: the
\* operating system may refuse what goes beyond SureThreads.
SpawnFails(t) ==
  /\ alive
  /\ at[t] = "handle_accept"
  /\ call[t].ok
  /\ Cardinality(Pool) >= SureThreads
  /\ Terminate(t)

\* server::handle_accept when the accept failed.
HandleAcceptError(t) ==
  /\ alive
  /\ at[t] = "handle_accept"
  /\ ~call[t].ok
  /\ object' = [object EXCEPT ![call[t].sess] = "deleted"]
  /\ GoTo(t, AfterAcceptError)
  /\ UNCHANGED <<alive, torn, socket, data, armed, ready, call, peer, inflight>>

\* server::start_accept: allocates a session and waits for the next connection.
StartAccept(t) ==
  /\ alive
  /\ at[t] = "start_accept"
  /\ Raw # {}
  /\ object' = [object EXCEPT ![NewSession(Raw)] = "allocated"]
  /\ Arm("accept", NewSession(Raw))
  /\ Return(t)
  /\ UNCHANGED <<alive, torn, socket, data, ready, peer, inflight>>

\* session::handle_handshake.
HandleHandshake(t) ==
  /\ alive
  /\ at[t] = "handle_handshake"
  /\ LET s == call[t].sess
     IN  \/ /\ call[t].ok
            /\ data' = [data EXCEPT ![s] = "empty"]
            /\ Arm("read", s)
            /\ UNCHANGED object
         \/ /\ ~call[t].ok
            /\ object' = [object EXCEPT ![s] = "deleted"]
            /\ UNCHANGED <<data, armed>>
  /\ Return(t)
  /\ UNCHANGED <<alive, torn, socket, ready, peer, inflight>>

\* session::handle_read when the read failed, or met the end of the stream.
HandleReadError(t) ==
  /\ alive
  /\ at[t] = "handle_read"
  /\ ~call[t].ok
  /\ object' = [object EXCEPT ![call[t].sess] = "deleted"]
  /\ Return(t)
  /\ UNCHANGED <<alive, torn, socket, data, armed, ready, peer, inflight>>

\* session::append_data: the end of the request is still to come.
AppendData(t) ==
  /\ alive
  /\ at[t] = "handle_read"
  /\ call[t].ok
  /\ data[call[t].sess] \notin Requests
  /\ Arm("read", call[t].sess)
  /\ Return(t)
  /\ UNCHANGED <<alive, torn, object, socket, data, ready, peer, inflight>>

\* session::send_response, the parser refuses the request: answers 400.
SendBadRequest(t) ==
  /\ alive
  /\ at[t] = "handle_read"
  /\ call[t].ok
  /\ data[call[t].sess] = "malformed"
  /\ Arm("write", call[t].sess)
  /\ Return(t)
  /\ UNCHANGED <<alive, torn, object, socket, data, ready, peer, inflight>>

\* session::send_response calls handle_request through the null handler that
\* get_request_handler returns for a target such as "*", or one that throws, as
\* FileHandler does on a directory.
CallNullHandler(t) ==
  /\ alive
  /\ at[t] = "handle_read"
  /\ call[t].ok
  /\ data[call[t].sess] = "unroutable"
  /\ Terminate(t)

\* session::send_response enters the request handler.
CallHandler(t) ==
  /\ alive
  /\ at[t] = "handle_read"
  /\ call[t].ok
  /\ data[call[t].sess] = "complete"
  /\ GoTo(t, "handle_request")
  /\ UNCHANGED <<alive, torn, object, socket, data, armed, ready, call, peer, inflight>>

\* The request handler returns; request_count++ and the update of
\* handled_requests begin.
HandleRequest(t) ==
  /\ alive
  /\ at[t] = "handle_request"
  /\ torn' = (torn \/ Updating # {})
  /\ GoTo(t, "count_request")
  /\ UNCHANGED <<alive, object, socket, data, armed, ready, call, peer, inflight>>

\* ProxyHandler's issue_outside_request calls itself for every redirection.
StackEnds(t) ==
  /\ alive
  /\ at[t] = "handle_request"
  /\ call[t].sess \in Stalling
  /\ Terminate(t)

\* The update ends.  What overlapping updates do to the map is undefined, then
\* and whenever it is used again; one outcome is that nothing shows.
CountRequest(t) ==
  /\ alive
  /\ at[t] = "count_request"
  /\ GoTo(t, "remote_endpoint")
  /\ UNCHANGED <<alive, torn, object, socket, data, armed, ready, call, peer, inflight>>

\* Another is the end of the process, in an update or in a StatusHandler, which
\* walks the map and must not meet an update either.
RaceEnds(t) ==
  /\ alive
  /\ \/ at[t] = "count_request" /\ torn
     \/ at[t] = "handle_request" /\ (torn \/ Updating # {})
  /\ Terminate(t)

\* The rest of send_response, for a client that is still there.
SendResponse(t) ==
  /\ alive
  /\ at[t] = "remote_endpoint"
  /\ peer[call[t].sess] # "reset"
  /\ Arm("write", call[t].sess)
  /\ Return(t)
  /\ UNCHANGED <<alive, torn, object, socket, data, ready, peer, inflight>>

\* remote_endpoint() throws: the connection has been reset since the read.
RemoteEndpointThrows(t) ==
  /\ alive
  /\ at[t] = "remote_endpoint"
  /\ peer[call[t].sess] = "reset"
  /\ Terminate(t)

\* session::handle_write.  The session it closes is not deleted.
HandleWrite(t) ==
  /\ alive
  /\ at[t] = "handle_write"
  /\ LET s == call[t].sess
     IN  \/ /\ call[t].ok
            /\ data' = [data EXCEPT ![s] = "empty"]
            /\ socket' = [socket EXCEPT ![s] = AfterWrite]
            /\ UNCHANGED object
         \/ /\ ~call[t].ok
            /\ object' = [object EXCEPT ![s] = "deleted"]
            /\ UNCHANGED <<data, socket>>
  /\ Return(t)
  /\ UNCHANGED <<alive, torn, armed, ready, peer, inflight>>

-----------------------------------------------------------------------------
(* The operating system and the clients.                                   *)

\* A client connects.  The bound: while a session is left for start_accept.
Connect(a) ==
  /\ alive
  /\ a \in armed /\ a.op = "accept"
  /\ Raw # {}
  /\ Complete(a, TRUE)
  /\ socket' = [socket EXCEPT ![a.sess] = "open"]
  /\ peer' = [peer EXCEPT ![a.sess] = "connected"]
  /\ UNCHANGED <<alive, torn, object, data, at, call, inflight>>

\* accept() fails, for instance for want of a file descriptor.  Same bound.
AcceptFails(a) ==
  /\ alive
  /\ a \in armed /\ a.op = "accept"
  /\ Raw # {}
  /\ Complete(a, FALSE)
  /\ UNCHANGED <<alive, torn, object, socket, data, at, call, peer, inflight>>

\* The TLS handshake ends, one way or the other.
HandshakeDone(a, ok) ==
  /\ alive
  /\ a \in armed /\ a.op = "handshake"
  /\ ok => peer[a.sess] # "reset"
  /\ Complete(a, ok)
  /\ UNCHANGED <<alive, torn, object, socket, data, at, call, peer, inflight>>

\* Bytes of the client reach data_.
ReadDone(a) ==
  /\ alive
  /\ a \in armed /\ a.op = "read"
  /\ Arrived(a.sess)
  /\ Complete(a, TRUE)
  /\ data' = [data EXCEPT ![a.sess] = inflight[a.sess]]
  /\ inflight' = [inflight EXCEPT ![a.sess] = "nothing"]
  /\ UNCHANGED <<alive, torn, object, socket, at, call, peer>>

\* The read meets the end of the stream or a reset.
ReadFails(a) ==
  /\ alive
  /\ a \in armed /\ a.op = "read"
  /\ \/ peer[a.sess] = "finished" /\ inflight[a.sess] = "nothing"
     \/ peer[a.sess] = "reset"
  /\ Complete(a, FALSE)
  /\ UNCHANGED <<alive, torn, object, socket, data, at, call, peer, inflight>>

\* The response has been handed to the kernel, or could not be.
WriteDone(a, ok) ==
  /\ alive
  /\ a \in armed /\ a.op = "write"
  /\ ~ok => peer[a.sess] = "reset"
  /\ Complete(a, ok)
  /\ UNCHANGED <<alive, torn, object, socket, data, at, call, peer, inflight>>

\* A client sends one request, in as many pieces as it likes.
ClientSends(s, d) ==
  /\ alive
  /\ peer[s] = "connected"
  /\ socket[s] = "open"
  /\ data[s] \notin Requests
  /\ inflight[s] \in {"nothing", "partial"} \ {d}
  /\ inflight' = [inflight EXCEPT ![s] = d]
  /\ UNCHANGED <<alive, torn, object, socket, data, armed, ready, at, call, peer>>

\* A client ends its side of the connection.
ClientFinishes(s) ==
  /\ alive
  /\ peer[s] = "connected"
  /\ peer' = [peer EXCEPT ![s] = "finished"]
  /\ UNCHANGED <<alive, torn, object, socket, data, armed, ready, at, call, inflight>>

\* A client resets the connection.
ClientResets(s) ==
  /\ alive
  /\ s \in Resetting
  /\ peer[s] \in {"connected", "finished"}
  /\ peer' = [peer EXCEPT ![s] = "reset"]
  /\ UNCHANGED <<alive, torn, object, socket, data, armed, ready, at, call, inflight>>

-----------------------------------------------------------------------------
\* What a thread does between taking a completion and being back in run(), the
\* call of the request handler apart.
ThreadStep(t) ==
  \/ SpawnThread(t) \/ SpawnFails(t) \/ HandleAcceptError(t) \/ StartAccept(t)
  \/ HandleHandshake(t)
  \/ HandleReadError(t) \/ AppendData(t) \/ SendBadRequest(t)
  \/ CallNullHandler(t) \/ CallHandler(t)
  \/ CountRequest(t) \/ SendResponse(t) \/ RemoteEndpointThrows(t)
  \/ HandleWrite(t)

Client(s) ==
  \/ \E d \in Sends(s) : ClientSends(s, d)
  \/ ClientFinishes(s)
  \/ ClientResets(s)

Kernel(a) ==
  \/ Connect(a) \/ AcceptFails(a)
  \/ ReadDone(a) \/ ReadFails(a)
  \/ \E ok \in BOOLEAN : HandshakeDone(a, ok) \/ WriteDone(a, ok)

Next ==
  \/ \E t \in Threads : ThreadStep(t) \/ HandleRequest(t) \/ StackEnds(t) \/ RaceEnds(t)
  \/ \E t \in Threads, s \in Sessions : RunHandler(t, s)
  \/ \E s \in Sessions : StartSession(s) \/ Client(s)
  \/ \E a \in armed : Kernel(a)

\* A thread the scheduler never forgets, and a queue of completions that is
\* first in, first out: a completion cannot be passed over for ever.  Request
\* handlers return, those of the Stalling sessions excepted.  Nothing is
\* assumed of the clients or of the network.
Fairness ==
  /\ \A t \in Threads : WF_vars(ThreadStep(t))
  /\ \A t \in Threads : WF_vars(HandleRequest(t) /\ call[t].sess \notin Stalling)
  /\ \A s \in Sessions : WF_vars(StartSession(s))
  /\ \A s \in Sessions : SF_vars(\E t \in Threads : RunHandler(t, s))

Spec == Init /\ [][Next]_vars
FairSpec == Spec /\ Fairness

-----------------------------------------------------------------------------
(* Properties.                                                             *)

\* Thread t is inside a handler that still uses session s.
Uses(t, s) == at[t] \in SessionLabels /\ call[t].sess = s

Armed(s) == \E a \in armed : a.sess = s
Queued(s) == \E c \in ready : c.sess = s
Used(s) == \E t \in Threads : Uses(t, s)
Starting(s) == at[s] = "start_session"

\* A session is deleted by its own error handlers ("delete this") and by
\* handle_accept.  Nothing that is still to come may refer to a deleted one:
\* no operation in progress, no queued completion, no handler, no new thread.
NoDanglingSession ==
  \A s \in Sessions :
    Armed(s) \/ Queued(s) \/ Used(s) \/ Starting(s) => object[s] = "allocated"

\* The sessions have neither lock nor strand, and any thread may run any
\* handler: data_ and buffer_ are safe because at most one operation,
\* completion, handler or starting thread refers to a session.
SingleActivity ==
  /\ \A a, b \in armed : a.sess = b.sess => a = b
  /\ \A c, d \in ready : c.sess = d.sess => c = d
  /\ \A s \in Sessions :
       /\ \A t, u \in Threads : Uses(t, s) /\ Uses(u, s) => t = u
       /\ Armed(s) => ~Queued(s) /\ ~Used(s) /\ ~Starting(s)
       /\ Queued(s) => ~Used(s) /\ ~Starting(s)
       /\ Used(s) => ~Starting(s)

\* Thread t is on its way to the next async_accept.
Accepting(t) ==
  \/ at[t] = "start_accept"
  \/ at[t] = "handle_accept"

\* Whatever becomes of a connection, the server goes on accepting: there is
\* always exactly one of an accept in progress, a completed one, and a thread
\* between handle_accept and the async_accept that follows it.  It is also
\* what keeps io_service.run() from returning in the threads of the pool.
AcceptorNeverLost ==
  LET waiting == {a \in armed : a.op = "accept"}
      queued == {c \in ready : c.op = "accept"}
      threads == {t \in Threads : Accepting(t)}
  IN  /\ waiting # {} \/ queued # {} \/ threads # {}
      /\ waiting # {} => queued = {} /\ threads = {}
      /\ queued # {} => threads = {}
      /\ \A a, b \in waiting : a = b
      /\ \A c, d \in queued : c = d
      /\ \A t, u \in threads : t = u

\* One blocked thread per connection never exhausts the pool: when a handler
\* is queued, some thread is in run(), or about to be.
NoStarvation ==
  alive /\ ready # {} => \E t \in Threads : at[t] \in {"run", "start_session"}

\* A connection is never left open with nothing to be done about it: neither
\* closed nor waited upon, its client would wait for ever.
NoAbandonedConnection ==
  \A s \in Sessions :
    socket[s] = "open" /\ object[s] = "allocated" =>
      Armed(s) \/ Queued(s) \/ Used(s) \/ Starting(s)

-----------------------------------------------------------------------------
(* The server implements Exchange.                                         *)

\* A connection the kernel has accepted and whose session is not started yet.
Accepted(s) ==
  /\ socket[s] = "open"
  /\ \/ \E c \in ready : c.op = "accept" /\ c.sess = s
     \/ \E t \in Threads : at[t] = "handle_accept" /\ call[t].sess = s
     \/ Starting(s)

\* A request is in data_ and its response is not on its way.
Asked(s) ==
  /\ data[s] \in Requests
  /\ \/ \E c \in ready : c.op = "read" /\ c.sess = s
     \/ \E t \in Threads : Uses(t, s) /\ at[t] # "handle_write"

statusOf(s) ==
  IF peer[s] = "absent" THEN "none"
  ELSE IF object[s] = "deleted" THEN "dropped"
  ELSE IF socket[s] = "closed" THEN "closed"
  ELSE IF Accepted(s) THEN "accepted"
  ELSE IF Asked(s) THEN "asked"
  ELSE IF data[s] \in Requests THEN "answering"
  ELSE "listening"

\* A session with a reason for the process to end between its request and its
\* response: a reset, a request without a good handler, a proxy's redirections.
Provokes(s) == peer[s] = "reset" \/ data[s] = "unroutable" \/ s \in Stalling

Abstract == INSTANCE Exchange WITH
  Clients     <- Sessions,
  SureThreads <- SureThreads,
  up          <- alive,
  torn        <- torn,
  provoking   <- {s \in Sessions : Provokes(s)},
  status      <- [s \in Sessions |-> statusOf(s)]

\* Each client sees the exchange it is promised: one response per request, no
\* connection dropped between the two.  The process ends only over a request
\* under way that provokes it, over one in company or after there have been two
\* at once, or for want of a thread, never for what a client does before its
\* request or after its response.  (So long as the other server of the process
\* has no requests: they would be company as well.)
ImplementsExchange == Abstract!Spec

\* Every accepted connection is eventually listened to, even while other
\* sessions hold their threads for ever: the reason for a thread per session.
AcceptedIsStarted == \A s \in Sessions : Accepted(s) ~> ~Accepted(s) \/ ~alive

\* Every complete request is eventually answered, even while the Stalling
\* sessions hold their threads for ever.
RequestIsAnswered ==
  \A s \in Sessions \ Stalling : Asked(s) ~> ~Asked(s) \/ ~alive
=============================================================================
