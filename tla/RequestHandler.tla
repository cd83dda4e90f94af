--------------------------- MODULE RequestHandler ---------------------------
(***************************************************************************)
(* One call of handle_request, whoever the handler is (handler.h), and the *)
(* handlers whose response does not depend on anything: echo, 404, health  *)
(* and sleep.  A handler's members do not change after its construction,   *)
(* so that calls do not affect each other.                                 *)
(*                                                                         *)
(* The characters of targets and paths are model characters: an extension  *)
(* such as ".html" is one.                                                 *)
(***************************************************************************)
EXTENDS Paths

CONSTANTS
  Locations,   \* the dispatcher's table: prefix -> handler, with its members
  Targets,     \* request targets
  Methods      \* request methods, "GET" among them

\* The dispatcher has stripped every prefix, and has the one of the 404 handler.
ASSUME LocationsAssumption ==
  /\ DOMAIN Locations \subseteq Seq(STRING)
  /\ Root \in DOMAIN Locations
  /\ \A p \in DOMAIN Locations : p # <<>> /\ Strip(p) = p

\* For any other target the dispatcher has no handler: see Dispatcher.
ASSUME TargetsAssumption ==
  Targets \subseteq Seq(STRING) /\ \A t \in Targets : t # <<>> /\ t[1] = "/"

VARIABLES
  call,        \* the request and the handler it was dispatched to
  at,          \* where handle_request is
  response     \* what it returns

callVars == <<call, at, response>>

\* A response as http::response constructs it.  A content type is a sequence:
\* the type and its parameters.
Default == [status |-> 200, type |-> <<>>, body |-> "empty"]
NotFound == [status |-> 404, type |-> <<"text/html">>, body |-> "404 Not Found"]

\* The dispatcher's choice: the longest prefix of the stripped target.
Matching(target) == {p \in DOMAIN Locations : Matches(p, Strip(target))}
PrefixFor(target) ==
  CHOOSE p \in Matching(target) : \A q \in Matching(target) : Len(q) <= Len(p)

Handler == Locations[call.prefix]

CallInit ==
  /\ \E target \in Targets, method \in Methods :
       call = [target |-> target, method |-> method, prefix |-> PrefixFor(target)]
  /\ at = "called"
  /\ response = Default

Return(r) == at' = "returned" /\ response' = r /\ UNCHANGED call

\* An exception leaves handle_request, and send_response with it.
Throw == at' = "threw" /\ UNCHANGED <<call, response>>

\* A step of a handler of the given type, from the place it is at.
Step(type, place) == Handler.type = type /\ at = place

Plain(body) == [status |-> 200, type |-> <<"text/plain">>, body |-> body]

\* Echo appends the target by its data(), which has no end of its own: what
\* follows it in memory comes along, up to the next NUL.
Echo ==
  /\ Step("EchoHandler", "called")
  /\ \E body \in {"the request", "the request and more"} : Return(Plain(body))

Health == Step("HealthHandler", "called") /\ Return(Plain("OK"))

\* The one 404 without a content type.
Handle404 == Step("404Handler", "called") /\ Return([NotFound EXCEPT !.type = <<>>])

\* SleepHandler builds its response first and then sleeps.
SleepFirst == Step("SleepHandler", "called") /\ at' = "asleep" /\ UNCHANGED <<call, response>>
WakeUp == Step("SleepHandler", "asleep") /\ Return(Plain("I slept for 5 seconds!"))

Answer == Echo \/ Health \/ Handle404 \/ SleepFirst \/ WakeUp
=============================================================================
