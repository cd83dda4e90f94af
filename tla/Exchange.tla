------------------------------ MODULE Exchange ------------------------------
(***************************************************************************)
(* What a server promises each of its clients, with nothing of threads,    *)
(* handlers or session objects: a connection is accepted, then listened    *)
(* to; a request is read at most once and gets one response; the           *)
(* connection is then closed.  A connection may be dropped while the       *)
(* server listens to it or writes to it, never between the request and its *)
(* response.  What may end the whole process is listed in Stop.            *)
(***************************************************************************)
EXTENDS Integers, FiniteSets

CONSTANTS
  Clients,      \* the connections
  SureThreads   \* threads, one for each connection, that are sure to be had

VARIABLES
  up,           \* the process runs
  torn,         \* two requests that were handled at once have spoilt the statistics
  status,       \* where each connection is
  provoking     \* an input, not a promise: the clients whose requests end the
                \* process, if anything of a single client does

exchangeVars == <<up, torn, status>>

Init ==
  /\ up = TRUE
  /\ torn = FALSE
  /\ status = [c \in Clients |-> "none"]

Move(c, from, to) ==
  /\ up
  /\ status[c] \in from
  /\ status' = [status EXCEPT ![c] = to]
  /\ UNCHANGED <<up, torn>>

Accept(c) == Move(c, {"none"}, "accepted")
Listen(c) == Move(c, {"accepted"}, "listening")
Ask(c)    == Move(c, {"listening"}, "asked")
Answer(c) == Move(c, {"asked"}, "answering")
Close(c)  == Move(c, {"answering"}, "closed")
Drop(c)   == Move(c, {"listening", "answering"}, "dropped")

Accompanied(c) == \E d \in Clients \ {c} : status[d] = "asked"

\* Two requests are handled at once, and their updates of the statistics meet.
Tear ==
  /\ up
  /\ \E c \in Clients : status[c] = "asked" /\ Accompanied(c)
  /\ torn' = TRUE
  /\ UNCHANGED <<up, status>>

\* The process ends over a request under way, or over a connection for which
\* there is no thread.
Stop ==
  /\ up
  /\ \E c \in Clients :
       \/ status[c] = "asked" /\ (c \in provoking \/ torn \/ Accompanied(c))
       \/ /\ status[c] = "accepted"
          /\ Cardinality({d \in Clients : status[d] # "none"}) >= SureThreads
  /\ up' = FALSE
  /\ UNCHANGED <<torn, status>>

Next ==
  \/ Tear \/ Stop
  \/ \E c \in Clients :
       Accept(c) \/ Listen(c) \/ Ask(c) \/ Answer(c) \/ Close(c) \/ Drop(c)

Spec == Init /\ [][Next]_exchangeVars
=============================================================================
