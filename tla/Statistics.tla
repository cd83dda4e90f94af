----------------------------- MODULE Statistics -----------------------------
(***************************************************************************)
(* The request statistics: session::request_count and                      *)
(* session::handled_requests, statics that every session updates after its *)
(* handler has returned (session.cc), and that StatusHandler reads         *)
(* (status_handler.cc).  Nothing locks them, and sessions run on several   *)
(* threads.                                                                *)
(*                                                                         *)
(* request_count++ is a load and a store.  An update of the map takes      *)
(* time; once two have overlapped, what an update or a reading of the map  *)
(* does is undefined: what it should, something else, or the end of the    *)
(* process.                                                                *)
(***************************************************************************)
EXTENDS Integers, Sequences, FiniteSets

CONSTANTS
  Workers,      \* sessions with a request to handle
  Uris,         \* request targets
  StatusUri,    \* the one the StatusHandler serves
  Codes,        \* the codes with which handlers answer
  MaxRequests   \* bounds the number of requests

ASSUME StatisticsAssumption ==
  /\ IsFiniteSet(Workers)
  /\ StatusUri \in Uris
  /\ 200 \in Codes
  /\ MaxRequests \in Nat

VARIABLES
  alive,           \* the process has not been terminated
  requestCount,    \* session::request_count
  handledRequests, \* session::handled_requests: the codes of each target
  pc,              \* where each worker is
  uri,             \* the target of its request
  code,            \* the code of its response
  register,        \* what it has loaded of request_count
  torn,            \* two updates of the map have overlapped
  unread,          \* the targets its condense() has still to visit
  rows,            \* the rows it has condensed: for each target and code, how often
  total,           \* the total on its status page
  started,         \* requests started so far
  serial,          \* history: so far each was answered before the next was sent
  returned,        \* history: requests whose handler has returned
  answered,        \* history: target and code of the requests that a handler has
                   \* answered, when the client has its response
  before           \* history: answered when each worker's request started

\* What only status pages are made of, and what only the histories are.
pageVars == <<unread, rows, total>>
historyVars == <<started, serial, returned, answered, before>>
vars == <<alive, requestCount, handledRequests, pc, uri, code, register, torn, pageVars,
          historyVars>>

Busy == {w \in Workers : pc[w] # "idle"}
Updating == {w \in Workers : pc[w] = "pushing"}
GoTo(w, label) == pc' = [pc EXCEPT ![w] = label]

\* How often something occurs in a list: each row of condense() is such a number.
CountOf(list, entry) == Cardinality({i \in DOMAIN list : list[i] = entry})

NoRows == [u \in Uris |-> [c \in Codes |-> 0]]

-----------------------------------------------------------------------------
Init ==
  /\ alive = TRUE
  /\ requestCount = 0
  /\ handledRequests = [u \in Uris |-> <<>>]
  /\ pc = [w \in Workers |-> "idle"]
  /\ uri = [w \in Workers |-> StatusUri]
  /\ code = [w \in Workers |-> 200]
  /\ register = [w \in Workers |-> 0]
  /\ torn = FALSE
  /\ unread = [w \in Workers |-> {}]
  /\ rows = [w \in Workers |-> NoRows]
  /\ total = [w \in Workers |-> 0]
  /\ started = 0
  /\ serial = TRUE
  /\ returned = 0
  /\ answered = <<>>
  /\ before = [w \in Workers |-> <<>>]

-----------------------------------------------------------------------------
\* A request has been read.
Begin(w) ==
  /\ alive
  /\ pc[w] = "idle"
  /\ started < MaxRequests
  /\ started' = started + 1
  /\ serial' = (serial /\ Busy = {})

\* Seeded fault of AtStart: the request is counted before its handler runs.
AtStartCounted == requestCount + 1
AtStart == requestCount

\* get_request_handler has found its handler.
Start(w, u) ==
  /\ Begin(w)
  /\ GoTo(w, IF u = StatusUri THEN "condensing" ELSE "handling")
  /\ uri' = [uri EXCEPT ![w] = u]
  /\ unread' = [unread EXCEPT ![w] = IF u = StatusUri THEN Uris ELSE {}]
  /\ rows' = [rows EXCEPT ![w] = NoRows]
  /\ before' = [before EXCEPT ![w] = answered]
  /\ requestCount' = AtStart
  /\ UNCHANGED <<alive, handledRequests, code, register, torn, total, returned, answered>>

\* Or it is malformed: it is answered with 400, and neither handled nor counted.
Refuse(w) ==
  /\ Begin(w)
  /\ GoTo(w, "refusing")
  /\ UNCHANGED <<alive, requestCount, handledRequests, uri, code, register, torn, pageVars,
                 returned, answered, before>>

\* StatusHandler::condense, one target of the map.  What it reads while another
\* worker updates the map, or of a torn one, is undefined: any rows, or the end of
\* the process.
Condense(w, u) ==
  /\ alive
  /\ pc[w] = "condensing"
  /\ u \in unread[w]
  /\ unread' = [unread EXCEPT ![w] = @ \ {u}]
  /\ \/ /\ rows' = [rows EXCEPT ![w][u] = [c \in Codes |-> CountOf(handledRequests[u], c)]]
        /\ UNCHANGED alive
     \/ /\ torn \/ Updating # {}
        /\ \E n \in {0, MaxRequests} : rows' = [rows EXCEPT ![w][u] = [c \in Codes |-> n]]
        /\ alive' \in BOOLEAN
  /\ UNCHANGED <<requestCount, handledRequests, pc, uri, code, register, torn, total, historyVars>>

\* Any other handler returns.
Handle(w, c) ==
  /\ alive
  /\ pc[w] = "handling"
  /\ code' = [code EXCEPT ![w] = c]
  /\ returned' = returned + 1
  /\ GoTo(w, "counting")
  /\ UNCHANGED <<alive, requestCount, handledRequests, uri, register, torn, pageVars,
                 started, serial, answered, before>>

\* Seeded fault of Total: the status page counts its own request.
TotalWithSelf == requestCount + 1
Total == requestCount

\* The rest of StatusHandler::handle_request: the total is read last.
ReadTotal(w) ==
  /\ alive
  /\ pc[w] = "condensing"
  /\ unread[w] = {}
  /\ total' = [total EXCEPT ![w] = Total]
  /\ code' = [code EXCEPT ![w] = 200]
  /\ returned' = returned + 1
  /\ GoTo(w, "counting")
  /\ UNCHANGED <<alive, requestCount, handledRequests, uri, register, torn, unread, rows,
                 started, serial, answered, before>>

\* request_count++: its load, then its store.
LoadCount(w) ==
  /\ alive
  /\ pc[w] = "counting"
  /\ register' = [register EXCEPT ![w] = requestCount]
  /\ GoTo(w, "loaded")
  /\ UNCHANGED <<alive, requestCount, handledRequests, uri, code, torn, pageVars, historyVars>>

StoreCount(w) ==
  /\ alive
  /\ pc[w] = "loaded"
  /\ requestCount' = register[w] + 1
  /\ GoTo(w, "counted")
  /\ UNCHANGED <<alive, handledRequests, uri, code, register, torn, pageVars, historyVars>>

\* handled_requests[uri].push_back(code) begins.
BeginPush(w) ==
  /\ alive
  /\ pc[w] = "counted"
  /\ GoTo(w, "pushing")
  /\ torn' = (torn \/ Updating # {})
  /\ UNCHANGED <<alive, requestCount, handledRequests, uri, code, register, pageVars, historyVars>>

\* It ends: as meant, or, when the map is torn, without effect, or it ends the
\* process.
EndPush(w) ==
  /\ alive
  /\ pc[w] = "pushing"
  /\ \/ /\ handledRequests' = [handledRequests EXCEPT ![uri[w]] = Append(@, code[w])]
        /\ GoTo(w, "responding")
        /\ UNCHANGED alive
     \/ /\ torn
        /\ GoTo(w, "responding")
        /\ UNCHANGED <<alive, handledRequests>>
     \/ /\ torn
        /\ alive' = FALSE
        /\ UNCHANGED <<pc, handledRequests>>
  /\ UNCHANGED <<requestCount, uri, code, register, torn, pageVars, historyVars>>

\* async_write: the client has its response.
Respond(w) ==
  /\ alive
  /\ pc[w] \in {"responding", "refusing"}
  /\ answered' = IF pc[w] = "responding" THEN Append(answered, <<uri[w], code[w]>>)
                 ELSE answered
  /\ GoTo(w, "idle")
  /\ UNCHANGED <<alive, requestCount, handledRequests, uri, code, register, torn, pageVars,
                 started, serial, returned, before>>

Next ==
  \E w \in Workers :
    \/ \E u \in Uris : Start(w, u) \/ Condense(w, u)
    \/ \E c \in Codes : Handle(w, c)
    \/ Refuse(w) \/ ReadTotal(w) \/ LoadCount(w) \/ StoreCount(w)
    \/ BeginPush(w) \/ EndPush(w) \/ Respond(w)

Spec == Init /\ [][Next]_vars

-----------------------------------------------------------------------------
(* Properties.                                                             *)

TypeOK ==
  /\ {alive, torn, serial} \subseteq BOOLEAN
  /\ {requestCount, started, returned} \subseteq 0 .. MaxRequests
  /\ handledRequests \in [Uris -> Seq(Codes)]
  /\ pc \in [Workers -> {"idle", "refusing", "condensing", "handling", "counting", "loaded",
                         "counted", "pushing", "responding"}]
  /\ uri \in [Workers -> Uris] /\ code \in [Workers -> Codes]
  /\ register \in [Workers -> 0 .. MaxRequests] /\ total \in [Workers -> 0 .. MaxRequests]
  /\ unread \in [Workers -> SUBSET Uris]
  /\ rows \in [Workers -> [Uris -> [Codes -> Nat]]]
  /\ answered \in Seq(Uris \X Codes) /\ before \in [Workers -> Seq(Uris \X Codes)]

\* Worker w has built a status page and not sent it yet.
HasPage(w) ==
  uri[w] = StatusUri /\ pc[w] \in {"counting", "loaded", "counted", "pushing", "responding"}

\* Updates may be lost, but none is invented: neither request_count nor a
\* status page ever says more than the handlers that have returned.
NeverOvercounts ==
  /\ requestCount <= returned
  /\ \A w \in Workers : HasPage(w) => total[w] < returned

\* Clients that wait for each response before the next request is sent, on
\* whichever thread, read of every request that a handler has answered, and of no
\* other: the page's total and its rows, by target and code, are exact, its own
\* request and the malformed ones excepted.  (Statistics are updated before the
\* response is sent.)
PageIsExact ==
  serial => \A w \in Workers : HasPage(w) =>
    /\ rows[w] = [u \in Uris |-> [c \in Codes |-> CountOf(before[w], <<u, c>>)]]
    /\ total[w] = Len(before[w])

\* status_handler.cc:67 calls it the "Total number of requests": it counts at
\* least those that handlers had answered before the page was asked for.
TotalCountsAnswered ==
  \A w \in Workers : HasPage(w) => total[w] >= Len(before[w])
=============================================================================
